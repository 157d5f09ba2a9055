----------------------------- MODULE KeyList_proofs -----------------------------
(***************************************************************************)
(* KeyList for any number of keys, plans and events.                       *)
(***************************************************************************)
EXTENDS KeyList, TLAPS

RowSets == UNION {[D -> Rows] : D \in SUBSET Ids}

AnyIds == Ids \cup {NoId}

\* A call has been served or has failed for ids it names; an update names keys;
\* keys are read for a PATCH, until it is served.
Calls ==
    {c \in [op : Ops, ids : SUBSET AnyIds, enabled : BOOLEAN, plan : Plans \cup {NoPlan},
            read : RowSets, done : SUBSET AnyIds, failed : SUBSET AnyIds, rows : RowSets] :
        /\ c.done \cup c.failed \subseteq c.ids
        /\ c.done \cap c.failed = {}
        /\ c.op \in Updates => c.ids \subseteq Ids
        /\ DOMAIN c.read \subseteq Unanswered(c)
        /\ DOMAIN c.read # {} => c.op \in Patching}

\* What a dialog asks about is a key, unless it is about all of them.
Pendings ==
    {p \in [type : {"none", "rotate", "delete", "resetLimits", "resetUsage"}, id : AnyIds] :
        p.type \in {"rotate", "delete", "resetLimits"} => p.id \in Ids}

Typed ==
    /\ server \in RowSets /\ keys \in RowSets /\ plain \in RowSets
    /\ selected \subseteq Ids /\ updating \subseteq Ids
    /\ resetting \in BOOLEAN /\ loading \in BOOLEAN /\ error \in BOOLEAN
    /\ pending \in Pendings /\ confirming \in BOOLEAN
    /\ calls \in Seq(Calls) /\ strays \in Seq(Calls)
    /\ issued \in Nat /\ undone \subseteq Ids /\ mounted \in BOOLEAN
    /\ raced \in BOOLEAN /\ events \in Nat

Inv == Typed /\ BlockedByCalls /\ ConfirmedRunsAlone

--------------------------------------------------------------------------------
(* Rows.                                                                     *)

LEMMA RowSetsParts ==
    ASSUME NEW rows
    PROVE  rows \in RowSets <=> DOMAIN rows \subseteq Ids /\ rows \in [DOMAIN rows -> Rows]
  BY DEF RowSets

LEMMA NoRowsTyped == NoRows \in RowSets
  <1>1. NoRows \in [{} -> Rows]
    BY DEF NoRows
  <1> QED
    BY <1>1 DEF RowSets

LEMMA RestrictedTyped ==
    ASSUME NEW rows \in RowSets, NEW i
    PROVE  Without(rows, i) \in RowSets /\ DOMAIN Without(rows, i) = DOMAIN rows \ {i}
  <1>1. DOMAIN rows \subseteq Ids /\ \A j \in DOMAIN rows : rows[j] \in Rows
    BY DEF RowSets
  <1>2. Without(rows, i) \in [DOMAIN rows \ {i} -> Rows]
    BY <1>1 DEF Without, Restrict
  <1> QED
    BY <1>1, <1>2 DEF RowSets

LEMMA ExtendedTyped ==
    ASSUME NEW rows \in RowSets, NEW i \in Ids, NEW row \in Rows
    PROVE  With(rows, i, row) \in RowSets /\ DOMAIN With(rows, i, row) = DOMAIN rows \cup {i}
  <1>1. DOMAIN rows \subseteq Ids /\ \A j \in DOMAIN rows : rows[j] \in Rows
    BY DEF RowSets
  <1>2. With(rows, i, row) \in [DOMAIN rows \cup {i} -> Rows]
    BY <1>1 DEF With
  <1> QED
    BY <1>1, <1>2 DEF RowSets

LEMMA ReplacedTyped ==
    ASSUME keys \in RowSets, NEW rows \in RowSets
    PROVE  Replaced(rows) \in RowSets
  <1>1. /\ DOMAIN rows \subseteq Ids /\ \A j \in DOMAIN rows : rows[j] \in Rows
        /\ DOMAIN keys \subseteq Ids /\ \A j \in DOMAIN keys : keys[j] \in Rows
    BY DEF RowSets
  <1>2. Replaced(rows) \in [DOMAIN keys -> Rows]
    BY <1>1 DEF Replaced
  <1> QED
    BY <1>1, <1>2 DEF RowSets

--------------------------------------------------------------------------------
(* The calls under way.                                                      *)

LEMMA CallTyped ==
    ASSUME NEW op \in Ops, NEW ids \in SUBSET AnyIds, NEW enabled \in BOOLEAN,
           NEW plan \in Plans \cup {NoPlan}, op \in Updates => ids \subseteq Ids
    PROVE  /\ Call(op, ids, enabled, plan) \in Calls
           /\ Call(op, ids, enabled, plan).op = op
           /\ Call(op, ids, enabled, plan).ids = ids
  <1>1. NoRows \in RowSets /\ DOMAIN NoRows = {}
    BY NoRowsTyped DEF NoRows
  <1> QED
    BY <1>1 DEF Call, Calls

\* A call named by its parts.
Fits(op, ids, enabled, plan) ==
    /\ op \in Ops /\ ids \in SUBSET AnyIds /\ enabled \in BOOLEAN /\ plan \in Plans \cup {NoPlan}
    /\ op \in Updates => ids \subseteq Ids

LEMMA CallNamed ==
    \A op, ids, enabled, plan :
        Fits(op, ids, enabled, plan) =>
            /\ Call(op, ids, enabled, plan) \in Calls
            /\ Call(op, ids, enabled, plan).op = op
            /\ Call(op, ids, enabled, plan).ids = ids
  BY CallTyped DEF Fits

LEMMA LoadTyped ==
    /\ Load \in Calls /\ Load.op = "load"
    /\ Reload \in Calls /\ Reload.op = "reload"
  <1>1. /\ "load" \in Ops /\ "load" \notin Updates
        /\ "reload" \in Ops /\ "reload" \notin Updates
    BY DEF Ops, Updates
  <1>2. {NoId} \in SUBSET AnyIds /\ FALSE \in BOOLEAN /\ NoPlan \in Plans \cup {NoPlan}
    BY DEF AnyIds
  <1>3. ASSUME NEW op \in Ops \ Updates
        PROVE  Call(op, {NoId}, FALSE, NoPlan) \in Calls /\ Call(op, {NoId}, FALSE, NoPlan).op = op
    BY <1>2, CallTyped
  <1> QED
    BY <1>1, <1>3 DEF Load, Reload

\* One more call.
LEMMA Sent ==
    ASSUME NEW S, NEW cs \in Seq(S), NEW c \in S
    PROVE  /\ Append(cs, c) \in Seq(S)
           /\ DOMAIN Append(cs, c) = 1 .. Len(cs) + 1
           /\ Append(cs, c)[Len(cs) + 1] = c
           /\ \A n \in DOMAIN cs : n \in DOMAIN Append(cs, c) /\ Append(cs, c)[n] = cs[n]
  OBVIOUS

\* One sequence after another.
LEMMA Joined ==
    ASSUME NEW S, NEW a \in Seq(S), NEW b \in Seq(S)
    PROVE  /\ a \o b \in Seq(S) /\ Len(a \o b) = Len(a) + Len(b)
           /\ \A k \in 1 .. Len(a) + Len(b) :
                (a \o b)[k] = IF k <= Len(a) THEN a[k] ELSE b[k - Len(a)]
  OBVIOUS

\* One call less: the others keep their order.
LEMMA Over ==
    ASSUME NEW S, NEW cs \in Seq(S), NEW n \in DOMAIN cs
    PROVE  /\ RemoveAt(cs, n) \in Seq(S)
           /\ Len(RemoveAt(cs, n)) = Len(cs) - 1
           /\ \A k \in 1 .. Len(cs) - 1 :
                RemoveAt(cs, n)[k] = IF k < n THEN cs[k] ELSE cs[k + 1]
  <1> DEFINE l == Len(cs)
             a == SubSeq(cs, 1, n - 1)
             b == SubSeq(cs, n + 1, l)
  <1>1. l \in Nat /\ n \in 1 .. l /\ \A k \in 1 .. l : cs[k] \in S
    OBVIOUS
  <1>2. a \in Seq(S) /\ Len(a) = n - 1 /\ \A k \in 1 .. n - 1 : a[k] = cs[k]
    BY <1>1
  <1>3. b \in Seq(S) /\ Len(b) = l - n /\ \A k \in 1 .. l - n : b[k] = cs[n + k]
    BY <1>1
  <1>4. RemoveAt(cs, n) = a \o b
    BY DEF RemoveAt
  <1> HIDE DEF a, b, l
  <1>5. /\ a \o b \in Seq(S) /\ Len(a \o b) = l - 1
        /\ \A k \in 1 .. l - 1 : (a \o b)[k] = IF k <= n - 1 THEN a[k] ELSE b[k - (n - 1)]
    <2>1. PICK i : i = Len(a)
      OBVIOUS
    <2>2. /\ a \o b \in Seq(S) /\ Len(a \o b) = i + Len(b)
          /\ \A k \in 1 .. i + Len(b) : (a \o b)[k] = IF k <= i THEN a[k] ELSE b[k - i]
      BY <1>2, <1>3, <2>1, Joined
    <2>3. i = n - 1 /\ i + Len(b) = l - 1
      BY <1>1, <1>2, <1>3, <2>1
    <2> QED
      BY <2>2, <2>3
  <1>6. ASSUME NEW k \in 1 .. l - 1
        PROVE  (a \o b)[k] = IF k < n THEN cs[k] ELSE cs[k + 1]
    <2>1. CASE k < n
      BY <1>1, <1>2, <1>5, <2>1
    <2>2. CASE ~(k < n)
      <3>1. k - (n - 1) \in 1 .. l - n /\ n + (k - (n - 1)) = k + 1
        BY <1>1, <2>2
      <3>2. PICK j \in 1 .. l - n : j = k - (n - 1)
        BY <3>1
      <3>3. b[j] = cs[n + j] /\ n + j = k + 1
        BY <1>3, <3>1, <3>2
      <3>4. (a \o b)[k] = b[j]
        BY <1>1, <1>5, <2>2, <3>2
      <3> QED
        BY <2>2, <3>3, <3>4
    <2> QED
      BY <2>1, <2>2
  <1> QED
    BY <1>4, <1>5, <1>6 DEF l

\* After one more call.
LEMMA SendsEffect ==
    ASSUME calls \in Seq(Calls), NEW c \in Calls, Sends(c)
    PROVE  /\ calls' \in Seq(Calls) /\ raced' \in BOOLEAN
           /\ \A m \in DOMAIN calls : m \in DOMAIN calls' /\ calls'[m] = calls[m]
           /\ \E k \in DOMAIN calls' :
                 /\ calls'[k] = c
                 /\ \A m \in DOMAIN calls' \ {k} : m \in DOMAIN calls
  <1>1. calls' = Append(calls, c) /\ raced' = RacedBy(c, calls)
    BY DEF Sends
  <1>2. /\ calls' \in Seq(Calls) /\ DOMAIN calls' = 1 .. Len(calls) + 1
        /\ calls'[Len(calls) + 1] = c
        /\ \A m \in DOMAIN calls : m \in DOMAIN calls' /\ calls'[m] = calls[m]
    BY <1>1, Sent
  <1>3. raced' \in BOOLEAN
    BY <1>1 DEF RacedBy
  <1>4. \A m \in DOMAIN calls' \ {Len(calls) + 1} : m \in DOMAIN calls
    BY <1>2
  <1>5. Len(calls) + 1 \in DOMAIN calls'
    BY <1>2
  <1> QED
    BY <1>2, <1>3, <1>4, <1>5

\* What is left of the calls when call n is over: the others, each once.
Left(rest, n) ==
    /\ rest \in Seq(Calls)
    /\ \A m \in DOMAIN calls \ {n} : \E k \in DOMAIN rest : rest[k] = calls[m]
    /\ \A k \in DOMAIN rest : \E m \in DOMAIN calls \ {n} : rest[k] = calls[m]
    /\ \A k, l \in DOMAIN rest : k # l =>
          \E m, p \in DOMAIN calls \ {n} : m # p /\ rest[k] = calls[m] /\ rest[l] = calls[p]

LEMMA LeftOver ==
    ASSUME calls \in Seq(Calls), NEW n \in DOMAIN calls
    PROVE  Left(RemoveAt(calls, n), n)
  <1> DEFINE rest == RemoveAt(calls, n)
             z == Len(calls)
             from(k) == IF k < n THEN k ELSE k + 1
  <1>1. z \in Nat /\ n \in 1 .. z /\ DOMAIN calls = 1 .. z
    OBVIOUS
  <1>2. /\ rest \in Seq(Calls) /\ Len(rest) = z - 1
        /\ \A k \in 1 .. z - 1 : rest[k] = IF k < n THEN calls[k] ELSE calls[k + 1]
    BY Over
  <1>3. DOMAIN rest = 1 .. z - 1
    BY <1>2
  <1> HIDE DEF rest, z
  <1>4. \A k \in 1 .. z - 1 : from(k) \in DOMAIN calls \ {n} /\ rest[k] = calls[from(k)]
    BY <1>1, <1>2
  <1>5. \A k, l \in 1 .. z - 1 : k # l => from(k) # from(l)
    BY <1>1
  <1>6. ASSUME NEW m \in DOMAIN calls \ {n}
        PROVE  \E k \in 1 .. z - 1 : rest[k] = calls[m]
    <2>1. CASE m < n
      BY <1>1, <1>2, <2>1
    <2>2. CASE ~(m < n)
      <3>1. m - 1 \in 1 .. z - 1 /\ (m - 1) + 1 = m /\ ~(m - 1 < n)
        BY <1>1, <2>2
      <3> QED
        BY <1>2, <3>1
    <2> QED
      BY <2>1, <2>2
  <1> HIDE DEF from
  <1> QED
    BY <1>2, <1>3, <1>4, <1>5, <1>6 DEF Left, rest

\* After call n is over.
LEMMA EndsEffect ==
    ASSUME calls \in Seq(Calls), NEW n \in DOMAIN calls, Ends(n)
    PROVE  Left(calls', n) /\ calls' \in Seq(Calls)
  BY LeftOver DEF Ends, Left

\* After call n is over and another was made at once.
LEMMA SendsAfterEffect ==
    ASSUME calls \in Seq(Calls), NEW n \in DOMAIN calls, NEW c \in Calls, SendsAfter(n, c)
    PROVE  /\ calls' \in Seq(Calls) /\ raced' \in BOOLEAN
           /\ \A m \in DOMAIN calls \ {n} : \E k \in DOMAIN calls' : calls'[k] = calls[m]
           /\ \E k \in DOMAIN calls' :
                 /\ calls'[k] = c
                 /\ \A l \in DOMAIN calls' \ {k} :
                       \E m \in DOMAIN calls \ {n} : calls'[l] = calls[m]
                 /\ \A l, o \in DOMAIN calls' \ {k} : l # o =>
                       \E m, p \in DOMAIN calls \ {n} :
                           m # p /\ calls'[l] = calls[m] /\ calls'[o] = calls[p]
  <1> DEFINE rest == RemoveAt(calls, n)
             z == Len(rest)
  <1>1. Left(rest, n)
    BY LeftOver
  <1>2. calls' = Append(rest, c) /\ raced' = RacedBy(c, rest)
    BY DEF SendsAfter
  <1> HIDE DEF rest
  <1>3. raced' \in BOOLEAN
    BY <1>2 DEF RacedBy
  <1>4. rest \in Seq(Calls)
    BY <1>1 DEF Left
  <1>5. z \in Nat /\ DOMAIN rest = 1 .. z
    BY <1>4
  <1>6. /\ calls' \in Seq(Calls) /\ DOMAIN calls' = 1 .. z + 1
        /\ calls'[z + 1] = c
        /\ \A m \in DOMAIN rest : m \in DOMAIN calls' /\ calls'[m] = rest[m]
    BY <1>2, <1>4, Sent
  <1>7. z + 1 \in DOMAIN calls' /\ \A l \in DOMAIN calls' \ {z + 1} : l \in DOMAIN rest
    BY <1>5, <1>6
  <1> HIDE DEF z
  <1>8. \A m \in DOMAIN calls \ {n} : \E k \in DOMAIN calls' : calls'[k] = calls[m]
    BY <1>1, <1>6 DEF Left
  <1>9. \A l \in DOMAIN calls' \ {z + 1} : \E m \in DOMAIN calls \ {n} : calls'[l] = calls[m]
    BY <1>1, <1>6, <1>7 DEF Left
  <1>10. \A l, o \in DOMAIN calls' \ {z + 1} : l # o =>
            \E m, p \in DOMAIN calls \ {n} :
                m # p /\ calls'[l] = calls[m] /\ calls'[o] = calls[p]
    BY <1>1, <1>6, <1>7 DEF Left
  <1> QED
    BY <1>3, <1>6, <1>7, <1>8, <1>9, <1>10

\* The server changes no call but for what has been served of it.
LEMMA CallsServed ==
    ASSUME calls \in Seq(Calls), NEW n \in DOMAIN calls, NEW d \in Calls,
           d.op = calls[n].op, d.ids = calls[n].ids, calls' = [calls EXCEPT ![n] = d]
    PROVE  /\ calls' \in Seq(Calls) /\ DOMAIN calls' = DOMAIN calls
           /\ \A m \in DOMAIN calls : calls'[m].op = calls[m].op /\ calls'[m].ids = calls[m].ids
  OBVIOUS

--------------------------------------------------------------------------------
(* The dialog's calls.                                                       *)

LEMMA NoneConfirmed ==
    ASSUME \A k \in DOMAIN calls' : ~(calls'[k].op \in Confirmables)
    PROVE  ConfirmedRunsAlone'
  BY DEF ConfirmedRunsAlone

LEMMA OneConfirmed ==
    ASSUME NEW k \in DOMAIN calls',
           \A l \in DOMAIN calls' \ {k} : ~(calls'[l].op \in Confirmables),
           confirming',
           pending'.type = IF calls'[k].op = "reload" THEN "resetUsage" ELSE calls'[k].op
    PROVE  ConfirmedRunsAlone'
  BY DEF ConfirmedRunsAlone

\* The dialog is as it was, and so are the calls it waits for.
LEMMA SameConfirmed ==
    ASSUME ConfirmedRunsAlone, UNCHANGED dialog,
           \A k \in DOMAIN calls' : calls'[k].op \in Confirmables =>
                \E m \in DOMAIN calls : calls[m].op = calls'[k].op,
           \A k, l \in DOMAIN calls' :
                k # l /\ calls'[k].op \in Confirmables /\ calls'[l].op \in Confirmables =>
                \E m, p \in DOMAIN calls :
                    m # p /\ calls[m].op = calls'[k].op /\ calls[p].op = calls'[l].op
    PROVE  ConfirmedRunsAlone'
  BY DEF ConfirmedRunsAlone, dialog

--------------------------------------------------------------------------------
(* What a click, an answer and an answer followed by a reload do to the     *)
(* calls, and so to what waits for them.                                    *)

CallsOK == /\ calls \in Seq(Calls) /\ raced \in BOOLEAN
           /\ BlockedByCalls /\ ConfirmedRunsAlone

LEMMA ClickSends ==
    ASSUME CallsOK, NEW c \in Calls, Sends(c), c.op # "reload",
           updating' = IF c.op \in Updates THEN updating \cup c.ids ELSE updating,
           loading' => loading \/ Loads(c),
           resetting' => resetting \/ c.op = "resetUsage",
           c.op \in Confirmables => ~confirming /\ confirming' /\ pending'.type = c.op,
           c.op \notin Confirmables => UNCHANGED dialog
    PROVE  CallsOK'
  <1>1. /\ calls' \in Seq(Calls) /\ raced' \in BOOLEAN
        /\ \A m \in DOMAIN calls : m \in DOMAIN calls' /\ calls'[m] = calls[m]
    BY SendsEffect DEF CallsOK
  <1>2. PICK k \in DOMAIN calls' :
            calls'[k] = c /\ \A m \in DOMAIN calls' \ {k} : m \in DOMAIN calls
    BY SendsEffect DEF CallsOK
  <1>3. BlockedByCalls'
    <2>1. \A i \in updating' : \E n \in DOMAIN calls' :
              calls'[n].op \in Updates /\ i \in calls'[n].ids
      BY <1>1, <1>2 DEF CallsOK, BlockedByCalls
    <2>2. loading' => \E n \in DOMAIN calls' : Loads(calls'[n])
      BY <1>1, <1>2 DEF CallsOK, BlockedByCalls, Loads
    <2>3. confirming' => \E n \in DOMAIN calls' : calls'[n].op \in Confirmables
      BY <1>1, <1>2 DEF CallsOK, BlockedByCalls, dialog
    <2>4. resetting' => \E n \in DOMAIN calls' : calls'[n].op \in {"resetUsage", "reload"}
      BY <1>1, <1>2 DEF CallsOK, BlockedByCalls
    <2> QED
      BY <2>1, <2>2, <2>3, <2>4 DEF BlockedByCalls, Loads
  <1>4. CASE c.op \in Confirmables
    <2>1. \A m \in DOMAIN calls : ~(calls[m].op \in Confirmables)
      BY <1>4 DEF CallsOK, ConfirmedRunsAlone
    <2>2. \A l \in DOMAIN calls' \ {k} : ~(calls'[l].op \in Confirmables)
      BY <1>1, <1>2, <2>1
    <2>3. ConfirmedRunsAlone'
      BY <1>2, <1>4, <2>2, OneConfirmed
    <2> QED
      BY <1>1, <1>3, <2>3 DEF CallsOK
  <1>5. CASE c.op \notin Confirmables
    <2>1. \A l \in DOMAIN calls' : calls'[l].op \in Confirmables =>
              l \in DOMAIN calls /\ calls'[l] = calls[l]
      BY <1>1, <1>2, <1>5
    <2>2. ConfirmedRunsAlone'
      BY <1>5, <2>1, SameConfirmed DEF CallsOK
    <2> QED
      BY <1>1, <1>3, <2>2 DEF CallsOK
  <1> QED
    BY <1>4, <1>5

LEMMA AnswerEnds ==
    ASSUME CallsOK, NEW n \in DOMAIN calls, Ends(n), raced' = raced,
           \/ updating' = updating \ calls[n].ids
           \/ updating' = updating /\ calls[n].op \notin Updates,
           loading' => loading /\ ~Loads(calls[n]),
           resetting' => resetting /\ calls[n].op \notin {"resetUsage", "reload"},
           calls[n].op \in Confirmables => ~confirming',
           calls[n].op \notin Confirmables => UNCHANGED dialog
    PROVE  CallsOK'
  <1>1. /\ calls' \in Seq(Calls)
        /\ \A m \in DOMAIN calls \ {n} : \E k \in DOMAIN calls' : calls'[k] = calls[m]
        /\ \A k \in DOMAIN calls' : \E m \in DOMAIN calls \ {n} : calls'[k] = calls[m]
        /\ \A k, l \in DOMAIN calls' : k # l =>
              \E m, p \in DOMAIN calls \ {n} :
                  m # p /\ calls'[k] = calls[m] /\ calls'[l] = calls[p]
    BY EndsEffect DEF CallsOK, Left
  <1>2. BlockedByCalls'
    <2>1. ASSUME NEW i \in updating'
          PROVE  \E k \in DOMAIN calls' : calls'[k].op \in Updates /\ i \in calls'[k].ids
      <3>1. i \in updating
        OBVIOUS
      <3>2. PICK m \in DOMAIN calls : calls[m].op \in Updates /\ i \in calls[m].ids
        BY <3>1 DEF CallsOK, BlockedByCalls
      <3>3. m # n
        BY <3>2
      <3> QED
        BY <1>1, <3>2, <3>3
    <2>2. loading' => \E k \in DOMAIN calls' : Loads(calls'[k])
      BY <1>1 DEF CallsOK, BlockedByCalls
    <2>3. confirming' => \E k \in DOMAIN calls' : calls'[k].op \in Confirmables
      BY <1>1 DEF CallsOK, BlockedByCalls, dialog
    <2>4. resetting' => \E k \in DOMAIN calls' : calls'[k].op \in {"resetUsage", "reload"}
      BY <1>1 DEF CallsOK, BlockedByCalls
    <2> QED
      BY <2>1, <2>2, <2>3, <2>4 DEF BlockedByCalls, Loads
  <1>3. CASE calls[n].op \in Confirmables
    <2>1. \A m \in DOMAIN calls \ {n} : ~(calls[m].op \in Confirmables)
      BY <1>3 DEF CallsOK, ConfirmedRunsAlone
    <2>2. ConfirmedRunsAlone'
      BY <1>1, <2>1, NoneConfirmed
    <2> QED
      BY <1>1, <1>2, <2>2 DEF CallsOK
  <1>4. CASE calls[n].op \notin Confirmables
    <2>1. \A k \in DOMAIN calls' : \E m \in DOMAIN calls : calls[m].op = calls'[k].op
      BY <1>1
    <2>2. ASSUME NEW k \in DOMAIN calls', NEW l \in DOMAIN calls', k # l
          PROVE  \E m, p \in DOMAIN calls :
                     m # p /\ calls[m].op = calls'[k].op /\ calls[p].op = calls'[l].op
      <3>1. PICK m \in DOMAIN calls \ {n}, p \in DOMAIN calls \ {n} :
                m # p /\ calls'[k] = calls[m] /\ calls'[l] = calls[p]
        BY <1>1, <2>2
      <3> QED
        BY <3>1
    <2>3. ConfirmedRunsAlone'
      BY <1>4, <2>1, <2>2, SameConfirmed DEF CallsOK
    <2> QED
      BY <1>1, <1>2, <2>3 DEF CallsOK
  <1> QED
    BY <1>3, <1>4

LEMMA AnswerReloads ==
    ASSUME CallsOK, NEW n \in DOMAIN calls, NEW c \in {Load, Reload}, SendsAfter(n, c),
           calls[n].op \notin Updates, ~Loads(calls[n]), UNCHANGED <<updating, resetting>>,
           c = Load => /\ calls[n].op # "resetUsage"
                       /\ calls[n].op \in Confirmables => ~confirming'
                       /\ calls[n].op \notin Confirmables => UNCHANGED dialog,
           c = Reload => calls[n].op = "resetUsage" /\ UNCHANGED dialog
    PROVE  CallsOK'
  <1>1. c \in Calls /\ Loads(c) /\ (c = Load => c.op = "load") /\ (c = Reload => c.op = "reload")
    BY LoadTyped DEF Loads
  <1>2. /\ calls' \in Seq(Calls) /\ raced' \in BOOLEAN
        /\ \A m \in DOMAIN calls \ {n} : \E k \in DOMAIN calls' : calls'[k] = calls[m]
    BY <1>1, SendsAfterEffect DEF CallsOK
  <1>3. PICK k \in DOMAIN calls' :
            /\ calls'[k] = c
            /\ \A l \in DOMAIN calls' \ {k} : \E m \in DOMAIN calls \ {n} : calls'[l] = calls[m]
            /\ \A l, o \in DOMAIN calls' \ {k} : l # o =>
                  \E m, p \in DOMAIN calls \ {n} :
                      m # p /\ calls'[l] = calls[m] /\ calls'[o] = calls[p]
    BY <1>1, SendsAfterEffect DEF CallsOK
  <1>4. BlockedByCalls'
    <2>1. \A i \in updating' : \E l \in DOMAIN calls' :
              calls'[l].op \in Updates /\ i \in calls'[l].ids
      BY <1>2 DEF CallsOK, BlockedByCalls
    <2>2. \E l \in DOMAIN calls' : Loads(calls'[l])
      BY <1>1, <1>3
    <2>3. confirming' => \E l \in DOMAIN calls' : calls'[l].op \in Confirmables
      BY <1>1, <1>2, <1>3 DEF CallsOK, BlockedByCalls, dialog, Confirmables
    <2>4. resetting' => \E l \in DOMAIN calls' : calls'[l].op \in {"resetUsage", "reload"}
      BY <1>1, <1>2, <1>3 DEF CallsOK, BlockedByCalls, Loads
    <2> QED
      BY <2>1, <2>2, <2>3, <2>4 DEF BlockedByCalls, Loads
  <1>5. CASE calls[n].op \in Confirmables
    <2>1. \A m \in DOMAIN calls \ {n} : ~(calls[m].op \in Confirmables)
      BY <1>5 DEF CallsOK, ConfirmedRunsAlone
    <2>2. \A l \in DOMAIN calls' \ {k} : ~(calls'[l].op \in Confirmables)
      BY <1>3, <2>1
    <2>3. CASE c = Load
      <3>1. ~(calls'[k].op \in Confirmables)
        BY <1>1, <1>3, <2>3 DEF Confirmables
      <3> QED
        BY <1>2, <1>4, <2>2, <3>1, NoneConfirmed DEF CallsOK
    <2>4. CASE c = Reload
      <3>1. calls'[k].op = "reload" /\ confirming' /\ pending'.type = "resetUsage"
        BY <1>1, <1>3, <1>5, <2>4 DEF CallsOK, ConfirmedRunsAlone, dialog
      <3>2. ConfirmedRunsAlone'
        BY <2>2, <3>1, OneConfirmed
      <3> QED
        BY <1>2, <1>4, <3>2 DEF CallsOK
    <2> QED
      BY <2>3, <2>4
  <1>6. CASE calls[n].op \notin Confirmables
    <2>1. c.op \notin Confirmables /\ UNCHANGED dialog
      BY <1>1, <1>6 DEF Confirmables
    <2>2. ConfirmedRunsAlone'
      BY <1>3, <2>1, SameConfirmed DEF CallsOK
    <2> QED
      BY <1>2, <1>4, <2>2 DEF CallsOK
  <1> QED
    BY <1>5, <1>6

--------------------------------------------------------------------------------
(* The invariant is inductive.                                               *)

\* What is typed apart from the calls.
PageOK ==
    /\ server \in RowSets /\ keys \in RowSets /\ plain \in RowSets
    /\ selected \subseteq Ids /\ updating \subseteq Ids
    /\ resetting \in BOOLEAN /\ loading \in BOOLEAN /\ error \in BOOLEAN
    /\ pending \in Pendings /\ confirming \in BOOLEAN
    /\ strays \in Seq(Calls)
    /\ issued \in Nat /\ undone \subseteq Ids /\ mounted \in BOOLEAN
    /\ events \in Nat

LEMMA InvParts ==
    /\ Inv <=> PageOK /\ CallsOK
    /\ Inv' <=> PageOK' /\ CallsOK'
  BY DEF Inv, Typed, PageOK, CallsOK

LEMMA InvInit ==
    ASSUME Init
    PROVE  Inv
  <1>1. NewRow \in Rows
    BY DEF NewRow, Rows
  <1>2. server \in RowSets
    BY <1>1 DEF Init, RowSets
  <1>3. NothingPending \in Pendings
    BY DEF NothingPending, Pendings, AnyIds
  <1>4. PageOK
    <2>1. strays \in Seq(Calls)
      BY DEF Init
    <2>2. issued \in Nat
      BY DEF Init, NewRow
    <2> QED
      BY <1>2, <1>3, <2>1, <2>2, NoRowsTyped DEF Init, PageOK
  <1>5. calls = <<Load>> /\ Load \in Calls /\ Load.op = "load"
    BY LoadTyped DEF Init
  <1>6. calls \in Seq(Calls) /\ DOMAIN calls = {1} /\ calls[1] = Load
    BY <1>5
  <1>7. BlockedByCalls
    BY <1>5, <1>6 DEF Init, BlockedByCalls, Loads
  <1>8. ConfirmedRunsAlone
    BY <1>5, <1>6 DEF ConfirmedRunsAlone, Confirmables
  <1> QED
    BY <1>4, <1>6, <1>7, <1>8, InvParts DEF Init, CallsOK

\* The calls go on, and what waits for them is as it was.
LEMMA CallsGoOn ==
    ASSUME CallsOK, UNCHANGED <<calls, raced, updating, loading, resetting, confirming>>,
           pending' = pending \/ ~confirming
    PROVE  CallsOK'
  <1>1. BlockedByCalls'
    BY DEF CallsOK, BlockedByCalls, Loads
  <1>2. CASE pending' = pending
    BY <1>1, <1>2 DEF CallsOK, ConfirmedRunsAlone
  <1>3. CASE ~confirming
    <2>1. \A k \in DOMAIN calls' : ~(calls'[k].op \in Confirmables)
      BY <1>3 DEF CallsOK, ConfirmedRunsAlone
    <2> QED
      BY <1>1, <2>1, NoneConfirmed DEF CallsOK
  <1> QED
    BY <1>2, <1>3

\* While no dialog is open, none is busy.
LEMMA ClosedIsIdle ==
    ASSUME Inv, pending.type = "none"
    PROVE  ~confirming
  <1>1. ASSUME confirming
        PROVE  FALSE
    <2>1. PICK n \in DOMAIN calls : calls[n].op \in Confirmables
      BY <1>1 DEF Inv, BlockedByCalls
    <2>2. pending.type = IF calls[n].op = "reload" THEN "resetUsage" ELSE calls[n].op
      BY <2>1 DEF Inv, ConfirmedRunsAlone
    <2> QED
      BY <2>1, <2>2 DEF Confirmables
  <1> QED
    BY <1>1

LEMMA LocalStep ==
    ASSUME Inv,
           \/ \E i \in Ids : ToggleSelected(i)
           \/ ToggleAll \/ Cancel \/ ClosePlain
           \/ \E type \in {"rotate", "delete", "resetLimits", "resetUsage"}, i \in AnyIds :
                  Ask(type, i)
    PROVE  Inv'
  <1>1. PageOK /\ CallsOK
    BY InvParts
  <1>2. CASE \E i \in Ids : ToggleSelected(i)
    <2>1. PageOK'
      BY <1>1, <1>2 DEF ToggleSelected, PageOK, base, dialog
    <2> QED
      BY <1>1, <1>2, <2>1, CallsGoOn, InvParts DEF ToggleSelected, dialog
  <1>3. CASE ToggleAll
    <2>1. DOMAIN keys \subseteq Ids
      BY <1>1 DEF PageOK, RowSets
    <2>2. PageOK'
      BY <1>1, <1>3, <2>1 DEF ToggleAll, PageOK, base, dialog
    <2> QED
      BY <1>1, <1>3, <2>2, CallsGoOn, InvParts DEF ToggleAll, dialog
  <1>4. CASE Cancel
    <2>1. NothingPending \in Pendings
      BY DEF NothingPending, Pendings, AnyIds
    <2>2. PageOK'
      BY <1>1, <1>4, <2>1 DEF Cancel, PageOK, base
    <2> QED
      BY <1>1, <1>4, <2>2, CallsGoOn, InvParts DEF Cancel, DialogBusy
  <1>5. CASE ClosePlain
    <2>1. PageOK'
      BY <1>1, <1>5, NoRowsTyped DEF ClosePlain, PageOK, base, dialog
    <2> QED
      BY <1>1, <1>5, <2>1, CallsGoOn, InvParts DEF ClosePlain, dialog
  <1>6. ASSUME NEW type \in {"rotate", "delete", "resetLimits", "resetUsage"}, NEW i \in AnyIds,
               Ask(type, i)
        PROVE  Inv'
    <2>1. pending.type = "none" /\ (type # "resetUsage" => i \in DOMAIN keys)
      BY <1>6 DEF Ask, Uncovered, Listed
    <2>2. DOMAIN keys \subseteq Ids
      BY <1>1 DEF PageOK, RowSets
    <2>3. [type |-> type, id |-> i] \in Pendings
      BY <2>1, <2>2 DEF Pendings
    <2>4. PageOK'
      BY <1>1, <1>6, <2>3 DEF Ask, PageOK, base
    <2> QED
      BY <1>1, <1>6, <2>1, <2>4, ClosedIsIdle, CallsGoOn, InvParts DEF Ask
  <1> QED
    BY <1>2, <1>3, <1>4, <1>5, <1>6

LEMMA ClickStep ==
    ASSUME Inv,
           \/ Refresh
           \/ \E i \in Ids : SetEnabled(i) \/ ResetRPM(i)
           \/ \E i \in Ids, p \in Plans \cup {NoPlan} : SetPlan(i, p)
           \/ \E enabled \in BOOLEAN : BatchSetEnabled(enabled)
    PROVE  Inv'
  <1>1. PageOK /\ CallsOK /\ DOMAIN keys \subseteq Ids /\ keys \in [DOMAIN keys -> Rows]
    BY InvParts DEF PageOK, RowSets
  <1>2. Counted => events' \in Nat
    BY <1>1 DEF Counted, PageOK
  <1>3. /\ \A op \in {"setEnabled", "setPlan", "batch"} :
             op \in Ops /\ op \in Updates /\ op \notin Confirmables /\ op # "reload"
        /\ "resetRPM" \in Ops \ Updates /\ "resetRPM" \notin Confirmables
        /\ "load" \notin Updates /\ "load" \notin Confirmables
    BY DEF Ops, Updates, Confirmables
  <1>4. ASSUME NEW c \in Calls, Update(c), UNCHANGED dialog, c.op \in {"setEnabled", "setPlan", "batch"}
        PROVE  Inv'
    <2>1. c.ids \subseteq Ids
      BY <1>3, <1>4 DEF Calls
    <2>2. PageOK'
      BY <1>1, <1>2, <1>4, <2>1 DEF Update, PageOK, base, dialog
    <2>3. CallsOK'
      BY <1>1, <1>3, <1>4, ClickSends DEF Update
    <2> QED
      BY <2>2, <2>3, InvParts
  <1>5. CASE Refresh
    <2>1. PageOK'
      BY <1>1, <1>2, <1>5 DEF Refresh, Starts, PageOK, base, dialog
    <2>2. CallsOK'
      BY <1>1, <1>3, <1>5, LoadTyped, ClickSends DEF Refresh, Starts, Loads
    <2> QED
      BY <2>1, <2>2, InvParts
  <1>6. ASSUME NEW i \in Ids, SetEnabled(i)
        PROVE  Inv'
    <2>1. PICK e \in BOOLEAN : e = ~keys[i].enabled
      OBVIOUS
    <2>2. PICK op \in Updates, ids \in SUBSET AnyIds : op = "setEnabled" /\ ids = {i}
      BY <1>3 DEF AnyIds
    <2>3. PICK c : c = Call(op, ids, e, NoPlan)
      OBVIOUS
    <2>4. Fits(op, ids, e, NoPlan)
      BY <2>2 DEF Ops, Fits
    <2>5. c \in Calls /\ c.op = op
      BY <2>3, <2>4, CallNamed
    <2>6. Update(c) /\ UNCHANGED dialog
      BY <1>6, <2>1, <2>2, <2>3 DEF SetEnabled
    <2> QED
      BY <1>4, <2>2, <2>5, <2>6
  <1>7. ASSUME NEW i \in Ids, NEW p \in Plans \cup {NoPlan}, SetPlan(i, p)
        PROVE  Inv'
    <2>1. PICK e \in BOOLEAN : e = FALSE
      OBVIOUS
    <2>2. PICK op \in Updates, ids \in SUBSET AnyIds : op = "setPlan" /\ ids = {i}
      BY <1>3 DEF AnyIds
    <2>3. PICK c : c = Call(op, ids, e, p)
      OBVIOUS
    <2>4. Fits(op, ids, e, p)
      BY <2>2 DEF Ops, Fits
    <2>5. c \in Calls /\ c.op = op
      BY <2>3, <2>4, CallNamed
    <2>6. Update(c) /\ UNCHANGED dialog
      BY <1>7, <2>1, <2>2, <2>3 DEF SetPlan
    <2> QED
      BY <1>4, <2>2, <2>5, <2>6
  <1>8. ASSUME NEW enabled \in BOOLEAN, BatchSetEnabled(enabled)
        PROVE  Inv'
    <2>1. PICK op \in Updates, ids \in SUBSET AnyIds :
              op = "batch" /\ ids = selected \cap DOMAIN keys
      BY <1>1, <1>3 DEF AnyIds
    <2>2. PICK c : c = Call(op, ids, enabled, NoPlan)
      OBVIOUS
    <2>3. Fits(op, ids, enabled, NoPlan)
      BY <1>1, <2>1 DEF Ops, Fits
    <2>4. c \in Calls /\ c.op = op
      BY <2>2, <2>3, CallNamed
    <2>5. Update(c) /\ UNCHANGED dialog
      BY <1>8, <2>1, <2>2 DEF BatchSetEnabled
    <2> QED
      BY <1>4, <2>1, <2>4, <2>5
  <1>9. ASSUME NEW i \in Ids, ResetRPM(i)
        PROVE  Inv'
    <2>0. PICK op \in Ops \ Updates, ids \in SUBSET AnyIds, e \in BOOLEAN :
              op = "resetRPM" /\ ids = {i} /\ e = FALSE
      BY <1>3 DEF AnyIds
    <2>1. PICK c : c = Call(op, ids, e, NoPlan)
      OBVIOUS
    <2>2. c \in Calls /\ c.op = "resetRPM"
      <3>1. Fits(op, ids, e, NoPlan)
        BY DEF Fits
      <3>2. c \in Calls /\ c.op = op
        BY <2>1, <3>1, CallNamed
      <3> QED
        BY <2>0, <3>2
    <2>3. /\ Counted /\ Sends(c)
          /\ UNCHANGED <<base, keys, selected, updating, resetting, loading, error, plain, dialog>>
      BY <1>9, <2>0, <2>1 DEF ResetRPM
    <2>4. PageOK'
      BY <1>1, <1>2, <2>3 DEF PageOK, base, dialog
    <2>5. CallsOK'
      BY <1>1, <1>3, <2>2, <2>3, ClickSends
    <2> QED
      BY <2>4, <2>5, InvParts
  <1> QED
    BY <1>5, <1>6, <1>7, <1>8, <1>9

LEMMA ConfirmStep ==
    ASSUME Inv, ConfirmKey \/ ConfirmLimits \/ ConfirmUsage
    PROVE  Inv'
  <1>1. PageOK /\ CallsOK /\ Confirmed
    BY InvParts DEF ConfirmKey, ConfirmLimits, ConfirmUsage
  <1>2. ~confirming /\ confirming' /\ pending' = pending /\ confirming' \in BOOLEAN
    BY <1>1 DEF Confirmed
  <1>3. Counted => events' \in Nat
    BY <1>1 DEF Counted, PageOK
  <1>4. pending.type \in {"rotate", "delete", "resetLimits"} => pending.id \in Ids
    BY <1>1 DEF PageOK, Pendings
  <1>5. ASSUME NEW op \in {"rotate", "delete", "resetLimits"}, pending.type = op
        PROVE  /\ Call(op, {pending.id}, FALSE, NoPlan) \in Calls
               /\ Call(op, {pending.id}, FALSE, NoPlan).op = op
               /\ Call(op, {pending.id}, FALSE, NoPlan).ids = {pending.id}
    <2>1. PICK ids \in SUBSET AnyIds, e \in BOOLEAN : ids = {pending.id} /\ e = FALSE
      BY <1>4, <1>5 DEF AnyIds
    <2>2. PICK c : c = Call(op, ids, e, NoPlan)
      OBVIOUS
    <2>3. Fits(op, ids, e, NoPlan)
      BY <1>4, <1>5, <2>1 DEF Ops, Updates, Fits
    <2>4. c \in Calls /\ c.op = op /\ c.ids = ids
      BY <2>2, <2>3, CallNamed
    <2> QED
      BY <2>1, <2>2, <2>4
  <1>6. /\ \A op \in {"rotate", "delete", "resetUsage"} :
             op \notin Updates /\ op \in Confirmables /\ op # "reload"
        /\ "resetLimits" \in Updates /\ "resetLimits" \in Confirmables
    BY DEF Updates, Confirmables
  <1>7. CASE ConfirmKey
    <2> DEFINE c == Call(pending.type, {pending.id}, FALSE, NoPlan)
    <2>1. c \in Calls /\ c.op = pending.type /\ c.op \in {"rotate", "delete"}
      BY <1>5, <1>7 DEF ConfirmKey
    <2>2. /\ Counted /\ Sends(c)
          /\ UNCHANGED <<base, keys, selected, updating, resetting, loading, error, plain>>
      BY <1>7 DEF ConfirmKey
    <2> HIDE DEF c
    <2>3. PageOK'
      BY <1>1, <1>2, <1>3, <2>2 DEF PageOK, base
    <2>4. CallsOK'
      BY <1>1, <1>2, <1>6, <2>1, <2>2, ClickSends
    <2> QED
      BY <2>3, <2>4, InvParts
  <1>8. CASE ConfirmLimits
    <2> DEFINE c == Call("resetLimits", {pending.id}, FALSE, NoPlan)
    <2>1. c \in Calls /\ c.op = "resetLimits" /\ c.ids = {pending.id} /\ pending.type = "resetLimits"
      BY <1>5, <1>8 DEF ConfirmLimits
    <2>2. Update(c)
      BY <1>8 DEF ConfirmLimits
    <2> HIDE DEF c
    <2>3. PageOK'
      BY <1>1, <1>2, <1>3, <1>4, <2>1, <2>2 DEF Update, PageOK, base
    <2>4. CallsOK'
      BY <1>1, <1>2, <1>6, <2>1, <2>2, ClickSends DEF Update
    <2> QED
      BY <2>3, <2>4, InvParts
  <1>9. CASE ConfirmUsage
    <2>0. PICK op \in Ops, ids \in SUBSET AnyIds, e \in BOOLEAN :
              op = "resetUsage" /\ ids = {NoId} /\ e = FALSE
      BY DEF Ops, AnyIds
    <2>1. PICK c : c = Call(op, ids, e, NoPlan)
      OBVIOUS
    <2>2. c \in Calls /\ c.op = "resetUsage"
      <3>1. Fits(op, ids, e, NoPlan)
        BY <1>6, <2>0 DEF Fits
      <3>2. c \in Calls /\ c.op = op
        BY <2>1, <3>1, CallNamed
      <3> QED
        BY <2>0, <3>2
    <2>3. /\ Counted /\ pending.type = "resetUsage" /\ resetting' = TRUE /\ error' = FALSE
          /\ Sends(c) /\ UNCHANGED <<base, keys, selected, updating, loading, plain>>
      BY <1>9, <2>0, <2>1 DEF ConfirmUsage
    <2>4. PageOK'
      BY <1>1, <1>2, <1>3, <2>3 DEF PageOK, base
    <2>5. CallsOK'
      BY <1>1, <1>2, <1>6, <2>2, <2>3, ClickSends
    <2> QED
      BY <2>4, <2>5, InvParts
  <1> QED
    BY <1>7, <1>8, <1>9

\* What reading for, serving or losing a part of a call leaves of it.
LEMMA Progress ==
    ASSUME NEW c \in Calls, NEW i \in c.ids, NEW rows \in RowSets
    PROVE  /\ i \notin c.failed => /\ Served(c, i, rows) \in Calls
                                   /\ Served(c, i, rows).op = c.op
                                   /\ Served(c, i, rows).ids = c.ids
           /\ Failed(c, i) \in Calls /\ Failed(c, i).op = c.op /\ Failed(c, i).ids = c.ids
  <1>1. /\ Without(c.rows, i) \in RowSets
        /\ Without(c.read, i) \in RowSets /\ DOMAIN Without(c.read, i) = DOMAIN c.read \ {i}
    BY RestrictedTyped DEF Calls
  <1>2. i \notin c.failed => Served(c, i, rows) \in Calls
    BY <1>1 DEF Calls, Served, Unanswered
  <1>3. Served(c, i, rows).op = c.op /\ Served(c, i, rows).ids = c.ids
    BY DEF Calls, Served
  <1>4. Failed(c, i) \in Calls
    BY <1>1 DEF Calls, Failed, Unanswered
  <1>5. Failed(c, i).op = c.op /\ Failed(c, i).ids = c.ids
    BY DEF Calls, Failed
  <1> QED
    BY <1>2, <1>3, <1>4, <1>5

\* A call for which one more key has been read.
LEMMA ReadTyped ==
    ASSUME NEW c \in Calls, NEW i \in Ids, i \in Unanswered(c), c.op \in Patching, NEW row \in Rows
    PROVE  /\ [c EXCEPT !.read = With(@, i, row)] \in Calls
           /\ [c EXCEPT !.read = With(@, i, row)].op = c.op
           /\ [c EXCEPT !.read = With(@, i, row)].ids = c.ids
  <1>1. With(c.read, i, row) \in RowSets /\ DOMAIN With(c.read, i, row) = DOMAIN c.read \cup {i}
    BY ExtendedTyped DEF Calls
  <1> QED
    BY <1>1 DEF Calls, Unanswered

\* What the server works on still when a call is lost.
LEMMA PartTyped ==
    ASSUME NEW c \in Calls, NEW i \in DOMAIN c.read
    PROVE  Part(c, i) \in Calls
  <1>1. /\ c.read \in RowSets /\ i \in Ids /\ c.read[i] \in Rows
        /\ c.op \in Ops /\ c.op \in Patching
        /\ c.enabled \in BOOLEAN /\ c.plan \in Plans \cup {NoPlan}
    BY DEF Calls, RowSets
  <1>2. With(NoRows, i, c.read[i]) \in RowSets /\ DOMAIN With(NoRows, i, c.read[i]) = {i}
    <2>1. DOMAIN NoRows = {}
      BY DEF NoRows
    <2>2. PICK row \in Rows : row = c.read[i]
      BY <1>1
    <2>3. PICK j \in Ids : j = i
      BY <1>1
    <2>4. With(NoRows, j, row) \in RowSets /\ DOMAIN With(NoRows, j, row) = DOMAIN NoRows \cup {j}
      BY NoRowsTyped, ExtendedTyped
    <2> QED
      BY <2>1, <2>2, <2>3, <2>4
  <1>3. PICK ids : ids = {i}
    OBVIOUS
  <1>4. PICK d : d = Call(c.op, ids, c.enabled, c.plan)
    OBVIOUS
  <1>5. d \in Calls /\ d.op = c.op /\ d.ids = ids /\ d.done = {} /\ d.failed = {}
    <2>1. Fits(c.op, ids, c.enabled, c.plan)
      BY <1>1, <1>3 DEF Fits, AnyIds
    <2>2. d \in Calls /\ d.op = c.op /\ d.ids = ids
      BY <1>4, <2>1, CallNamed
    <2> QED
      BY <1>4, <2>2 DEF Call
  <1>6. [d EXCEPT !.read = With(NoRows, i, c.read[i])] \in Calls
    BY <1>1, <1>2, <1>3, <1>5 DEF Calls, Unanswered
  <1> QED
    BY <1>3, <1>4, <1>6 DEF Part

\* The calls go on as they are named; the page is as it was.
LEMMA ServedKeeps ==
    ASSUME Inv, NEW n \in DOMAIN calls, NEW d \in Calls,
           d.op = calls[n].op, d.ids = calls[n].ids, calls' = [calls EXCEPT ![n] = d],
           raced' \in BOOLEAN, server' \in RowSets, issued' \in Nat, strays' \in Seq(Calls),
           undone' \subseteq Ids, events' \in Nat, UNCHANGED page
    PROVE  Inv'
  <1>1. PageOK /\ CallsOK /\ calls \in Seq(Calls)
    BY InvParts DEF CallsOK
  <1>2. PageOK'
    BY <1>1 DEF PageOK, page, dialog
  <1>3. /\ calls' \in Seq(Calls) /\ DOMAIN calls' = DOMAIN calls
        /\ \A m \in DOMAIN calls : calls'[m].op = calls[m].op /\ calls'[m].ids = calls[m].ids
    BY <1>1, CallsServed
  <1>4. UNCHANGED <<updating, loading, confirming, resetting, dialog>>
    BY DEF page, dialog
  <1>5. BlockedByCalls'
    BY <1>1, <1>3, <1>4 DEF CallsOK, BlockedByCalls, Loads
  <1>6. ConfirmedRunsAlone'
    BY <1>1, <1>3, <1>4, SameConfirmed DEF CallsOK
  <1> QED
    BY <1>2, <1>3, <1>5, <1>6, InvParts DEF CallsOK

LEMMA UpdatedTyped ==
    ASSUME NEW c \in Calls, NEW row \in Rows, issued \in Nat
    PROVE  Updated(c, row) \in Rows
  <1>1. c.enabled \in BOOLEAN /\ c.plan \in Plans \cup {NoPlan}
    BY DEF Calls
  <1>2. [row EXCEPT !.enabled = c.enabled] \in Rows
    BY <1>1 DEF Rows
  <1>3. [row EXCEPT !.plan = c.plan] \in Rows
    BY <1>1 DEF Rows
  <1>4. [row EXCEPT !.limited = FALSE] \in Rows
    BY DEF Rows
  <1>5. [row EXCEPT !.secret = issued + 1] \in Rows
    BY DEF Rows
  <1> QED
    BY <1>2, <1>3, <1>4, <1>5 DEF Updated

\* What a PATCH writes back is a row.
LEMMA WrittenTyped ==
    ASSUME NEW c \in Calls, NEW i \in DOMAIN c.read, WritesBack(c, i),
           server \in RowSets, issued \in Nat, undone \subseteq Ids
    PROVE  i \in Ids /\ Written(c, i) \in Rows /\ server' \in RowSets /\ undone' \subseteq Ids
  <1>1. i \in Ids /\ c.read[i] \in Rows
    BY DEF Calls, RowSets
  <1>2. PICK row \in Rows : row = Updated(c, c.read[i])
    <2>1. PICK old \in Rows : old = c.read[i]
      BY <1>1
    <2>2. Updated(c, old) \in Rows
      BY UpdatedTyped
    <2> QED
      BY <2>1, <2>2
  <1>3. PICK used \in BOOLEAN : used = (i \in DOMAIN server /\ server[i].used)
    <2>1. \A j \in DOMAIN server : server[j].used \in BOOLEAN
      BY DEF RowSets, Rows
    <2> QED
      BY <2>1
  <1>4. Written(c, i) = [row EXCEPT !.used = used]
    BY <1>2, <1>3 DEF Written
  <1>5. Written(c, i) \in Rows
    BY <1>4 DEF Rows
  <1>6. PICK new \in Rows : new = Written(c, i)
    BY <1>5
  <1>7. server' \in RowSets
    BY <1>1, <1>6, ExtendedTyped DEF WritesBack
  <1>8. undone' \subseteq Ids
    BY <1>1 DEF WritesBack
  <1> QED
    BY <1>1, <1>5, <1>7, <1>8

LEMMA ServerStep ==
    ASSUME Inv, NEW n \in DOMAIN calls, Server(n)
    PROVE  Inv'
  <1>1. /\ calls \in Seq(Calls) /\ strays \in Seq(Calls) /\ server \in RowSets
        /\ issued \in Nat /\ undone \subseteq Ids /\ raced \in BOOLEAN /\ events \in Nat
    BY DEF Inv, Typed
  <1>2. PICK c \in Calls : c = calls[n]
    BY <1>1
  <1>3. /\ c.rows \in RowSets /\ c.ids \subseteq AnyIds
        /\ DOMAIN c.read \subseteq Unanswered(c) /\ c.done \cap c.failed = {} /\ c.done \subseteq c.ids
    BY DEF Calls
  <1>4. DOMAIN server \subseteq Ids /\ \A i \in DOMAIN server : server[i] \in Rows
    BY <1>1 DEF RowSets
  <1>5. ASSUME NEW i \in c.ids \ c.failed, NEW rows \in RowSets, Serves(n, i, rows),
               server' \in RowSets, issued' \in Nat, undone' \subseteq Ids,
               UNCHANGED <<page, strays, raced, events>>
        PROVE  Inv'
    <2>1. PICK d : d = Served(c, i, rows)
      OBVIOUS
    <2>2. d \in Calls /\ d.op = c.op /\ d.ids = c.ids
      BY <2>1, Progress
    <2>3. calls' = [calls EXCEPT ![n] = d]
      BY <1>2, <1>5, <2>1 DEF Serves
    <2> QED
      BY <1>1, <1>2, <1>5, <2>2, <2>3, ServedKeeps
  <1>6. ASSUME NEW i \in Ids, ServeKey(n, i)
        PROVE  Inv'
    <2>1. i \in DOMAIN server /\ i \in c.ids \ c.failed
      BY <1>2, <1>6 DEF ServeKey, Unanswered
    <2>2. PICK row \in Rows : row = Updated(c, server[i])
      <3>1. PICK old \in Rows : old = server[i]
        BY <1>4, <2>1
      <3>2. Updated(c, old) \in Rows
        BY <1>1, UpdatedTyped
      <3> QED
        BY <3>1, <3>2
    <2>3. server' = [server EXCEPT ![i] = row] /\ Serves(n, i, With(c.rows, i, row))
      BY <1>2, <1>6, <2>2 DEF ServeKey
    <2>4. server' \in RowSets
      <3>1. PICK D \in SUBSET Ids : server \in [D -> Rows]
        BY <1>1 DEF RowSets
      <3>2. server' \in [D -> Rows]
        BY <2>3, <3>1
      <3> QED
        BY <3>2 DEF RowSets
    <2>5. With(c.rows, i, row) \in RowSets
      BY <1>3, ExtendedTyped
    <2>6. issued' \in Nat /\ undone' \subseteq Ids /\ UNCHANGED <<page, strays, raced, events>>
      BY <1>1, <1>6 DEF ServeKey
    <2> QED
      BY <1>5, <2>1, <2>3, <2>4, <2>5, <2>6
  <1>7. ASSUME NEW i \in Ids, PatchReads(n, i)
        PROVE  Inv'
    <2>1. i \in DOMAIN server /\ i \in Unanswered(c) /\ c.op \in Patching
      BY <1>2, <1>7 DEF PatchReads
    <2>2. PICK row \in Rows : row = server[i]
      BY <1>4, <2>1
    <2>3. PICK d : d = [c EXCEPT !.read = With(@, i, row)]
      OBVIOUS
    <2>4. d \in Calls /\ d.op = c.op /\ d.ids = c.ids
      BY <2>1, <2>3, ReadTyped
    <2>5. calls' = [calls EXCEPT ![n] = d]
      BY <1>1, <1>2, <1>7, <2>2, <2>3 DEF PatchReads
    <2> QED
      BY <1>1, <1>2, <1>7, <2>4, <2>5, ServedKeeps DEF PatchReads
  <1>8. ASSUME NEW i \in Ids, PatchWrites(n, i)
        PROVE  Inv'
    <2>1. i \in DOMAIN c.read /\ WritesBack(c, i) /\ i \in c.ids \ c.failed
      BY <1>2, <1>3, <1>8 DEF PatchWrites, Unanswered
    <2>2. server' \in RowSets /\ undone' \subseteq Ids
      BY <1>1, <2>1, WrittenTyped
    <2>3. PICK row \in Rows : row = Written(c, i)
      BY <1>1, <2>1, WrittenTyped
    <2>4. With(c.rows, i, row) \in RowSets /\ Serves(n, i, With(c.rows, i, row))
      BY <1>2, <1>3, <1>8, <2>3, ExtendedTyped DEF PatchWrites
    <2> QED
      BY <1>1, <1>5, <1>8, <2>1, <2>2, <2>4 DEF PatchWrites
  <1>9. ASSUME NEW i \in Ids, Rereads(n, i)
        PROVE  Inv'
    <2>1. PICK row \in Rows : row = server[i]
      BY <1>4, <1>9 DEF Rereads
    <2>2. With(c.rows, i, row) \in RowSets /\ Serves(n, i, With(c.rows, i, row))
      BY <1>2, <1>3, <1>9, <2>1, ExtendedTyped DEF Rereads
    <2>3. i \in c.ids \ c.failed
      BY <1>2, <1>3, <1>9 DEF Rereads
    <2> QED
      BY <1>1, <1>5, <1>9, <2>2, <2>3 DEF Rereads
  <1>10. ASSUME NEW i \in Ids, ServeRPM(n, i)
         PROVE  Inv'
    <2>1. i \in c.ids \ c.failed
      BY <1>2, <1>10 DEF ServeRPM, Unanswered
    <2> QED
      BY <1>1, <1>5, <1>10, <2>1, NoRowsTyped DEF ServeRPM
  <1>11. ASSUME NEW i \in Ids, ServeDelete(n, i)
         PROVE  Inv'
    <2>1. server' \in RowSets
      BY <1>1, <1>11, RestrictedTyped DEF ServeDelete
    <2>2. i \in c.ids \ c.failed
      BY <1>2, <1>11 DEF ServeDelete, Unanswered
    <2> QED
      BY <1>1, <1>5, <1>11, <2>1, <2>2, NoRowsTyped DEF ServeDelete
  <1>12. CASE ServeReset(n)
    <2>1. \A row \in Rows : [row EXCEPT !.used = FALSE] \in Rows
      BY DEF Rows
    <2>2. server' \in [DOMAIN server -> Rows]
      BY <1>4, <1>12, <2>1 DEF ServeReset
    <2>3. server' \in RowSets
      BY <1>4, <2>2 DEF RowSets
    <2>4. NoId \in c.ids \ c.failed
      BY <1>2, <1>12 DEF ServeReset, Unanswered
    <2> QED
      BY <1>1, <1>5, <1>12, <2>3, <2>4, NoRowsTyped DEF ServeReset
  <1>13. CASE ServeList(n)
    <2>1. NoId \in c.ids \ c.failed
      BY <1>2, <1>13 DEF ServeList, Unanswered
    <2> QED
      BY <1>1, <1>5, <1>13, <2>1 DEF ServeList
  <1>14. ASSUME NEW i \in c.ids, calls' = [calls EXCEPT ![n] = Failed(c, i)],
               raced' \in BOOLEAN, strays' \in Seq(Calls), events' \in Nat,
               UNCHANGED <<page, server, issued, undone>>
        PROVE  Inv'
    <2>1. PICK d : d = Failed(c, i)
      OBVIOUS
    <2>2. d \in Calls /\ d.op = c.op /\ d.ids = c.ids
      BY <2>1, NoRowsTyped, Progress
    <2> QED
      BY <1>1, <1>2, <1>14, <2>1, <2>2, ServedKeeps
  <1>15. ASSUME NEW i \in Ids, Refuse(n, i)
         PROVE  Inv'
    <2>1. i \in c.ids /\ calls' = [calls EXCEPT ![n] = Failed(c, i)]
      BY <1>1, <1>2, <1>3, <1>15 DEF Refuse, Unanswered
    <2> QED
      BY <1>1, <1>14, <1>15, <2>1 DEF Refuse
  <1>16. ASSUME NEW i \in c.ids, Lose(n, i)
         PROVE  Inv'
    <2>1. calls' = [calls EXCEPT ![n] = Failed(c, i)]
      BY <1>1, <1>2, <1>16 DEF Lose
    <2>2. raced' \in BOOLEAN /\ events' \in Nat
      BY <1>1, <1>16 DEF Lose, Loads, Writes, Counted
    <2>3. CASE i \in DOMAIN c.read
      <3>1. PICK part \in Calls : part = Part(c, i)
        BY <2>3, PartTyped
      <3>2. strays' = Append(strays, part)
        BY <1>2, <1>16, <2>3, <3>1 DEF Lose
      <3>3. strays' \in Seq(Calls)
        BY <1>1, <3>2
      <3> QED
        BY <1>14, <1>16, <2>1, <2>2, <3>3 DEF Lose
    <2>4. CASE i \notin DOMAIN c.read
      BY <1>1, <1>2, <1>14, <1>16, <2>1, <2>2, <2>4 DEF Lose
    <2> QED
      BY <2>3, <2>4
  <1> QED
    BY <1>2, <1>6, <1>7, <1>8, <1>9, <1>10, <1>11, <1>12, <1>13, <1>15, <1>16 DEF Server

\* What the server does for a lost call.
LEMMA StrayStep ==
    ASSUME Inv, NEW m \in DOMAIN strays, StrayWrites(m)
    PROVE  Inv'
  <1>1. PageOK /\ CallsOK
    BY InvParts
  <1>2. PICK c \in Calls : c = strays[m]
    BY <1>1 DEF PageOK
  <1>3. PICK i \in DOMAIN c.read : WritesBack(c, i)
    BY <1>2 DEF StrayWrites
  <1>4. server' \in RowSets /\ undone' \subseteq Ids
    BY <1>1, <1>3, WrittenTyped DEF PageOK
  <1>5. strays' \in Seq(Calls)
    BY <1>1, Over DEF PageOK, StrayWrites
  <1>6. UNCHANGED <<page, calls, raced, issued, events>>
    BY DEF StrayWrites
  <1>7. PageOK'
    BY <1>1, <1>4, <1>5, <1>6 DEF PageOK, page, dialog
  <1>8. CallsOK'
    BY <1>1, <1>6, CallsGoOn DEF page, dialog
  <1> QED
    BY <1>7, <1>8, InvParts

--------------------------------------------------------------------------------
(* Answers.                                                                  *)

\* An answer that only ends its call.
LEMMA EndingStep ==
    ASSUME Inv, NEW n \in DOMAIN calls,
           \/ Loaded(n) \/ Reloaded(n) \/ BatchAnswered(n)
           \/ \E op \in Updates : RowAnswered(n, op)
           \/ ActionFails(n) \/ RPMFails(n)
    PROVE  Inv'
  <1>1. PageOK /\ CallsOK /\ calls[n] \in Calls
    BY InvParts DEF CallsOK
  <1>2. calls[n].rows \in RowSets /\ (calls[n].op \in Updates => calls[n].ids \subseteq Ids)
    BY <1>1 DEF Calls
  <1>3. /\ calls[n].failed \subseteq calls[n].ids /\ raced \in BOOLEAN
        /\ \A rows \in RowSets : Replaced(rows) \in RowSets
    BY <1>1, ReplacedTyped DEF Calls, PageOK, CallsOK
  <1>4. NothingPending \in Pendings
    BY DEF NothingPending, Pendings, AnyIds
  <1>5. CASE Loaded(n)
    <2>1. PageOK'
      BY <1>1, <1>2, <1>5 DEF Loaded, ListTaken, ListFails, PageOK, base, dialog
    <2>2. calls[n].op = "load" /\ Loads(calls[n]) /\ calls[n].op \notin Updates
          /\ calls[n].op \notin Confirmables
      BY <1>5 DEF Loaded, Answered, Loads, Updates, Confirmables
    <2>3. CallsOK'
      BY <1>1, <1>5, <2>2, AnswerEnds DEF Loaded
    <2> QED
      BY <2>1, <2>3, InvParts
  <1>6. CASE Reloaded(n)
    <2>1. PageOK'
      BY <1>1, <1>2, <1>4, <1>6 DEF Reloaded, ListTaken, ListFails, DialogCloses, PageOK, base
    <2>2. calls[n].op = "reload" /\ Loads(calls[n]) /\ calls[n].op \notin Updates
          /\ calls[n].op \in Confirmables
      BY <1>6 DEF Reloaded, Answered, Loads, Updates, Confirmables
    <2>3. CallsOK'
      BY <1>1, <1>6, <2>2, AnswerEnds DEF Reloaded, DialogCloses
    <2> QED
      BY <2>1, <2>3, InvParts
  <1>7. CASE BatchAnswered(n)
    <2>1. calls[n].op = "batch" /\ ~Loads(calls[n]) /\ calls[n].op \in Updates
          /\ calls[n].op \notin Confirmables
      BY <1>7 DEF BatchAnswered, Answered, Loads, Updates, Confirmables
    <2>2. PageOK'
      BY <1>1, <1>2, <1>3, <1>7, <2>1 DEF BatchAnswered, PageOK, base, dialog
    <2>3. CallsOK'
      BY <1>1, <1>7, <2>1, AnswerEnds DEF BatchAnswered
    <2> QED
      BY <2>2, <2>3, InvParts
  <1>8. ASSUME NEW op \in Updates, RowAnswered(n, op)
        PROVE  Inv'
    <2>1. calls[n].op = op /\ ~Loads(calls[n]) /\ calls[n].op \notin {"resetUsage", "reload"}
          /\ (op \in Confirmables <=> op = "resetLimits")
      BY <1>8 DEF RowAnswered, Answered, Loads, Updates, Confirmables
    <2>2. PageOK'
      BY <1>1, <1>2, <1>3, <1>4, <1>8, <2>1 DEF RowAnswered, Fails, DialogCloses, PageOK, base, dialog
    <2>3. CallsOK'
      BY <1>1, <1>8, <2>1, AnswerEnds DEF RowAnswered, DialogCloses
    <2> QED
      BY <2>2, <2>3, InvParts
  <1>9. CASE ActionFails(n)
    <2>1. calls[n].op \in Confirmables /\ ~Loads(calls[n]) /\ calls[n].op \notin Updates
          /\ calls[n].op # "reload"
      BY <1>9 DEF ActionFails, Fails, Answered, Loads, Updates, Confirmables
    <2>2. PageOK'
      BY <1>1, <1>4, <1>9 DEF ActionFails, DialogCloses, PageOK, base
    <2>3. CallsOK'
      BY <1>1, <1>9, <2>1, AnswerEnds DEF ActionFails, DialogCloses
    <2> QED
      BY <2>2, <2>3, InvParts
  <1>10. CASE RPMFails(n)
    <2>1. calls[n].op = "resetRPM" /\ ~Loads(calls[n]) /\ calls[n].op \notin Updates
          /\ calls[n].op \notin Confirmables
      BY <1>10 DEF RPMFails, Fails, Answered, Loads, Updates, Confirmables
    <2>2. PageOK'
      BY <1>1, <1>10 DEF RPMFails, PageOK, base, dialog
    <2>3. CallsOK'
      BY <1>1, <1>10, <2>1, AnswerEnds DEF RPMFails
    <2> QED
      BY <2>2, <2>3, InvParts
  <1> QED
    BY <1>5, <1>6, <1>7, <1>8, <1>9, <1>10

\* An answer after which the list is loaded again.
LEMMA ReloadingStep ==
    ASSUME Inv, NEW n \in DOMAIN calls,
           Rotated(n) \/ Deleted(n) \/ RPMReset(n) \/ UsageReset(n)
    PROVE  Inv'
  <1>1. PageOK /\ CallsOK /\ calls[n] \in Calls
    BY InvParts DEF CallsOK
  <1>2. calls[n].rows \in RowSets
    BY <1>1 DEF Calls
  <1>3. NothingPending \in Pendings
    BY DEF NothingPending, Pendings, AnyIds
  <1>4. Load # Reload
    BY LoadTyped
  <1>5. CASE Rotated(n)
    <2>1. calls[n].op = "rotate" /\ ~Loads(calls[n]) /\ calls[n].op \notin Updates
      BY <1>5 DEF Rotated, Succeeded, Answered, Loads, Updates
    <2>2. PageOK'
      BY <1>1, <1>2, <1>3, <1>5 DEF Rotated, StartsAfter, DialogCloses, PageOK, base
    <2>3. CallsOK'
      BY <1>1, <1>4, <1>5, <2>1, AnswerReloads DEF Rotated, StartsAfter, DialogCloses, Confirmables
    <2> QED
      BY <2>2, <2>3, InvParts
  <1>6. CASE Deleted(n)
    <2>1. calls[n].op = "delete" /\ ~Loads(calls[n]) /\ calls[n].op \notin Updates
      BY <1>6 DEF Deleted, Succeeded, Answered, Loads, Updates
    <2>2. PageOK'
      BY <1>1, <1>3, <1>6 DEF Deleted, StartsAfter, DialogCloses, PageOK, base
    <2>3. CallsOK'
      BY <1>1, <1>4, <1>6, <2>1, AnswerReloads DEF Deleted, StartsAfter, DialogCloses, Confirmables
    <2> QED
      BY <2>2, <2>3, InvParts
  <1>7. CASE RPMReset(n)
    <2>1. calls[n].op = "resetRPM" /\ ~Loads(calls[n]) /\ calls[n].op \notin Updates
      BY <1>7 DEF RPMReset, Succeeded, Answered, Loads, Updates
    <2>2. PageOK'
      BY <1>1, <1>7 DEF RPMReset, StartsAfter, PageOK, base, dialog
    <2>3. CallsOK'
      BY <1>1, <1>4, <1>7, <2>1, AnswerReloads DEF RPMReset, StartsAfter, Confirmables
    <2> QED
      BY <2>2, <2>3, InvParts
  <1>8. CASE UsageReset(n)
    <2>1. calls[n].op = "resetUsage" /\ ~Loads(calls[n]) /\ calls[n].op \notin Updates
      BY <1>8 DEF UsageReset, Succeeded, Answered, Loads, Updates
    <2>2. PageOK'
      BY <1>1, <1>8 DEF UsageReset, StartsAfter, PageOK, base, dialog
    <2>3. CallsOK'
      BY <1>1, <1>4, <1>8, <2>1, AnswerReloads DEF UsageReset, StartsAfter
    <2> QED
      BY <2>2, <2>3, InvParts
  <1> QED
    BY <1>5, <1>6, <1>7, <1>8

\* The session ends: nothing is left that waits for anything.
LEMMA SessionStep ==
    ASSUME Inv, NEW n \in DOMAIN calls, SessionEnds(n)
    PROVE  Inv'
  <1>1. PageOK /\ CallsOK
    BY InvParts
  <1>2. NothingPending \in Pendings
    BY DEF NothingPending, Pendings, AnyIds
  <1>3. PageOK'
    BY <1>1, <1>2, NoRowsTyped DEF PageOK, SessionEnds, DialogCloses
  <1>4. calls' = <<>> /\ calls' \in Seq(Calls) /\ DOMAIN calls' = {}
    BY DEF SessionEnds
  <1>5. BlockedByCalls' /\ ConfirmedRunsAlone'
    BY <1>4 DEF SessionEnds, DialogCloses, BlockedByCalls, ConfirmedRunsAlone
  <1> QED
    BY <1>1, <1>3, <1>4, <1>5, InvParts DEF CallsOK, SessionEnds

LEMMA InvStep ==
    ASSUME Inv, [Next]_vars
    PROVE  Inv'
  <1>1. CASE User
    BY <1>1, LocalStep, ClickStep, ConfirmStep DEF User, AnyIds
  <1>2. ASSUME NEW n \in DOMAIN calls, Server(n)
        PROVE  Inv'
    BY <1>2, ServerStep
  <1>3. ASSUME NEW n \in DOMAIN calls, Answer(n)
        PROVE  Inv'
    BY <1>3, EndingStep, ReloadingStep, SessionStep DEF Answer
  <1>4. ASSUME NEW m \in DOMAIN strays, StrayWrites(m)
        PROVE  Inv'
    BY <1>4, StrayStep
  <1>5. CASE UNCHANGED vars
    <2>1. PageOK /\ CallsOK
      BY InvParts
    <2>2. PageOK'
      BY <1>5, <2>1 DEF PageOK, vars
    <2> QED
      BY <1>5, <2>1, <2>2, CallsGoOn, InvParts DEF vars
  <1> QED
    BY <1>1, <1>2, <1>3, <1>4, <1>5 DEF Next

LEMMA InvHolds == Spec => []Inv
  <1>1. Init => Inv
    BY InvInit
  <1>2. Inv /\ [Next]_vars => Inv'
    BY InvStep
  <1> QED
    BY <1>1, <1>2, PTL DEF Spec

--------------------------------------------------------------------------------

\* Every variable keeps its type: no answer puts a row on the list that is not
\* one, and no part of a call is both done and failed (KeyList.tsx).
THEOREM ListTyped == Spec => []TypeOK
  <1>1. Inv => TypeOK
    <2> SUFFICES ASSUME Typed
                 PROVE  TypeOK
      BY DEF Inv
    <2>1. /\ DOMAIN server \subseteq Ids /\ server \in [DOMAIN server -> Rows]
          /\ DOMAIN keys \subseteq Ids /\ keys \in [DOMAIN keys -> Rows]
          /\ DOMAIN plain \subseteq Ids /\ plain \in [DOMAIN plain -> Rows]
      BY RowSetsParts DEF Typed
    <2>2. pending \in [type : {"none", "rotate", "delete", "resetLimits", "resetUsage"},
                       id : Ids \cup {NoId}]
      BY DEF Typed, Pendings, AnyIds
    <2>3. ASSUME NEW n \in DOMAIN calls
          PROVE  /\ calls[n].op \in Ops
                 /\ calls[n].ids \subseteq Ids \cup {NoId}
                 /\ calls[n].done \cup calls[n].failed \subseteq calls[n].ids
                 /\ calls[n].done \cap calls[n].failed = {}
                 /\ DOMAIN calls[n].read \subseteq Unanswered(calls[n])
      <3>1. calls[n] \in Calls
        BY DEF Typed
      <3> QED
        BY <3>1 DEF Calls, AnyIds
    <2> QED
      BY <2>1, <2>2, <2>3 DEF Typed, TypeOK
  <1> QED
    BY <1>1, InvHolds, PTL

\* Nothing on the page is blocked for good: whatever is marked as updating,
\* loading, busy or resetting waits for a call that is still under way.
THEOREM NothingStuck == Spec => []BlockedByCalls
  <1>1. Inv => BlockedByCalls
    BY DEF Inv
  <1> QED
    BY <1>1, InvHolds, PTL

\* Never are two confirmed rotations, deletions or resets under way, and the
\* dialog of the one that is stays open and busy.
THEOREM RunsAlone == Spec => []ConfirmedRunsAlone
  <1>1. Inv => ConfirmedRunsAlone
    BY DEF Inv
  <1> QED
    BY <1>1, InvHolds, PTL

--------------------------------------------------------------------------------
(* The plain key.                                                            *)

\* A plain key on display leaves no dialog open; a rotation under way tells
\* the secret that the server has by then, unless a PATCH has undone it.
PlainAlone == plain # NoRows => pending.type = "none"

RotatedInForce ==
    \A n \in DOMAIN calls : calls[n].op = "rotate" =>
        \A i \in (DOMAIN calls[n].rows \cap DOMAIN server) \ undone :
            calls[n].rows[i].secret = server[i].secret

PlainInv == Inv /\ PlainAlone /\ RotatedInForce /\ PlainInForce

\* The calls after a click or an answer: those there were, and new ones.
FromOld ==
    \A k \in DOMAIN calls' :
        calls'[k].rows = NoRows \/ \E m \in DOMAIN calls : calls'[k] = calls[m]

LEMMA NewCall ==
    \A op, ids, enabled, plan : Call(op, ids, enabled, plan).rows = NoRows
  BY DEF Call

LEMMA SendsFromOld ==
    ASSUME calls \in Seq(Calls), NEW c, c.rows = NoRows, Sends(c)
    PROVE  FromOld
  <1>1. calls' = Append(calls, c)
    BY DEF Sends
  <1>2. DOMAIN calls' = 1 .. Len(calls) + 1 /\ DOMAIN calls = 1 .. Len(calls) /\ Len(calls) \in Nat
    BY <1>1
  <1>3. \A k \in DOMAIN calls' : calls'[k] = c \/ (k \in DOMAIN calls /\ calls'[k] = calls[k])
    BY <1>1, <1>2
  <1> QED
    BY <1>3 DEF FromOld

LEMMA UserFromOld ==
    ASSUME Inv, User
    PROVE  FromOld /\ UNCHANGED base /\ plain' \in {plain, NoRows}
  <1>1. calls \in Seq(Calls)
    BY DEF Inv, Typed
  <1>2. UNCHANGED base /\ plain' \in {plain, NoRows}
    BY DEF User, Refresh, ToggleAll, Cancel, ConfirmKey, ConfirmLimits, ConfirmUsage, ClosePlain,
           ToggleSelected, SetEnabled, ResetRPM, SetPlan, BatchSetEnabled, Ask, Update
  <1>3. \/ UNCHANGED calls
        \/ \E op, ids, enabled, plan : Sends(Call(op, ids, enabled, plan))
    <2>1. CASE ToggleAll \/ Cancel \/ ClosePlain \/ \E i \in Ids : ToggleSelected(i)
      BY <2>1 DEF ToggleAll, Cancel, ClosePlain, ToggleSelected
    <2>2. CASE \E type \in {"rotate", "delete", "resetLimits", "resetUsage"}, i \in Ids \cup {NoId} :
                   Ask(type, i)
      BY <2>2 DEF Ask
    <2>3. CASE Refresh
      BY <2>3 DEF Refresh, Starts, Load
    <2>4. CASE ConfirmKey \/ ConfirmLimits \/ ConfirmUsage
      BY <2>4 DEF ConfirmKey, ConfirmLimits, ConfirmUsage, Update
    <2>5. CASE \E i \in Ids : SetEnabled(i) \/ ResetRPM(i)
      BY <2>5 DEF SetEnabled, ResetRPM, Update
    <2>6. CASE \/ \E i \in Ids, p \in Plans \cup {NoPlan} : SetPlan(i, p)
               \/ \E enabled \in BOOLEAN : BatchSetEnabled(enabled)
      BY <2>6 DEF SetPlan, BatchSetEnabled, Update
    <2> QED
      BY <2>1, <2>2, <2>3, <2>4, <2>5, <2>6 DEF User
  <1>4. CASE UNCHANGED calls
    <2>1. \A k \in DOMAIN calls' : k \in DOMAIN calls /\ calls'[k] = calls[k]
      BY <1>4
    <2> QED
      BY <1>2, <2>1 DEF FromOld
  <1>5. ASSUME NEW op, NEW ids, NEW enabled, NEW plan, Sends(Call(op, ids, enabled, plan))
        PROVE  FromOld
    <2>1. PICK c : c = Call(op, ids, enabled, plan)
      OBVIOUS
    <2>2. c.rows = NoRows
      BY <2>1, NewCall
    <2> QED
      BY <1>1, <1>5, <2>1, <2>2, SendsFromOld
  <1> QED
    BY <1>2, <1>3, <1>4, <1>5

LEMMA AnswerFromOld ==
    ASSUME Inv, NEW n \in DOMAIN calls, Answer(n)
    PROVE  /\ FromOld /\ UNCHANGED <<server, undone>>
           /\ plain' = plain \/ Rotated(n) \/ (SessionEnds(n) /\ plain' = NoRows)
  <1>1. calls \in Seq(Calls)
    BY DEF Inv, Typed
  <1>2. /\ UNCHANGED <<server, undone>>
        /\ plain' = plain \/ Rotated(n) \/ (SessionEnds(n) /\ plain' = NoRows)
    BY DEF Answer, Loaded, Reloaded, BatchAnswered, RowAnswered, Rotated, Deleted, RPMReset,
           UsageReset, ActionFails, RPMFails, SessionEnds, base
  <1>3. Ends(n) \/ SendsAfter(n, Load) \/ SendsAfter(n, Reload) \/ calls' = <<>>
    BY DEF Answer, Loaded, Reloaded, BatchAnswered, RowAnswered, Rotated, Deleted, RPMReset,
           UsageReset, ActionFails, RPMFails, SessionEnds, StartsAfter
  <1>4. CASE Ends(n)
    <2>1. \A k \in DOMAIN calls' : \E m \in DOMAIN calls : calls'[k] = calls[m]
      BY <1>1, <1>4, EndsEffect DEF Left
    <2> QED
      BY <1>2, <2>1 DEF FromOld
  <1>5. ASSUME NEW c \in {Load, Reload}, SendsAfter(n, c)
        PROVE  FromOld
    <2>1. c \in Calls /\ c.rows = NoRows
      BY LoadTyped, NewCall DEF Load, Reload
    <2>2. PICK k \in DOMAIN calls' :
              /\ calls'[k] = c
              /\ \A l \in DOMAIN calls' \ {k} : \E m \in DOMAIN calls \ {n} : calls'[l] = calls[m]
      BY <1>1, <1>5, <2>1, SendsAfterEffect
    <2> QED
      BY <2>1, <2>2 DEF FromOld
  <1>6. CASE calls' = <<>>
    <2>1. DOMAIN calls' = {}
      BY <1>6
    <2> QED
      BY <1>2, <2>1 DEF FromOld
  <1> QED
    BY <1>2, <1>3, <1>4, <1>5, <1>6

LEMMA PlainFromOld ==
    ASSUME PlainInv, FromOld, UNCHANGED <<server, undone>>
    PROVE  RotatedInForce' /\ (plain' \in {plain, NoRows} => PlainInForce')
  <1>1. DOMAIN NoRows = {}
    BY DEF NoRows
  <1>2. RotatedInForce'
    BY <1>1 DEF PlainInv, FromOld, RotatedInForce
  <1>3. ASSUME plain' \in {plain, NoRows}
        PROVE  PlainInForce'
    BY <1>1, <1>3 DEF PlainInv, PlainInForce
  <1> QED
    BY <1>2, <1>3

\* No rotation is under way while a plain key is on display.
LEMMA NoRotation ==
    ASSUME PlainInv, plain # NoRows
    PROVE  \A n \in DOMAIN calls : calls[n].op # "rotate"
  <1> SUFFICES ASSUME NEW n \in DOMAIN calls, calls[n].op = "rotate"
               PROVE  FALSE
    OBVIOUS
  <1>1. pending.type = "rotate"
    BY DEF PlainInv, Inv, ConfirmedRunsAlone, Confirmables
  <1> QED
    BY <1>1 DEF PlainInv, PlainAlone

LEMMA PlainUser ==
    ASSUME PlainInv, User
    PROVE  PlainInv'
  <1>1. Inv /\ Inv'
    BY InvStep DEF PlainInv, Next
  <1>2. FromOld /\ UNCHANGED <<server, undone>> /\ plain' \in {plain, NoRows}
    BY <1>1, UserFromOld DEF base
  <1>3. PlainAlone'
    <2>1. UNCHANGED pending \/ pending' = NothingPending \/ plain' = NoRows
      BY DEF User, Refresh, ToggleAll, Cancel, ConfirmKey, ConfirmLimits, ConfirmUsage, ClosePlain,
             ToggleSelected, SetEnabled, ResetRPM, SetPlan, BatchSetEnabled, Ask, Confirmed, dialog,
             Uncovered, Listed
    <2> QED
      BY <1>2, <2>1 DEF PlainInv, PlainAlone, NothingPending
  <1> QED
    BY <1>1, <1>2, <1>3, PlainFromOld DEF PlainInv

LEMMA PlainAnswer ==
    ASSUME PlainInv, NEW n \in DOMAIN calls, Answer(n)
    PROVE  PlainInv'
  <1>1. Inv /\ Inv'
    BY InvStep DEF PlainInv, Next
  <1>2. /\ FromOld /\ UNCHANGED <<server, undone>>
        /\ plain' = plain \/ Rotated(n) \/ (SessionEnds(n) /\ plain' = NoRows)
    BY <1>1, AnswerFromOld
  <1>3. PlainAlone'
    <2>1. \/ plain' = plain /\ (UNCHANGED pending \/ pending' = NothingPending)
          \/ pending' = NothingPending
      BY DEF Answer, Loaded, Reloaded, BatchAnswered, RowAnswered, Rotated, Deleted, RPMReset,
             UsageReset, ActionFails, RPMFails, SessionEnds, DialogCloses, dialog
    <2> QED
      BY <2>1 DEF PlainInv, PlainAlone, NothingPending
  <1>4. PlainInForce'
    <2>1. CASE plain' \in {plain, NoRows}
      BY <1>2, <2>1, PlainFromOld
    <2>2. CASE Rotated(n)
      <3>1. plain' = calls[n].rows /\ calls[n].op = "rotate"
        BY <2>2 DEF Rotated, Succeeded, Answered
      <3> QED
        BY <1>2, <3>1 DEF PlainInv, RotatedInForce, PlainInForce
    <2> QED
      BY <1>2, <2>1, <2>2
  <1> QED
    BY <1>1, <1>2, <1>3, <1>4, PlainFromOld DEF PlainInv

LEMMA UpdateKeepsSecret ==
    \A c \in Calls, row \in Rows : c.op # "rotate" => Updated(c, row).secret = row.secret
  BY DEF Calls, Rows, Updated

\* No secret changes but those that a PATCH has put back.
SecretsStay ==
    \A i \in DOMAIN server' \ undone' :
        /\ i \in DOMAIN server /\ i \notin undone
        /\ server'[i].secret = server[i].secret

\* A PATCH puts back the secret that it has read, and no other.
LEMMA WrittenSecret ==
    ASSUME NEW c \in Calls, NEW i \in DOMAIN c.read, server \in RowSets, WritesBack(c, i)
    PROVE  SecretsStay
  <1>1. c.read[i] \in Rows /\ c.op # "rotate"
    BY DEF Calls, RowSets, Patching
  <1>2. PICK old \in Rows : old = c.read[i]
    BY <1>1
  <1>3. Updated(c, old).secret = old.secret
    BY <1>1, UpdateKeepsSecret
  <1>4. PICK row : row = Updated(c, old)
    OBVIOUS
  <1>5. row \in [enabled : BOOLEAN, plan : Plans \cup {NoPlan}, limited : BOOLEAN, used : BOOLEAN,
                 secret : Nat]
    <2>1. c.op \in Patching /\ c.enabled \in BOOLEAN
      BY DEF Calls
    <2> QED
      BY <1>2, <1>4, <2>1 DEF Updated, Rows, Patching
  <1>6. PICK used : used = (i \in DOMAIN server /\ server[i].used)
    OBVIOUS
  <1>7. Written(c, i) = [row EXCEPT !.used = used]
    BY <1>2, <1>4, <1>6 DEF Written
  <1>8. Written(c, i).secret = old.secret
    BY <1>3, <1>4, <1>5, <1>7
  <1>9. /\ DOMAIN server' = DOMAIN server \cup {i}
        /\ \A j \in DOMAIN server' : server'[j] = IF j = i THEN Written(c, i) ELSE server[j]
    BY DEF WritesBack, With
  <1>10. undone' = IF i \in DOMAIN server /\ server[i].secret = old.secret THEN undone ELSE undone \cup {i}
    BY <1>2 DEF WritesBack
  <1> QED
    BY <1>8, <1>9, <1>10 DEF SecretsStay

LEMMA PlainServer ==
    ASSUME PlainInv, NEW n \in DOMAIN calls, Server(n)
    PROVE  PlainInv'
  <1>1. Inv /\ Inv' /\ calls \in Seq(Calls) /\ server \in RowSets
    BY InvStep DEF PlainInv, Next, Inv, Typed
  <1>2. plain' = plain /\ pending' = pending
    BY DEF Server, ServeReset, ServeList, ServeKey, ServeRPM, PatchReads, PatchWrites, Rereads,
           ServeDelete, Refuse, Lose, page, dialog
  <1>3. PlainAlone'
    BY <1>2 DEF PlainInv, PlainAlone
  <1>4. \A i \in DOMAIN server : server[i] \in Rows
    BY <1>1 DEF RowSets
  <1>5. \A m \in DOMAIN calls : calls[m].op = "rotate" /\ calls[n].op = "rotate" => m = n
    BY <1>1 DEF Inv, ConfirmedRunsAlone, Confirmables
  <1>6. PICK c \in Calls : c = calls[n]
    BY <1>1
  <1>7. /\ \A i, rows : Served(c, i, rows).rows = rows /\ Served(c, i, rows).op = c.op
        /\ \A i : Failed(c, i).rows = Without(c.rows, i) /\ Failed(c, i).op = c.op
    BY DEF Calls, Served, Failed
  \* No secret changes but by a rotation, and its answer tells it.
  <1>8. ASSUME NEW d, calls' = [calls EXCEPT ![n] = d], d.op = c.op, SecretsStay,
               c.op = "rotate" =>
                   \A i \in DOMAIN d.rows : i \in DOMAIN c.rows /\ d.rows[i] = c.rows[i]
        PROVE  PlainInv'
    <2>1. /\ DOMAIN calls' = DOMAIN calls /\ calls'[n] = d
          /\ \A m \in DOMAIN calls \ {n} : calls'[m] = calls[m]
      BY <1>1, <1>8
    <2>2. RotatedInForce'
      BY <1>6, <1>8, <2>1 DEF PlainInv, RotatedInForce, SecretsStay
    <2>3. PlainInForce'
      BY <1>2, <1>8 DEF PlainInv, PlainInForce, SecretsStay
    <2> QED
      BY <1>1, <1>3, <2>2, <2>3 DEF PlainInv
  <1>9. ASSUME NEW i, NEW rows, Serves(n, i, rows), c.op # "rotate", SecretsStay
        PROVE  PlainInv'
    <2>1. PICK d : d = Served(c, i, rows)
      OBVIOUS
    <2>2. calls' = [calls EXCEPT ![n] = d] /\ d.op = c.op
      BY <1>1, <1>6, <1>7, <1>9, <2>1 DEF Serves
    <2> QED
      BY <1>8, <1>9, <2>2
  <1>10. UNCHANGED <<server, undone>> => SecretsStay
    BY DEF SecretsStay
  <1>11. ASSUME NEW i \in Ids, ServeKey(n, i)
         PROVE  PlainInv'
    <2>1. PICK row : row = Updated(c, server[i])
      OBVIOUS
    <2>2. PICK rows : rows = With(c.rows, i, row)
      OBVIOUS
    <2>3. PICK d : d = Served(c, i, rows)
      OBVIOUS
    <2>4. /\ i \in DOMAIN server /\ server' = [server EXCEPT ![i] = row] /\ Serves(n, i, rows)
          /\ calls' = [calls EXCEPT ![n] = d] /\ d.rows = rows /\ d.op = c.op
      BY <1>1, <1>6, <1>7, <1>11, <2>1, <2>2, <2>3 DEF ServeKey, Serves
    <2>5. PICK D \in SUBSET Ids : server \in [D -> Rows]
      BY <1>1 DEF RowSets
    <2>6. DOMAIN server' = DOMAIN server /\ server'[i] = row
          /\ \A j \in DOMAIN server \ {i} : server'[j] = server[j]
      BY <2>4, <2>5
    <2>7. CASE c.op = "rotate"
      <3>1. plain = NoRows
        BY <1>6, <2>7, NoRotation
      <3>2. PlainInForce'
        BY <1>2, <3>1 DEF PlainInForce, NoRows
      <3>3. \A j \in DOMAIN rows : IF j = i THEN rows[j] = row
                                   ELSE j \in DOMAIN c.rows /\ rows[j] = c.rows[j]
        BY <2>2 DEF With
      <3>4. /\ DOMAIN calls' = DOMAIN calls /\ calls'[n] = d
            /\ \A m \in DOMAIN calls \ {n} : calls'[m] = calls[m]
        BY <1>1, <2>4
      <3>5. undone' = undone \ {i}
        BY <1>6, <1>11, <2>7 DEF ServeKey
      <3>6. RotatedInForce'
        BY <1>5, <1>6, <2>4, <2>6, <2>7, <3>3, <3>4, <3>5 DEF PlainInv, RotatedInForce
      <3> QED
        BY <1>1, <1>3, <3>2, <3>6 DEF PlainInv
    <2>8. CASE c.op # "rotate"
      <3>1. row.secret = server[i].secret
        BY <1>4, <2>1, <2>4, <2>8, UpdateKeepsSecret
      <3>2. undone' = undone
        BY <1>6, <1>11, <2>8 DEF ServeKey
      <3>3. SecretsStay
        BY <2>6, <3>1, <3>2 DEF SecretsStay
      <3> QED
        BY <1>9, <2>4, <2>8, <3>3
    <2> QED
      BY <2>7, <2>8
  <1>12. ASSUME NEW i \in Ids, PatchReads(n, i)
         PROVE  PlainInv'
    <2>1. PICK d : d = [c EXCEPT !.read = With(@, i, server[i])]
      OBVIOUS
    <2>2. d.op = c.op /\ d.rows = c.rows
      BY <2>1 DEF Calls
    <2>3. calls' = [calls EXCEPT ![n] = d] /\ SecretsStay
      BY <1>1, <1>6, <1>10, <1>12, <2>1 DEF PatchReads
    <2> QED
      BY <1>8, <2>2, <2>3
  <1>13. ASSUME NEW i \in Ids, PatchWrites(n, i)
         PROVE  PlainInv'
    <2>1. i \in DOMAIN c.read /\ WritesBack(c, i)
      BY <1>6, <1>13 DEF PatchWrites
    <2>2. SecretsStay
      BY <1>1, <2>1, WrittenSecret
    <2>3. c.op # "rotate"
      BY <2>1 DEF Calls, Patching
    <2> QED
      BY <1>9, <1>13, <2>2, <2>3 DEF PatchWrites
  <1>14. ASSUME NEW i \in Ids, Rereads(n, i) \/ ServeRPM(n, i)
         PROVE  PlainInv'
    <2>1. c.op # "rotate" /\ SecretsStay
      BY <1>6, <1>10, <1>14 DEF Rereads, ServeRPM, Updates
    <2> QED
      BY <1>9, <1>14, <2>1 DEF Rereads, ServeRPM
  <1>15. ASSUME NEW i \in Ids, ServeDelete(n, i)
         PROVE  PlainInv'
    <2>1. \A j \in DOMAIN server' : j \in DOMAIN server /\ server'[j] = server[j]
      BY <1>15 DEF ServeDelete, Without, Restrict
    <2>2. SecretsStay /\ c.op # "rotate"
      BY <1>6, <1>15, <2>1 DEF ServeDelete, SecretsStay
    <2> QED
      BY <1>9, <1>15, <2>2 DEF ServeDelete
  <1>16. CASE ServeReset(n)
    <2>1. \A j \in DOMAIN server' : j \in DOMAIN server /\ server'[j].secret = server[j].secret
      BY <1>4, <1>16 DEF ServeReset, Rows
    <2>2. SecretsStay /\ c.op # "rotate"
      BY <1>6, <1>16, <2>1 DEF ServeReset, SecretsStay
    <2> QED
      BY <1>9, <1>16, <2>2 DEF ServeReset
  <1>17. CASE ServeList(n)
    <2>1. SecretsStay /\ c.op # "rotate"
      BY <1>6, <1>10, <1>17 DEF ServeList, Loads
    <2> QED
      BY <1>9, <1>17, <2>1 DEF ServeList
  <1>18. ASSUME NEW i, Refuse(n, i) \/ Lose(n, i)
         PROVE  PlainInv'
    <2>1. PICK d : d = Failed(c, i)
      OBVIOUS
    <2>2. d.op = c.op /\ d.rows = Without(c.rows, i)
      BY <1>7, <2>1
    <2>3. \A j \in DOMAIN d.rows : j \in DOMAIN c.rows /\ d.rows[j] = c.rows[j]
      BY <2>2 DEF Without, Restrict
    <2>4. calls' = [calls EXCEPT ![n] = d] /\ SecretsStay
      BY <1>1, <1>6, <1>10, <1>18, <2>1 DEF Refuse, Lose
    <2> QED
      BY <1>8, <2>2, <2>3, <2>4
  <1> QED
    BY <1>11, <1>12, <1>13, <1>14, <1>15, <1>16, <1>17, <1>18 DEF Server

LEMMA PlainStray ==
    ASSUME PlainInv, NEW m \in DOMAIN strays, StrayWrites(m)
    PROVE  PlainInv'
  <1>1. Inv /\ Inv' /\ strays \in Seq(Calls) /\ server \in RowSets
    BY InvStep DEF PlainInv, Next, Inv, Typed
  <1>2. PICK c \in Calls : c = strays[m]
    BY <1>1
  <1>3. SecretsStay
    BY <1>1, <1>2, WrittenSecret DEF StrayWrites
  <1>4. plain' = plain /\ pending' = pending /\ calls' = calls
    BY DEF StrayWrites, page, dialog
  <1>5. PlainAlone' /\ RotatedInForce' /\ PlainInForce'
    BY <1>3, <1>4 DEF PlainInv, PlainAlone, RotatedInForce, PlainInForce, SecretsStay
  <1> QED
    BY <1>1, <1>5 DEF PlainInv

LEMMA PlainInvHolds == Spec => []PlainInv
  <1>1. Init => PlainInv
    <2> SUFFICES ASSUME Init
                 PROVE  PlainInv
      OBVIOUS
    <2>1. plain = NoRows /\ calls = <<Load>> /\ Load.op = "load"
      BY LoadTyped DEF Init
    <2>2. RotatedInForce
      BY <2>1 DEF RotatedInForce
    <2>3. PlainInForce
      BY <2>1 DEF PlainInForce, NoRows
    <2> QED
      BY <2>1, <2>2, <2>3, InvInit DEF PlainInv, PlainAlone
  <1>2. PlainInv /\ [Next]_vars => PlainInv'
    <2> SUFFICES ASSUME PlainInv, [Next]_vars
                 PROVE  PlainInv'
      OBVIOUS
    <2>1. CASE UNCHANGED vars
      BY <2>1, InvStep DEF PlainInv, PlainAlone, RotatedInForce, PlainInForce, vars
    <2> QED
      BY <2>1, PlainUser, PlainServer, PlainStray, PlainAnswer DEF Next
  <1> QED
    BY <1>1, <1>2, PTL DEF Spec

\* The plain key that the page shows after a rotation is the key's secret in
\* force for as long as it is shown, whatever is answered or done meanwhile:
\* the page lets no second rotation begin.  A PATCH that had read the key before
\* the rotation and writes it back afterwards is what can still make it void.
THEOREM ShownKeyWorks == Spec => []PlainInForce
  <1>1. PlainInv => PlainInForce
    BY DEF PlainInv
  <1> QED
    BY <1>1, PlainInvHolds, PTL

\* Nothing but the user or the end of the session takes the plain key away,
\* which is shown once only.
THEOREM ShownUntilClosed == Spec => PlainKept
  <1>1. ASSUME PlainInv, [Next]_vars, plain # NoRows
        PROVE  \/ plain' = plain
               \/ plain' = NoRows /\ UNCHANGED calls
               \/ plain' = NoRows /\ ~mounted'
    <2>1. \A n \in DOMAIN calls : ~Rotated(n)
      BY <1>1, NoRotation DEF Rotated, Succeeded, Answered
    <2>2. ASSUME NEW n \in DOMAIN calls, Server(n)
          PROVE  plain' = plain
      BY <2>2 DEF Server, ServeReset, ServeList, ServeKey, ServeRPM, PatchReads, PatchWrites, Rereads,
         ServeDelete, Refuse, Lose, page
    <2>3. ASSUME NEW m \in DOMAIN strays, StrayWrites(m)
          PROVE  plain' = plain
      BY <2>3 DEF StrayWrites, page
    <2>4. ASSUME NEW n \in DOMAIN calls, Answer(n)
          PROVE  plain' = plain \/ (plain' = NoRows /\ ~mounted')
      BY <2>1, <2>4, <1>1, AnswerFromOld DEF PlainInv, SessionEnds
    <2>5. CASE User
      BY <1>1, <2>5 DEF User, Refresh, ToggleAll, Cancel, ConfirmKey, ConfirmLimits, ConfirmUsage,
         ClosePlain, ToggleSelected, SetEnabled, ResetRPM, SetPlan, BatchSetEnabled, Ask, Update
    <2>6. CASE UNCHANGED vars
      BY <2>6 DEF vars
    <2> QED
      BY <1>1, <2>2, <2>3, <2>4, <2>5, <2>6 DEF Next
  <1>2. PlainInv /\ [Next]_vars =>
            [plain # NoRows => \/ plain' = plain
                               \/ plain' = NoRows /\ UNCHANGED calls
                               \/ plain' = NoRows /\ ~mounted']_vars
    BY <1>1
  <1> QED
    BY <1>2, PlainInvHolds, PTL DEF Spec, PlainKept

--------------------------------------------------------------------------------
(* The list at rest.  A sequence of calls cs, rows srv on the server and     *)
(* rows ks listed stand for what they are before and after a step.           *)

\* What a call of each kind is about.
IdsOf(op) ==
    CASE op \in {"load", "reload", "resetUsage"} -> {{NoId}}
      [] op = "batch" -> SUBSET Ids
      [] OTHER -> {{i} : i \in Ids}

\* An update answers the rows of the keys it has been served for.
WellFormed(c) == c.ids \in IdsOf(c.op) /\ (c.op \in Updates => DOMAIN c.rows = c.done)

WellFormedCalls == \A n \in DOMAIN calls : WellFormed(calls[n])

NoneMeet(cs) == \A n, m \in DOMAIN cs : n # m => ~Meet(cs[n], cs[m])

\* A list that has been read is what the server still has; a key was refused
\* because it is gone; the row that an update will be answered is listed and
\* still what the server has; and a key read for a PATCH is still there.
Current(c, srv, ks) ==
    /\ Loads(c) /\ NoId \in c.done => c.rows = srv
    /\ Loads(c) \/ Writes(c) => c.failed \subseteq Ids \ DOMAIN srv
    /\ c.op \in Updates =>
         \A i \in c.done : i \in DOMAIN ks \cap DOMAIN srv /\ c.rows[i] = srv[i]
    /\ DOMAIN c.read \subseteq DOMAIN srv

Clear(cs, srv, ks) == NoneMeet(cs) /\ \A n \in DOMAIN cs : Current(cs[n], srv, ks)

SameRow(i, srv, ks) ==
    /\ i \in DOMAIN ks <=> i \in DOMAIN srv
    /\ i \in DOMAIN ks => ks[i] = srv[i]

\* The call has changed key i on the server, and the page has yet to hear.
Changed(c, i) ==
    /\ Writes(c)
    /\ i \in c.done \/ (c.op = "resetUsage" /\ NoId \in c.done)

\* Unless the list is being read, it differs from the server's where a call
\* under way has changed a key, and nowhere else.
Explained(cs, srv, ks) ==
    (\A n \in DOMAIN cs : ~Loads(cs[n])) =>
        \A i \in Ids : SameRow(i, srv, ks) \/ \E n \in DOMAIN cs : Changed(cs[n], i)

Settling == ~raced => Clear(calls, server, keys) /\ Explained(calls, server, keys)

\* While the server works on a lost PATCH, no list is trusted.
StraysRace == strays # <<>> => raced

RestInv == Inv /\ WellFormedCalls /\ Settling /\ StraysRace

\* A call that has just been made.
Fresh(c) ==
    /\ c \in Calls /\ WellFormed(c) /\ c.op \in Ops
    /\ c.done = {} /\ c.failed = {} /\ DOMAIN c.read = {}

LEMMA FreshCall ==
    \A op, ids, enabled, plan :
        Fits(op, ids, enabled, plan) /\ ids \in IdsOf(op) => Fresh(Call(op, ids, enabled, plan))
  <1> SUFFICES ASSUME NEW op, NEW ids, NEW enabled, NEW plan,
                      Fits(op, ids, enabled, plan), ids \in IdsOf(op)
               PROVE  Fresh(Call(op, ids, enabled, plan))
    OBVIOUS
  <1>1. PICK c : c = Call(op, ids, enabled, plan)
    OBVIOUS
  <1>2. c \in Calls /\ c.op = op /\ c.ids = ids
    BY <1>1, CallNamed
  <1>3. c.done = {} /\ c.failed = {} /\ c.rows = NoRows /\ c.read = NoRows
    BY <1>1 DEF Call
  <1>4. DOMAIN NoRows = {}
    BY DEF NoRows
  <1> QED
    BY <1>1, <1>2, <1>3, <1>4 DEF Fresh, WellFormed, Fits

LEMMA FreshLoads == Fresh(Load) /\ Fresh(Reload) /\ Loads(Load) /\ Loads(Reload)
  <1>1. \A op \in {"load", "reload"} : Fits(op, {NoId}, FALSE, NoPlan) /\ {NoId} \in IdsOf(op)
    BY DEF Fits, AnyIds, Ops, Updates, IdsOf
  <1>2. Fresh(Load) /\ Fresh(Reload)
    BY <1>1, FreshCall DEF Load, Reload
  <1> QED
    BY <1>2, LoadTyped DEF Loads

\* What is written is of keys, or is the reset of all.
LEMMA IdsKnown ==
    ASSUME NEW c \in Calls, WellFormed(c)
    PROVE  /\ Loads(c) \/ c.op = "resetUsage" => c.ids = {NoId}
           /\ ~Loads(c) /\ c.op # "resetUsage" => c.ids \subseteq Ids
           /\ ~Loads(c) /\ c.op \notin {"resetUsage", "batch"} => \E i \in Ids : c.ids = {i}
  BY DEF WellFormed, IdsOf, Loads

--------------------------------------------------------------------------------
(* A call is made.                                                           *)

LEMMA FreshIsCurrent ==
    ASSUME NEW c, Fresh(c), NEW srv, NEW ks
    PROVE  Current(c, srv, ks)
  BY DEF Fresh, Current

LEMMA MeetBoth ==
    ASSUME NEW c, NEW d
    PROVE  Meet(c, d) <=> Meet(d, c)
  BY DEF Meet

\* Without meeting another, a call may be made beside others, or alone.
LEMMA MadeClear ==
    ASSUME NEW cs \in Seq(Calls), NEW c, Fresh(c), NEW srv, NEW ks,
           Clear(cs, srv, ks) \/ cs = <<>>, \A n \in DOMAIN cs : ~Meet(c, cs[n])
    PROVE  Clear(Append(cs, c), srv, ks)
  <1> DEFINE z == Len(cs)
             new == Append(cs, c)
  <1>1. z \in Nat /\ DOMAIN cs = 1 .. z /\ (cs = <<>> => DOMAIN cs = {})
    OBVIOUS
  <1>2. DOMAIN new = 1 .. z + 1 /\ new[z + 1] = c /\ \A n \in DOMAIN cs : new[n] = cs[n]
    BY Sent DEF Fresh
  <1>3. \A n \in DOMAIN new : n = z + 1 \/ n \in DOMAIN cs
    BY <1>1, <1>2
  <1> HIDE DEF z, new
  <1>4. ASSUME NEW n \in DOMAIN new
        PROVE  Current(new[n], srv, ks)
    <2>1. CASE n = z + 1
      BY <1>2, <2>1, FreshIsCurrent
    <2>2. CASE n \in DOMAIN cs
      BY <1>1, <1>2, <2>2 DEF Clear
    <2> QED
      BY <1>3, <2>1, <2>2
  <1>5. ASSUME NEW n \in DOMAIN new, NEW m \in DOMAIN new, n # m
        PROVE  ~Meet(new[n], new[m])
    <2>1. CASE n \in DOMAIN cs /\ m \in DOMAIN cs
      BY <1>1, <1>2, <1>5, <2>1 DEF Clear, NoneMeet
    <2>2. CASE n = z + 1 /\ m \in DOMAIN cs
      BY <1>2, <2>2
    <2>3. CASE n \in DOMAIN cs /\ m = z + 1
      BY <1>2, <2>3, MeetBoth
    <2> QED
      BY <1>3, <1>5, <2>1, <2>2, <2>3
  <1> QED
    BY <1>4, <1>5 DEF Clear, NoneMeet, new

\* The others are as current without a call that is over.
LEMMA LeftClear ==
    ASSUME NEW n \in DOMAIN calls, NEW rest, Left(rest, n), NEW srv, NEW ks,
           Clear(calls, srv, ks)
    PROVE  Clear(rest, srv, ks)
  <1>1. ASSUME NEW k \in DOMAIN rest
        PROVE  Current(rest[k], srv, ks)
    BY DEF Left, Clear
  <1>2. ASSUME NEW k \in DOMAIN rest, NEW l \in DOMAIN rest, k # l
        PROVE  ~Meet(rest[k], rest[l])
    <2>1. PICK m \in DOMAIN calls, p \in DOMAIN calls :
              m # p /\ rest[k] = calls[m] /\ rest[l] = calls[p]
      BY <1>2 DEF Left
    <2> QED
      BY <2>1 DEF Clear, NoneMeet
  <1> QED
    BY <1>1, <1>2 DEF Clear, NoneMeet

LEMMA WellFormedLeft ==
    ASSUME WellFormedCalls, NEW n \in DOMAIN calls, Left(calls', n)
    PROVE  WellFormedCalls'
  BY DEF WellFormedCalls, Left

\* A click that makes a call.
LEMMA SendsSettles ==
    ASSUME RestInv, NEW c, Fresh(c), Sends(c), UNCHANGED <<server, keys>>
    PROVE  WellFormedCalls' /\ Settling'
  <1>1. calls \in Seq(Calls) /\ c \in Calls
    BY DEF RestInv, Inv, Typed, Fresh
  <1>2. calls' = Append(calls, c) /\ raced' = RacedBy(c, calls)
    BY DEF Sends
  <1>3. PICK k \in DOMAIN calls' :
            /\ calls'[k] = c
            /\ \A m \in DOMAIN calls' \ {k} : m \in DOMAIN calls
    BY <1>1, SendsEffect
  <1>4. \A m \in DOMAIN calls : m \in DOMAIN calls' /\ calls'[m] = calls[m]
    BY <1>1, SendsEffect
  <1>5. WellFormedCalls'
    BY <1>3, <1>4 DEF RestInv, WellFormedCalls, Fresh
  <1>6. ASSUME ~raced'
        PROVE  Clear(calls', server, keys) /\ Explained(calls', server, keys)
    <2>1. \A n \in DOMAIN calls : ~Meet(c, calls[n])
      BY <1>2, <1>6 DEF RacedBy
    <2>2. ~raced \/ (Loads(c) /\ calls = <<>>)
      BY <1>2, <1>6 DEF RacedBy
    <2>3. Clear(calls', server, keys)
      BY <1>1, <1>2, <2>1, <2>2, MadeClear DEF RestInv, Settling
    <2>4. Explained(calls', server, keys)
      <3>1. CASE Loads(c)
        BY <1>3, <3>1 DEF Explained
      <3>2. CASE ~Loads(c)
        <4>1. Explained(calls, server, keys)
          BY <2>2, <3>2 DEF RestInv, Settling
        <4> QED
          BY <1>3, <1>4, <4>1 DEF Explained
      <3> QED
        BY <3>1, <3>2
    <2> QED
      BY <2>3, <2>4
  <1> QED
    BY <1>5, <1>6 DEF Settling

\* An answer after which the list is read: nothing need be explained, and if
\* nothing else is under way, whatever happened before is forgotten.
LEMMA SendsAfterSettles ==
    ASSUME RestInv, NEW n \in DOMAIN calls, NEW c \in {Load, Reload}, SendsAfter(n, c),
           UNCHANGED <<server, keys>>
    PROVE  WellFormedCalls' /\ Settling'
  <1>1. calls \in Seq(Calls) /\ Fresh(c) /\ c \in Calls /\ Loads(c)
    BY FreshLoads DEF RestInv, Inv, Typed, Fresh
  <1>2. PICK rest : rest = RemoveAt(calls, n)
    OBVIOUS
  <1>3. Left(rest, n) /\ rest \in Seq(Calls)
    BY <1>1, <1>2, LeftOver DEF Left
  <1>4. calls' = Append(rest, c) /\ raced' = RacedBy(c, rest)
    BY <1>2 DEF SendsAfter
  <1>5. PICK k \in DOMAIN calls' :
            /\ calls'[k] = c
            /\ \A l \in DOMAIN calls' \ {k} : \E m \in DOMAIN calls \ {n} : calls'[l] = calls[m]
    BY <1>1, SendsAfterEffect
  <1>6. WellFormedCalls'
    BY <1>1, <1>5 DEF RestInv, WellFormedCalls, Fresh
  <1>7. ASSUME ~raced'
        PROVE  Clear(calls', server, keys) /\ Explained(calls', server, keys)
    <2>1. \A m \in DOMAIN rest : ~Meet(c, rest[m])
      BY <1>4, <1>7 DEF RacedBy
    <2>2. ~raced \/ rest = <<>>
      BY <1>4, <1>7 DEF RacedBy
    <2>3. Clear(rest, server, keys) \/ rest = <<>>
      BY <1>3, <2>2, LeftClear DEF RestInv, Settling
    <2>4. Clear(calls', server, keys)
      BY <1>1, <1>3, <1>4, <2>1, <2>3, MadeClear
    <2>5. Explained(calls', server, keys)
      BY <1>1, <1>5 DEF Explained
    <2> QED
      BY <2>4, <2>5
  <1> QED
    BY <1>6, <1>7 DEF Settling

--------------------------------------------------------------------------------
(* A call is served.                                                         *)

\* What it is about, and so what it meets, stays.
LEMMA MeetsStay ==
    ASSUME calls \in Seq(Calls), NEW n \in DOMAIN calls, NEW d,
           d.op = calls[n].op, d.ids = calls[n].ids, calls' = [calls EXCEPT ![n] = d],
           NoneMeet(calls)
    PROVE  NoneMeet(calls')
  <1>1. DOMAIN calls' = DOMAIN calls
    OBVIOUS
  <1>2. \A m \in DOMAIN calls : calls'[m].op = calls[m].op /\ calls'[m].ids = calls[m].ids
    OBVIOUS
  <1> QED
    BY <1>1, <1>2 DEF NoneMeet, Meet, Loads, Writes

\* Serving call n keeps the list settled if the call itself and the others
\* are as current on the new rows, and what differs then is explained.
LEMMA ServedSettles ==
    ASSUME RestInv, NEW n \in DOMAIN calls, NEW d, d.op = calls[n].op, d.ids = calls[n].ids,
           calls' = [calls EXCEPT ![n] = d], UNCHANGED keys, d.op \in Updates => DOMAIN d.rows = d.done,
           ~raced' =>
               /\ ~raced
               /\ Current(d, server', keys)
               /\ \A m \in DOMAIN calls \ {n} : Current(calls[m], server', keys)
               /\ (\A m \in DOMAIN calls : ~Loads(calls[m])) =>
                    \A i \in Ids : \/ SameRow(i, server', keys)
                                   \/ Changed(d, i)
                                   \/ \E m \in DOMAIN calls \ {n} : Changed(calls[m], i)
    PROVE  WellFormedCalls' /\ Settling'
  <1>1. calls \in Seq(Calls)
    BY DEF RestInv, Inv, Typed
  <1>2. /\ DOMAIN calls' = DOMAIN calls /\ calls'[n] = d
        /\ \A m \in DOMAIN calls \ {n} : calls'[m] = calls[m]
    BY <1>1
  <1>3. WellFormedCalls'
    BY <1>2 DEF RestInv, WellFormedCalls, WellFormed
  <1>4. ASSUME ~raced'
        PROVE  Clear(calls', server', keys') /\ Explained(calls', server', keys')
    <2>1. NoneMeet(calls')
      BY <1>1, <1>4, MeetsStay DEF RestInv, Settling, Clear
    <2>2. \A m \in DOMAIN calls' : Current(calls'[m], server', keys')
      BY <1>2, <1>4
    <2>3. Loads(d) <=> Loads(calls[n])
      BY DEF Loads
    <2>4. Explained(calls', server', keys')
      BY <1>2, <1>4, <2>3 DEF Explained
    <2> QED
      BY <2>1, <2>2, <2>4 DEF Clear
  <1> QED
    BY <1>3, <1>4 DEF Settling

\* No list is read while a call writes, and no other call writes its keys.
LEMMA WritesApart ==
    ASSUME RestInv, ~raced, NEW n \in DOMAIN calls, Writes(calls[n])
    PROVE  /\ \A m \in DOMAIN calls : ~Loads(calls[m])
           /\ \A m \in DOMAIN calls \ {n} : Writes(calls[m]) =>
                 /\ calls[m].ids \cap calls[n].ids = {}
                 /\ calls[m].op # "resetUsage" /\ calls[n].op # "resetUsage"
  <1>1. NoneMeet(calls)
    BY DEF RestInv, Settling, Clear
  <1>2. \A m \in DOMAIN calls \ {n} : ~Meet(calls[m], calls[n])
    BY <1>1 DEF NoneMeet
  <1>3. ~Loads(calls[n])
    BY DEF Loads, Writes, Updates
  <1> QED
    BY <1>2, <1>3 DEF Meet

\* A call that reads or writes no key changes nothing for the list.
LEMMA OthersServed ==
    ASSUME RestInv, NEW n \in DOMAIN calls, NEW d, d.op = calls[n].op, d.ids = calls[n].ids,
           calls' = [calls EXCEPT ![n] = d], UNCHANGED <<keys, server, raced>>,
           ~Loads(d) /\ ~Writes(d), DOMAIN d.read = {}
    PROVE  WellFormedCalls' /\ Settling'
  <1>1. d.op \notin Updates
    BY DEF Writes
  <1>2. Current(d, server', keys)
    BY <1>1 DEF Current
  <1>3. ASSUME ~raced
        PROVE  /\ \A m \in DOMAIN calls \ {n} : Current(calls[m], server', keys)
               /\ (\A m \in DOMAIN calls : ~Loads(calls[m])) =>
                    \A i \in Ids : \/ SameRow(i, server', keys)
                                   \/ Changed(d, i)
                                   \/ \E m \in DOMAIN calls \ {n} : Changed(calls[m], i)
    <2>1. Clear(calls, server, keys) /\ Explained(calls, server, keys)
      BY <1>3 DEF RestInv, Settling
    <2>2. ~Writes(calls[n])
      BY DEF Writes
    <2>3. \A i \in Ids : ~Changed(calls[n], i)
      BY <2>2 DEF Changed
    <2> QED
      BY <2>1, <2>3 DEF Clear, Explained
  <1> QED
    BY <1>1, <1>2, <1>3, ServedSettles

\* The key i that call n is served for is as listed until then.
LEMMA KeyAsListed ==
    ASSUME RestInv, ~raced, NEW n \in DOMAIN calls, Writes(calls[n]), NEW i \in Ids,
           i \in Unanswered(calls[n])
    PROVE  SameRow(i, server, keys)
  <1>1. calls[n] \in Calls /\ \A m \in DOMAIN calls : calls[m] \in Calls
    BY DEF RestInv, Inv, Typed
  <1>2. \A m \in DOMAIN calls : calls[m].done \subseteq calls[m].ids
    BY <1>1 DEF Calls
  <1>3. calls[n].op # "resetUsage"
    <2>1. WellFormed(calls[n]) /\ i \in calls[n].ids
      BY DEF RestInv, WellFormedCalls, Unanswered
    <2> QED
      BY <1>1, <2>1, IdsKnown, NamesAssumption
  <1>4. ASSUME NEW m \in DOMAIN calls, Changed(calls[m], i)
        PROVE  FALSE
    <2>1. m # n
      BY <1>3, <1>4 DEF Changed, Unanswered
    <2>2. i \notin calls[m].ids /\ calls[m].op # "resetUsage"
      BY <1>4, <2>1, WritesApart DEF Changed, Unanswered
    <2> QED
      BY <1>2, <1>4, <2>2 DEF Changed
  <1>5. Explained(calls, server, keys) /\ \A m \in DOMAIN calls : ~Loads(calls[m])
    BY WritesApart DEF RestInv, Settling
  <1> QED
    BY <1>4, <1>5 DEF Explained

\* Serving a write of key i: only that row changes, and the call tells it.
LEMMA KeyServed ==
    ASSUME RestInv, NEW n \in DOMAIN calls, Writes(calls[n]), NEW i \in Ids,
           i \in Unanswered(calls[n]), NEW rows \in RowSets, Serves(n, i, rows),
           UNCHANGED <<keys, raced>>,
           ~raced =>
               /\ DOMAIN server' \subseteq DOMAIN server
               /\ \A j \in DOMAIN server \ {i} : j \in DOMAIN server' /\ server'[j] = server[j]
               /\ calls[n].op \in Updates => i \in DOMAIN server /\ i \in DOMAIN server',
           calls[n].op \in Updates => rows = With(calls[n].rows, i, server'[i])
    PROVE  WellFormedCalls' /\ Settling'
  <1>1. PICK c : c = calls[n]
    OBVIOUS
  <1>2. c \in Calls /\ WellFormed(c) /\ \A m \in DOMAIN calls : calls[m] \in Calls
    BY <1>1 DEF RestInv, Inv, Typed, WellFormedCalls
  <1>3. PICK d : d = Served(c, i, rows)
    OBVIOUS
  <1>4. /\ d.op = c.op /\ d.ids = c.ids /\ d.done = c.done \cup {i} /\ d.failed = c.failed
        /\ d.rows = rows /\ DOMAIN d.read = DOMAIN c.read \ {i}
    BY <1>2, <1>3, RestrictedTyped DEF Served, Calls
  <1>5. calls' = [calls EXCEPT ![n] = d]
    BY <1>1, <1>3 DEF Serves
  <1>6. i \in c.ids /\ i \notin c.done
    BY <1>1 DEF Unanswered
  <1>7. ~Loads(c) /\ Writes(c) /\ (Loads(d) <=> Loads(c)) /\ (Writes(d) <=> Writes(c))
    BY <1>1, <1>4 DEF Loads, Writes, Updates
  <1>8. c.op \in Updates =>
           /\ DOMAIN rows = c.done \cup {i} /\ rows[i] = server'[i]
           /\ \A j \in c.done : rows[j] = c.rows[j]
    BY <1>1, <1>2, <1>6 DEF WellFormed, With
  <1>9. ASSUME ~raced
        PROVE  /\ Current(d, server', keys)
               /\ \A m \in DOMAIN calls \ {n} : Current(calls[m], server', keys)
               /\ \A j \in Ids : \/ SameRow(j, server', keys)
                                 \/ Changed(d, j)
                                 \/ \E m \in DOMAIN calls \ {n} : Changed(calls[m], j)
    <2>1. Clear(calls, server, keys) /\ Explained(calls, server, keys)
      BY <1>9 DEF RestInv, Settling
    <2>2. \A m \in DOMAIN calls : ~Loads(calls[m]) /\ Current(calls[m], server, keys)
      BY <1>9, <2>1, WritesApart DEF Clear
    <2>3. SameRow(i, server, keys)
      BY <1>9, KeyAsListed
    <2>4. Current(d, server', keys)
      <3>1. c.failed \subseteq Ids \ DOMAIN server'
        BY <1>1, <1>7, <1>9, <2>2 DEF Current
      <3>3. DOMAIN d.read \subseteq DOMAIN server'
        BY <1>1, <1>4, <1>9, <2>2 DEF Current
      <3>2. ASSUME c.op \in Updates, NEW j \in c.done \cup {i}
            PROVE  j \in DOMAIN keys \cap DOMAIN server' /\ rows[j] = server'[j]
        <4>1. CASE j = i
          BY <1>1, <1>8, <1>9, <2>3, <3>2, <4>1 DEF SameRow
        <4>2. CASE j # i
          <5>1. j \in DOMAIN keys \cap DOMAIN server /\ c.rows[j] = server[j]
            BY <1>1, <2>2, <3>2, <4>2 DEF Current
          <5> QED
            BY <1>8, <1>9, <3>2, <4>2, <5>1
        <4> QED
          BY <4>1, <4>2
      <3> QED
        BY <1>4, <1>7, <3>1, <3>2, <3>3 DEF Current
    <2>5. ASSUME NEW m \in DOMAIN calls \ {n}
          PROVE  Current(calls[m], server', keys)
      <3>1. calls[m].failed \subseteq Ids \ DOMAIN server \/ ~Writes(calls[m])
        BY <2>2 DEF Current
      <3>2. ASSUME calls[m].op \in Updates, NEW j \in calls[m].done
            PROVE  j \in DOMAIN keys \cap DOMAIN server' /\ calls[m].rows[j] = server'[j]
        <4>1. j \in calls[m].ids
          BY <1>2, <3>2 DEF Calls
        <4>2. j # i
          BY <1>1, <1>6, <1>9, <3>2, <4>1, WritesApart DEF Writes
        <4>3. j \in DOMAIN keys \cap DOMAIN server /\ calls[m].rows[j] = server[j]
          BY <2>2, <3>2 DEF Current
        <4> QED
          BY <1>9, <4>2, <4>3
      <3>3. ASSUME NEW j \in DOMAIN calls[m].read
            PROVE  j \in DOMAIN server'
        <4>1. j \in calls[m].ids /\ Writes(calls[m]) /\ j \in DOMAIN server
          BY <1>2, <2>2 DEF Calls, Unanswered, Current, Patching, Writes, Updates
        <4>2. j # i
          BY <1>1, <1>6, <1>9, <4>1, WritesApart
        <4> QED
          BY <1>9, <4>1, <4>2
      <3>4. DOMAIN server' \subseteq DOMAIN server
        BY <1>9
      <3> QED
        BY <2>2, <3>1, <3>2, <3>3, <3>4 DEF Current
    <2>6. ASSUME NEW j \in Ids
          PROVE  \/ SameRow(j, server', keys)
                 \/ Changed(d, j)
                 \/ \E m \in DOMAIN calls \ {n} : Changed(calls[m], j)
      <3>1. CASE j = i
        BY <1>4, <1>7, <3>1 DEF Changed
      <3>2. CASE j # i
        <4>1. SameRow(j, server, keys) => SameRow(j, server', keys)
          BY <1>9, <3>2 DEF SameRow
        <4>2. Changed(c, j) => Changed(d, j)
          BY <1>4, <1>7 DEF Changed
        <4>3. SameRow(j, server, keys) \/ \E m \in DOMAIN calls : Changed(calls[m], j)
          BY <2>1, <2>2 DEF Explained
        <4> QED
          BY <1>1, <4>1, <4>2, <4>3
      <3> QED
        BY <3>1, <3>2
    <2> QED
      BY <2>4, <2>5, <2>6
  <1>10. d.op = calls[n].op /\ d.ids = calls[n].ids
    BY <1>1, <1>4
  <1>11. d.op \in Updates => DOMAIN d.rows = d.done
    BY <1>4, <1>8
  <1> QED
    BY <1>5, <1>9, <1>10, <1>11, ServedSettles

\* Serving the reset of usage: no other call writes, so what it changed is
\* explained by it.
LEMMA ResetServed ==
    ASSUME RestInv, NEW n \in DOMAIN calls, ServeReset(n)
    PROVE  WellFormedCalls' /\ Settling'
  <1>1. PICK c : c = calls[n]
    OBVIOUS
  <1>2. c \in Calls /\ calls[n].op = "resetUsage" /\ Writes(calls[n])
    BY <1>1 DEF RestInv, Inv, Typed, ServeReset, Writes
  <1>3. PICK d : d = Served(c, NoId, NoRows)
    OBVIOUS
  <1>4. /\ d.op = c.op /\ d.ids = c.ids /\ d.done = c.done \cup {NoId} /\ d.failed = c.failed
        /\ DOMAIN d.read \subseteq DOMAIN c.read
    BY <1>2, <1>3, RestrictedTyped DEF Served, Calls
  <1>5. calls' = [calls EXCEPT ![n] = d] /\ UNCHANGED <<keys, raced>>
    BY <1>1, <1>3 DEF ServeReset, Serves, page
  <1>6. DOMAIN server' = DOMAIN server
    BY DEF ServeReset
  <1>7. "resetUsage" \notin Updates
    BY DEF Updates
  <1>8. ASSUME ~raced
        PROVE  /\ Current(d, server', keys)
               /\ \A m \in DOMAIN calls \ {n} : Current(calls[m], server', keys)
               /\ \A j \in Ids : Changed(d, j)
    <2>1. \A m \in DOMAIN calls : ~Loads(calls[m]) /\ Current(calls[m], server, keys)
      BY <1>2, <1>8, WritesApart DEF RestInv, Settling, Clear
    <2>2. \A m \in DOMAIN calls \ {n} : ~Writes(calls[m])
      BY <1>2, <1>8, WritesApart
    <2>3. Current(d, server', keys)
      BY <1>1, <1>2, <1>4, <1>6, <1>7, <2>1 DEF Current, Loads, Writes
    <2>4. \A m \in DOMAIN calls \ {n} : Current(calls[m], server', keys)
      BY <1>6, <2>1, <2>2 DEF Current, Writes
    <2>5. \A j \in Ids : Changed(d, j)
      BY <1>1, <1>2, <1>4 DEF Changed, Writes
    <2> QED
      BY <2>3, <2>4, <2>5
  <1> QED
    BY <1>1, <1>2, <1>4, <1>5, <1>7, <1>8, ServedSettles

LEMMA ListServed ==
    ASSUME RestInv, NEW n \in DOMAIN calls, ServeList(n)
    PROVE  WellFormedCalls' /\ Settling'
  <1>1. PICK c : c = calls[n]
    OBVIOUS
  <1>2. c \in Calls /\ Loads(c) /\ UNCHANGED <<keys, server, raced>>
    BY <1>1 DEF RestInv, Inv, Typed, ServeList, page
  <1>3. PICK d : d = Served(c, NoId, server)
    OBVIOUS
  <1>4. /\ d.op = c.op /\ d.ids = c.ids /\ d.failed = c.failed /\ d.rows = server
        /\ DOMAIN d.read \subseteq DOMAIN c.read
    BY <1>2, <1>3, RestrictedTyped DEF Served, Calls
  <1>5. calls' = [calls EXCEPT ![n] = d]
    BY <1>1, <1>3 DEF ServeList, Serves
  <1>6. d.op \notin Updates /\ Loads(calls[n])
    BY <1>1, <1>2, <1>4 DEF Loads, Updates
  <1>7. ASSUME ~raced
        PROVE  Current(d, server', keys) /\ \A m \in DOMAIN calls : Current(calls[m], server', keys)
    <2>1. \A m \in DOMAIN calls : Current(calls[m], server', keys)
      BY <1>2, <1>7 DEF RestInv, Settling, Clear
    <2>2. Current(d, server', keys)
      BY <1>1, <1>2, <1>4, <1>6, <2>1 DEF Current
    <2> QED
      BY <2>1, <2>2
  <1> QED
    BY <1>1, <1>2, <1>4, <1>5, <1>6, <1>7, ServedSettles

\* A key is refused because it is gone; any other failure is a race.
LEMMA FailureServed ==
    ASSUME RestInv, NEW n \in DOMAIN calls, NEW i \in calls[n].ids,
           calls' = [calls EXCEPT ![n] = Failed(calls[n], i)], UNCHANGED <<keys, server>>,
           \/ /\ raced' = raced /\ i \in Ids \ DOMAIN server
              /\ i \in Unanswered(calls[n]) \/ (i \in calls[n].done /\ calls[n].op \in Updates)
           \/ raced' = (raced \/ Loads(calls[n]) \/ Writes(calls[n]))
    PROVE  WellFormedCalls' /\ Settling'
  <1>1. PICK c : c = calls[n]
    OBVIOUS
  <1>2. c \in Calls /\ WellFormed(c) /\ raced \in BOOLEAN
    BY <1>1 DEF RestInv, Inv, Typed, WellFormedCalls
  <1>3. PICK d : d = Failed(c, i)
    OBVIOUS
  <1>4. /\ d.op = c.op /\ d.ids = c.ids /\ d.done = c.done \ {i} /\ d.failed = c.failed \cup {i}
        /\ d.rows = Without(c.rows, i) /\ DOMAIN d.read \subseteq DOMAIN c.read
    BY <1>2, <1>3, RestrictedTyped DEF Failed, Calls
  <1>5. calls' = [calls EXCEPT ![n] = d] /\ d.op = calls[n].op /\ d.ids = calls[n].ids
    BY <1>1, <1>3, <1>4
  <1>6. \A rows : /\ DOMAIN Without(rows, i) = DOMAIN rows \ {i}
                  /\ \A j \in DOMAIN rows \ {i} : Without(rows, i)[j] = rows[j]
    BY DEF Without, Restrict
  <1>7. d.op \in Updates => DOMAIN d.rows = d.done
    BY <1>2, <1>4, <1>6 DEF WellFormed
  <1>8. CASE ~Loads(c) /\ ~Writes(c) /\ raced' = raced
    <2>1. DOMAIN c.read = {}
      BY <1>2, <1>8 DEF Calls, Writes, Updates, Patching
    <2>2. ~Loads(d) /\ ~Writes(d) /\ DOMAIN d.read = {}
      BY <1>4, <1>8, <2>1 DEF Loads, Writes
    <2> QED
      BY <1>5, <1>8, <2>2, OthersServed
  <1>9. CASE raced'
    BY <1>5, <1>7, <1>9, ServedSettles
  <1>10. CASE /\ raced' = raced /\ i \in Ids \ DOMAIN server /\ ~raced
              /\ i \in Unanswered(c) \/ (i \in c.done /\ c.op \in Updates)
    <2>3. Clear(calls, server, keys) /\ Explained(calls, server, keys)
      BY <1>10 DEF RestInv, Settling
    <2>4. \A m \in DOMAIN calls : Current(calls[m], server', keys)
      BY <2>3 DEF Clear
    <2>1. i \notin c.done /\ i # NoId /\ i \in c.ids
      <3>1. ~(i \in c.done /\ c.op \in Updates)
        BY <1>1, <1>10, <2>4 DEF Current
      <3> QED
        BY <1>1, <1>10, <3>1, NamesAssumption DEF Unanswered
    <2>2. ~Loads(c)
      BY <1>2, <2>1, IdsKnown
    <2>5. Current(d, server', keys)
      <3>1. Loads(d) \/ Writes(d) => d.failed \subseteq Ids \ DOMAIN server'
        BY <1>1, <1>4, <1>10, <2>4 DEF Current, Loads, Writes
      <3>2. d.op \in Updates =>
                \A j \in d.done : j \in DOMAIN keys \cap DOMAIN server' /\ d.rows[j] = server'[j]
        BY <1>1, <1>2, <1>4, <1>6, <2>4 DEF Current, WellFormed
      <3>3. ~Loads(d) /\ DOMAIN d.read \subseteq DOMAIN server'
        BY <1>1, <1>4, <2>2, <2>4 DEF Loads, Current
      <3> QED
        BY <3>1, <3>2, <3>3 DEF Current
    <2>6. \A j \in Ids : Changed(c, j) => Changed(d, j)
      BY <1>4, <2>1 DEF Changed, Writes
    <2>7. (\A m \in DOMAIN calls : ~Loads(calls[m])) =>
              \A j \in Ids : \/ SameRow(j, server', keys)
                             \/ Changed(d, j)
                             \/ \E m \in DOMAIN calls \ {n} : Changed(calls[m], j)
      BY <1>1, <2>3, <2>6 DEF Explained
    <2> QED
      BY <1>5, <1>7, <1>10, <2>4, <2>5, <2>7, ServedSettles
  <1> QED
    BY <1>1, <1>2, <1>8, <1>9, <1>10

\* Reading a key for an update, or for its answer, changes nothing either.
LEMMA ReadingServed ==
    ASSUME RestInv, NEW n \in DOMAIN calls, NEW d, d.op = calls[n].op, d.ids = calls[n].ids,
           d.done = calls[n].done, d.failed = calls[n].failed, d.op \in Updates,
           calls' = [calls EXCEPT ![n] = d], UNCHANGED <<keys, server, raced>>,
           DOMAIN d.read \subseteq DOMAIN calls[n].read \cup DOMAIN server,
           DOMAIN d.rows = d.done,
           \A j \in d.done : d.rows[j] = calls[n].rows[j] \/ (j \in DOMAIN server /\ d.rows[j] = server[j])
    PROVE  WellFormedCalls' /\ Settling'
  <1>1. ASSUME ~raced
        PROVE  /\ Current(d, server', keys)
               /\ \A m \in DOMAIN calls \ {n} : Current(calls[m], server', keys)
               /\ (\A m \in DOMAIN calls : ~Loads(calls[m])) =>
                    \A i \in Ids : \/ SameRow(i, server', keys)
                                   \/ Changed(d, i)
                                   \/ \E m \in DOMAIN calls \ {n} : Changed(calls[m], i)
    <2>1. Clear(calls, server, keys) /\ Explained(calls, server, keys)
      BY <1>1 DEF RestInv, Settling
    <2>2. Current(d, server', keys)
      BY <2>1 DEF Clear, Current, Loads, Writes, Updates
    <2>3. \A i \in Ids : Changed(calls[n], i) => Changed(d, i)
      BY DEF Changed, Writes
    <2> QED
      BY <2>1, <2>2, <2>3 DEF Clear, Explained
  <1> QED
    BY <1>1, ServedSettles

LEMMA ServerSettles ==
    ASSUME RestInv, NEW n \in DOMAIN calls, Server(n)
    PROVE  WellFormedCalls' /\ Settling'
  <1>1. calls[n] \in Calls /\ server \in RowSets /\ WellFormed(calls[n]) /\ issued \in Nat
    BY DEF RestInv, Inv, Typed, WellFormedCalls
  <1>2. DOMAIN server \subseteq Ids /\ \A i \in DOMAIN server : server[i] \in Rows
    BY <1>1 DEF RowSets
  <1>3. ASSUME NEW i \in Ids, ServeKey(n, i)
        PROVE  WellFormedCalls' /\ Settling'
    <2>1. PICK row : row = Updated(calls[n], server[i])
      OBVIOUS
    <2>2. /\ i \in Unanswered(calls[n]) /\ i \in DOMAIN server /\ UNCHANGED <<keys, raced>>
          /\ server' = [server EXCEPT ![i] = row]
          /\ Serves(n, i, With(calls[n].rows, i, row))
      BY <1>3, <2>1 DEF ServeKey, page
    <2>3. PICK D \in SUBSET Ids : server \in [D -> Rows]
      BY <1>1 DEF RowSets
    <2>4. DOMAIN server' = DOMAIN server /\ server'[i] = row
          /\ \A j \in DOMAIN server \ {i} : server'[j] = server[j]
      BY <2>2, <2>3
    <2>5. i # NoId /\ i \in calls[n].ids
      BY <2>2, NamesAssumption DEF Unanswered
    <2>6. ~Loads(calls[n]) /\ calls[n].op # "resetUsage"
      BY <1>1, <2>5, IdsKnown
    <2>7. CASE Writes(calls[n])
      <3>1. row \in Rows
        <4>1. \A c \in Calls, old \in Rows : Updated(c, old) \in Rows
          BY <1>1, UpdatedTyped
        <4>2. server[i] \in Rows
          BY <1>2, <2>2
        <4>3. Updated(calls[n], server[i]) \in Rows
          BY <1>1, <4>1, <4>2, Zenon
        <4> QED
          BY <2>1, <4>3
      <3>2. PICK rows : rows = With(calls[n].rows, i, row)
        OBVIOUS
      <3>3. calls[n].rows \in RowSets
        BY <1>1 DEF Calls
      <3>4. rows \in RowSets
        BY <3>1, <3>2, <3>3, ExtendedTyped
      <3>5. Serves(n, i, rows) /\ rows = With(calls[n].rows, i, server'[i])
        BY <2>2, <2>4, <3>2
      <3> QED
        BY <2>2, <2>4, <2>7, <3>4, <3>5, KeyServed
    <2>8. CASE ~Writes(calls[n])
      <3>1. calls[n].op = "resetRPM"
        BY <1>1, <2>6, <2>8 DEF Calls, Ops, Writes, Loads
      <3>2. row = server[i]
        BY <2>1, <3>1 DEF Updated
      <3>3. server' = server
        BY <2>2, <2>3, <3>2
      <3>4. PICK d : d = Served(calls[n], i, With(calls[n].rows, i, row))
        OBVIOUS
      <3>5. d.op = calls[n].op /\ d.ids = calls[n].ids /\ calls' = [calls EXCEPT ![n] = d]
        BY <1>1, <2>2, <3>4 DEF Served, Calls, Serves
      <3>6. ~Loads(d) /\ ~Writes(d)
        BY <2>6, <2>8, <3>5 DEF Loads, Writes
      <3>7. DOMAIN d.read = {}
        BY <1>1, <2>8, <3>4, RestrictedTyped DEF Served, Calls, Writes, Updates, Patching
      <3> QED
        BY <2>2, <3>3, <3>5, <3>6, <3>7, OthersServed
    <2> QED
      BY <2>7, <2>8
  <1>7. ASSUME NEW i \in Ids, ServeRPM(n, i)
        PROVE  WellFormedCalls' /\ Settling'
    <2>1. PICK c \in Calls : c = calls[n]
      BY <1>1
    <2>2. PICK d : d = Served(c, i, NoRows)
      OBVIOUS
    <2>3. /\ c.op = "resetRPM" /\ calls' = [calls EXCEPT ![n] = d]
          /\ UNCHANGED <<keys, server, raced>>
      BY <1>7, <2>1, <2>2 DEF ServeRPM, Serves, page
    <2>4. d.op = c.op /\ d.ids = c.ids /\ DOMAIN d.read \subseteq DOMAIN c.read
      BY <2>2, RestrictedTyped DEF Served, Calls
    <2>5. ~Loads(d) /\ ~Writes(d) /\ DOMAIN d.read = {}
      BY <2>3, <2>4 DEF Loads, Writes, Updates, Patching, Calls
    <2> QED
      BY <2>1, <2>3, <2>4, <2>5, OthersServed
  <1>8. ASSUME NEW i \in Ids, PatchReads(n, i)
        PROVE  WellFormedCalls' /\ Settling'
    <2>1. PICK c \in Calls : c = calls[n]
      BY <1>1
    <2>2. PICK d : d = [c EXCEPT !.read = With(@, i, server[i])]
      OBVIOUS
    <2>3. /\ c.op \in Updates /\ i \in DOMAIN server /\ calls' = [calls EXCEPT ![n] = d]
          /\ UNCHANGED <<keys, server, raced>>
      BY <1>8, <2>1, <2>2 DEF PatchReads, Patching, Updates, page
    <2>4. DOMAIN With(c.read, i, server[i]) = DOMAIN c.read \cup {i}
      BY DEF With
    <2>5. /\ d.op = c.op /\ d.ids = c.ids /\ d.done = c.done /\ d.failed = c.failed
          /\ d.rows = c.rows /\ DOMAIN d.read = DOMAIN c.read \cup {i}
      BY <2>2, <2>4 DEF Calls
    <2>6. DOMAIN d.rows = d.done
      BY <1>1, <2>1, <2>3, <2>5 DEF WellFormed
    <2> QED
      BY <2>1, <2>3, <2>5, <2>6, ReadingServed
  <1>9. ASSUME NEW i \in Ids, Rereads(n, i)
        PROVE  WellFormedCalls' /\ Settling'
    <2>1. PICK c \in Calls : c = calls[n]
      BY <1>1
    <2>2. PICK rows : rows = With(c.rows, i, server[i])
      OBVIOUS
    <2>3. PICK d : d = Served(c, i, rows)
      OBVIOUS
    <2>4. /\ c.op \in Updates /\ i \in c.done /\ i \in DOMAIN server /\ calls' = [calls EXCEPT ![n] = d]
          /\ UNCHANGED <<keys, server, raced>>
      BY <1>9, <2>1, <2>2, <2>3 DEF Rereads, Serves, page
    <2>8. c.done \cup {i} = c.done
      BY <2>4
    <2>5. /\ d.op = c.op /\ d.ids = c.ids /\ d.done = c.done /\ d.failed = c.failed
          /\ d.rows = rows /\ DOMAIN d.read \subseteq DOMAIN c.read
      BY <2>3, <2>8, RestrictedTyped DEF Served, Calls
    <2>6. DOMAIN c.rows = c.done
      BY <1>1, <2>1, <2>4 DEF WellFormed
    <2>7. /\ DOMAIN rows = c.done
          /\ \A j \in c.done : rows[j] = IF j = i THEN server[i] ELSE c.rows[j]
      BY <2>2, <2>4, <2>6 DEF With
    <2>9. \A j \in d.done : d.rows[j] = calls[n].rows[j] \/ (j \in DOMAIN server /\ d.rows[j] = server[j])
      BY <2>1, <2>4, <2>5, <2>7
    <2>10. DOMAIN d.rows = d.done /\ DOMAIN d.read \subseteq DOMAIN calls[n].read \cup DOMAIN server
      BY <2>1, <2>5, <2>7
    <2> QED
      BY <2>1, <2>4, <2>5, <2>9, <2>10, ReadingServed
  <1>10. ASSUME NEW i \in Ids, PatchWrites(n, i)
         PROVE  WellFormedCalls' /\ Settling'
    <2>1. PICK c \in Calls : c = calls[n]
      BY <1>1
    <2>2. i \in DOMAIN c.read /\ WritesBack(c, i) /\ UNCHANGED <<keys, raced>>
      BY <1>10, <2>1 DEF PatchWrites, page
    <2>3. PICK row \in Rows : row = Written(c, i)
      BY <2>2, WrittenTyped DEF RestInv, Inv, Typed
    <2>4. PICK rows : rows = With(c.rows, i, row)
      OBVIOUS
    <2>5. rows \in RowSets /\ Serves(n, i, rows)
      BY <1>10, <2>1, <2>3, <2>4, ExtendedTyped DEF PatchWrites, Calls
    <2>6. /\ DOMAIN server' = DOMAIN server \cup {i}
          /\ \A j \in DOMAIN server' : server'[j] = IF j = i THEN row ELSE server[j]
      BY <2>2, <2>3 DEF WritesBack, With
    <2>7. i \in Unanswered(c) /\ c.op \in Updates /\ Writes(c)
      BY <2>2 DEF Calls, Patching, Updates, Writes
    <2>8. ~raced => i \in DOMAIN server
      BY <2>1, <2>2 DEF RestInv, Settling, Clear, Current
    <2>9. rows = With(c.rows, i, server'[i])
      BY <2>4, <2>6
    <2> QED
      BY <2>1, <2>2, <2>5, <2>6, <2>7, <2>8, <2>9, KeyServed
  <1>4. ASSUME NEW i \in Ids, ServeDelete(n, i)
        PROVE  WellFormedCalls' /\ Settling'
    <2>1. /\ i \in Unanswered(calls[n]) /\ calls[n].op = "delete" /\ UNCHANGED <<keys, raced>>
          /\ Serves(n, i, NoRows)
      BY <1>4 DEF ServeDelete, page
    <2>2. /\ DOMAIN server' \subseteq DOMAIN server
          /\ \A j \in DOMAIN server \ {i} : j \in DOMAIN server' /\ server'[j] = server[j]
      BY <1>4 DEF ServeDelete, Without, Restrict
    <2>3. Writes(calls[n]) /\ calls[n].op \notin Updates
      BY <2>1 DEF Writes, Updates
    <2> QED
      BY <2>1, <2>2, <2>3, NoRowsTyped, KeyServed
  <1>5. ASSUME NEW i \in Ids, Refuse(n, i)
        PROVE  WellFormedCalls' /\ Settling'
    <2>1. /\ i \in Unanswered(calls[n]) \/ (i \in calls[n].done /\ calls[n].op \in Updates)
          /\ i \in calls[n].ids
      BY <1>1, <1>5 DEF Refuse, Unanswered, Updates, Calls
    <2> QED
      BY <1>5, <2>1, FailureServed DEF Refuse, page
  <1>6. ASSUME NEW i \in calls[n].ids, Lose(n, i)
        PROVE  WellFormedCalls' /\ Settling'
    BY <1>6, FailureServed DEF Lose, page
  <1> QED
    BY <1>3, <1>4, <1>5, <1>6, <1>7, <1>8, <1>9, <1>10, ResetServed, ListServed DEF Server

--------------------------------------------------------------------------------
(* A call is answered.                                                       *)

\* The list was read while nothing was written, and cannot have been refused.
LEMMA ListEnds ==
    ASSUME RestInv, NEW n \in DOMAIN calls, Loads(calls[n]), Unanswered(calls[n]) = {},
           Ends(n), UNCHANGED <<server, raced>>,
           calls[n].failed = {} => keys' = calls[n].rows
    PROVE  WellFormedCalls' /\ Settling'
  <1>1. Left(calls', n)
    BY EndsEffect DEF RestInv, Inv, Typed
  <1>2. PICK rest : rest = calls'
    OBVIOUS
  <1>3. Left(rest, n)
    BY <1>1, <1>2
  <1>4. WellFormedCalls'
    BY <1>1, WellFormedLeft DEF RestInv
  <1>5. calls[n] \in Calls /\ WellFormed(calls[n])
    BY DEF RestInv, Inv, Typed, WellFormedCalls
  <1>6. ASSUME ~raced
        PROVE  Clear(rest, server, keys') /\ Explained(rest, server, keys')
    <2>1. Clear(calls, server, keys)
      BY <1>6 DEF RestInv, Settling
    <2>2. calls[n].ids = {NoId}
      BY <1>5, IdsKnown
    <2>3. Current(calls[n], server, keys)
      BY <2>1 DEF Clear
    <2>4. calls[n].failed = {}
      <3>1. calls[n].failed \subseteq Ids /\ calls[n].failed \subseteq {NoId}
        BY <1>5, <2>2, <2>3 DEF Current, Calls
      <3> QED
        BY <3>1, NamesAssumption
    <2>5. NoId \in calls[n].done
      BY <2>2, <2>4 DEF Unanswered
    <2>6. keys' = server
      BY <2>3, <2>4, <2>5 DEF Current
    <2>7. Clear(rest, server, keys)
      BY <1>3, <2>1, LeftClear
    <2>8. \A k \in DOMAIN rest : ~Writes(rest[k])
      <3>1. \A m \in DOMAIN calls \ {n} : ~Meet(calls[n], calls[m])
        BY <2>1 DEF Clear, NoneMeet
      <3>2. \A m \in DOMAIN calls \ {n} : ~Writes(calls[m])
        BY <3>1 DEF Meet
      <3> QED
        BY <1>3, <3>2 DEF Left
    <2>9. Clear(rest, server, keys')
      BY <2>7, <2>8 DEF Clear, Current, Writes
    <2>10. Explained(rest, server, keys')
      BY <2>6 DEF Explained, SameRow
    <2> QED
      BY <2>9, <2>10
  <1>7. Settling'
    BY <1>2, <1>6 DEF Settling
  <1> QED
    BY <1>4, <1>7

\* The answer to another call: what the call had changed is listed by now.
LEMMA OthersEnd ==
    ASSUME RestInv, NEW n \in DOMAIN calls, ~Loads(calls[n]),
           Ends(n), UNCHANGED <<server, raced>>, DOMAIN keys' = DOMAIN keys,
           ~raced => \A i \in Ids : SameRow(i, server, keys) \/ Changed(calls[n], i) =>
                                        SameRow(i, server, keys')
    PROVE  WellFormedCalls' /\ Settling'
  <1>1. Left(calls', n)
    BY EndsEffect DEF RestInv, Inv, Typed
  <1>2. PICK rest : rest = calls'
    OBVIOUS
  <1>3. Left(rest, n)
    BY <1>1, <1>2
  <1>4. WellFormedCalls'
    BY <1>1, WellFormedLeft DEF RestInv
  <1>5. ASSUME ~raced
        PROVE  Clear(rest, server, keys') /\ Explained(rest, server, keys')
    <2>1. Clear(calls, server, keys) /\ Explained(calls, server, keys)
      BY <1>5 DEF RestInv, Settling
    <2>2. Clear(rest, server, keys)
      BY <1>3, <2>1, LeftClear
    <2>3. Clear(rest, server, keys')
      BY <2>2 DEF Clear, Current
    <2>4. ASSUME \A k \in DOMAIN rest : ~Loads(rest[k]), NEW i \in Ids
          PROVE  SameRow(i, server, keys') \/ \E k \in DOMAIN rest : Changed(rest[k], i)
      <3>1. \A m \in DOMAIN calls : ~Loads(calls[m])
        BY <1>3, <2>4 DEF Left
      <3>2. SameRow(i, server, keys) \/ \E m \in DOMAIN calls : Changed(calls[m], i)
        BY <2>1, <3>1 DEF Explained
      <3>3. ASSUME NEW m \in DOMAIN calls \ {n}, Changed(calls[m], i)
            PROVE  \E k \in DOMAIN rest : Changed(rest[k], i)
        BY <1>3, <3>3 DEF Left
      <3> QED
        BY <1>5, <3>2, <3>3
    <2> QED
      BY <2>3, <2>4 DEF Explained
  <1>6. Settling'
    BY <1>2, <1>5 DEF Settling
  <1> QED
    BY <1>4, <1>6

LEMMA UpdateEnds ==
    ASSUME RestInv, NEW n \in DOMAIN calls, calls[n].op \in Updates, Ends(n),
           UNCHANGED <<server, raced>>, keys' = Replaced(calls[n].rows)
    PROVE  WellFormedCalls' /\ Settling'
  <1>1. PICK c : c = calls[n]
    OBVIOUS
  <1>2. /\ DOMAIN keys' = DOMAIN keys
        /\ \A i \in DOMAIN keys : keys'[i] = IF i \in DOMAIN c.rows THEN c.rows[i] ELSE keys[i]
    BY <1>1 DEF Replaced
  <1>3. DOMAIN c.rows = c.done /\ ~Loads(c) /\ c.op # "resetUsage"
    BY <1>1 DEF RestInv, WellFormedCalls, WellFormed, Loads, Updates
  <1>4. ASSUME ~raced, NEW i \in Ids, SameRow(i, server, keys) \/ Changed(c, i)
        PROVE  SameRow(i, server, keys')
    <2>1. \A j \in c.done : j \in DOMAIN keys \cap DOMAIN server /\ c.rows[j] = server[j]
      BY <1>1, <1>4 DEF RestInv, Settling, Clear, Current
    <2>2. CASE i \in c.done
      BY <1>2, <1>3, <2>1, <2>2 DEF SameRow
    <2>3. CASE i \notin c.done
      BY <1>2, <1>3, <1>4, <2>3 DEF SameRow, Changed
    <2> QED
      BY <2>2, <2>3
  <1> QED
    BY <1>1, <1>2, <1>3, <1>4, OthersEnd

\* What fails while nothing races has changed nothing.
LEMMA FailureEnds ==
    ASSUME RestInv, NEW n \in DOMAIN calls,
           calls[n].op \in {"rotate", "delete", "resetUsage", "resetRPM"},
           calls[n].failed # {}, Ends(n), UNCHANGED <<server, keys, raced>>
    PROVE  WellFormedCalls' /\ Settling'
  <1>1. PICK c : c = calls[n]
    OBVIOUS
  <1>2. c \in Calls /\ WellFormed(c)
    BY <1>1 DEF RestInv, Inv, Typed, WellFormedCalls
  <1>3. ~Loads(c)
    BY <1>1 DEF Loads
  <1>4. ASSUME ~raced, NEW i \in Ids, Changed(c, i)
        PROVE  FALSE
    <2>1. Writes(c) /\ c.failed \subseteq Ids
      BY <1>1, <1>4 DEF RestInv, Settling, Clear, Current, Changed
    <2>2. c.failed \subseteq c.ids /\ c.done \subseteq c.ids /\ c.done \cap c.failed = {}
      BY <1>2 DEF Calls
    <2>3. CASE c.op = "resetUsage"
      <3>1. c.ids = {NoId}
        BY <1>2, <2>3, IdsKnown
      <3> QED
        BY <1>1, <2>1, <2>2, <3>1, NamesAssumption
    <2>4. CASE c.op # "resetUsage"
      <3>1. c.op # "batch"
        BY <1>1
      <3>2. \E j \in Ids : c.ids = {j}
        BY <1>2, <1>3, <2>4, <3>1, IdsKnown
      <3>3. c.done = {}
        BY <1>1, <2>2, <3>2
      <3> QED
        BY <1>4, <2>4, <3>3 DEF Changed
    <2> QED
      BY <2>3, <2>4
  <1> QED
    BY <1>1, <1>3, <1>4, OthersEnd

LEMMA AnswerSettles ==
    ASSUME RestInv, NEW n \in DOMAIN calls, Answer(n)
    PROVE  WellFormedCalls' /\ Settling'
  <1>1. CASE Loaded(n) \/ Reloaded(n)
    <2>1. /\ Loads(calls[n]) /\ Unanswered(calls[n]) = {} /\ Ends(n) /\ UNCHANGED <<server, raced>>
          /\ calls[n].failed = {} => keys' = calls[n].rows
      BY <1>1 DEF Loaded, Reloaded, Answered, Fails, ListTaken, Loads, base
    <2> QED
      BY <2>1, ListEnds
  <1>2. CASE BatchAnswered(n) \/ \E op \in Updates : RowAnswered(n, op)
    <2>1. "batch" \in Updates
      BY DEF Updates
    <2>2. /\ calls[n].op \in Updates /\ Ends(n) /\ UNCHANGED <<server, raced>>
          /\ keys' = Replaced(calls[n].rows)
      BY <1>2, <2>1 DEF BatchAnswered, RowAnswered, Answered, base
    <2> QED
      BY <2>2, UpdateEnds
  <1>3. CASE Rotated(n) \/ Deleted(n) \/ RPMReset(n) \/ UsageReset(n)
    <2>1. \E c \in {Load, Reload} : SendsAfter(n, c)
      BY <1>3 DEF Rotated, Deleted, RPMReset, UsageReset, StartsAfter
    <2>2. UNCHANGED <<server, keys>>
      BY <1>3 DEF Rotated, Deleted, RPMReset, UsageReset, base
    <2> QED
      BY <2>1, <2>2, SendsAfterSettles
  <1>4. CASE ActionFails(n) \/ RPMFails(n)
    BY <1>4, FailureEnds DEF ActionFails, RPMFails, Fails, Answered, base
  <1>5. CASE SessionEnds(n)
    <2>1. DOMAIN <<>> = {}
      OBVIOUS
    <2> QED
      BY <1>5, <2>1 DEF SessionEnds, WellFormedCalls, Settling
  <1> QED
    BY <1>1, <1>2, <1>3, <1>4, <1>5 DEF Answer

--------------------------------------------------------------------------------
(* A click, and the invariant.                                               *)

LEMMA FittingIds ==
    /\ \A op \in {"setEnabled", "setPlan", "resetLimits", "resetRPM", "rotate", "delete"}, i \in Ids,
          enabled \in BOOLEAN, plan \in Plans \cup {NoPlan} :
             Fits(op, {i}, enabled, plan) /\ {i} \in IdsOf(op)
    /\ \A ids \in SUBSET Ids, enabled \in BOOLEAN :
             Fits("batch", ids, enabled, NoPlan) /\ ids \in IdsOf("batch")
    /\ Fits("resetUsage", {NoId}, FALSE, NoPlan) /\ {NoId} \in IdsOf("resetUsage")
  BY DEF Fits, IdsOf, Ops, Updates, AnyIds

LEMMA ClickMakes ==
    ASSUME Inv, User
    PROVE  /\ UNCHANGED <<base, keys>>
           /\ UNCHANGED <<calls, raced>> \/ \E c : Fresh(c) /\ Sends(c)
  <1>1. UNCHANGED <<base, keys>>
    BY DEF User, Refresh, ToggleAll, Cancel, ConfirmKey, ConfirmLimits, ConfirmUsage, ClosePlain,
           ToggleSelected, SetEnabled, ResetRPM, SetPlan, BatchSetEnabled, Ask, Update
  <1>2. keys \in RowSets /\ DOMAIN keys \subseteq Ids /\ pending \in Pendings
    BY DEF Inv, Typed, RowSets
  <1>3. \A op, ids, enabled, plan :
            /\ Fits(op, ids, enabled, plan) /\ ids \in IdsOf(op)
            /\ Sends(Call(op, ids, enabled, plan))
            => \E c : Fresh(c) /\ Sends(c)
    BY FreshCall
  <1>4. CASE ToggleAll \/ Cancel \/ ClosePlain \/ \E i \in Ids : ToggleSelected(i)
    BY <1>1, <1>4 DEF ToggleAll, Cancel, ClosePlain, ToggleSelected
  <1>5. CASE \E type \in {"rotate", "delete", "resetLimits", "resetUsage"}, i \in Ids \cup {NoId} :
                 Ask(type, i)
    BY <1>1, <1>5 DEF Ask
  <1>6. CASE Refresh
    BY <1>1, <1>6, FreshLoads DEF Refresh, Starts
  <1>7. CASE ConfirmKey \/ ConfirmLimits
    <2>1. pending.type \in {"rotate", "delete", "resetLimits"} /\ pending.id \in Ids
      BY <1>2, <1>7 DEF ConfirmKey, ConfirmLimits, Pendings
    <2>2. \E op \in {"rotate", "delete", "resetLimits"} : Sends(Call(op, {pending.id}, FALSE, NoPlan))
      BY <1>7, <2>1 DEF ConfirmKey, ConfirmLimits, Update
    <2> QED
      BY <1>1, <1>3, <2>1, <2>2, FittingIds
  <1>8. CASE ConfirmUsage
    BY <1>1, <1>3, <1>8, FittingIds DEF ConfirmUsage
  <1>9. ASSUME NEW i \in Ids, SetEnabled(i)
        PROVE  \E c : Fresh(c) /\ Sends(c)
    <2>1. Sends(Call("setEnabled", {i}, ~keys[i].enabled, NoPlan))
      BY <1>9 DEF SetEnabled, Update
    <2>2. (~keys[i].enabled) \in BOOLEAN
      OBVIOUS
    <2> QED
      BY <1>3, <2>1, <2>2, FittingIds
  <1>10. ASSUME NEW i \in Ids, ResetRPM(i)
         PROVE  \E c : Fresh(c) /\ Sends(c)
    BY <1>3, <1>10, FittingIds DEF ResetRPM
  <1>11. ASSUME NEW i \in Ids, NEW p \in Plans \cup {NoPlan}, SetPlan(i, p)
         PROVE  \E c : Fresh(c) /\ Sends(c)
    BY <1>3, <1>11, FittingIds DEF SetPlan, Update
  <1>12. ASSUME NEW enabled \in BOOLEAN, BatchSetEnabled(enabled)
         PROVE  \E c : Fresh(c) /\ Sends(c)
    <2>1. Sends(Call("batch", selected \cap DOMAIN keys, enabled, NoPlan))
      BY <1>12 DEF BatchSetEnabled, Update
    <2>2. selected \cap DOMAIN keys \in SUBSET Ids
      BY <1>2
    <2> QED
      BY <1>3, <2>1, <2>2, FittingIds
  <1> QED
    BY <1>1, <1>4, <1>5, <1>6, <1>7, <1>8, <1>9, <1>10, <1>11, <1>12 DEF User

LEMMA StraysStep ==
    ASSUME RestInv, [Next]_vars
    PROVE  StraysRace'
  <1>1. /\ raced \in BOOLEAN /\ (strays # <<>> => raced)
        /\ \A n \in DOMAIN calls : calls[n] \in Calls
    BY DEF RestInv, StraysRace, Inv, Typed
  <1>2. \A c, cs : strays # <<>> => RacedBy(c, cs)
    BY <1>1 DEF RacedBy
  <1>3. ASSUME User
        PROVE  StraysRace'
    <2>1. UNCHANGED strays /\ (UNCHANGED raced \/ \E c : raced' = RacedBy(c, calls))
      BY <1>3, ClickMakes DEF RestInv, base, Sends
    <2> QED
      BY <1>1, <1>2, <2>1 DEF StraysRace
  <1>4. ASSUME NEW n \in DOMAIN calls, NEW i \in calls[n].ids, Lose(n, i)
        PROVE  StraysRace'
    <2>1. raced' = (raced \/ Loads(calls[n]) \/ Writes(calls[n]))
      BY <1>4 DEF Lose
    <2>2. i \in DOMAIN calls[n].read => Writes(calls[n])
      BY <1>1 DEF Calls, Patching, Updates, Writes
    <2>3. i \notin DOMAIN calls[n].read => UNCHANGED strays
      BY <1>4 DEF Lose
    <2> QED
      BY <1>1, <2>1, <2>2, <2>3 DEF StraysRace
  <1>5. ASSUME NEW n \in DOMAIN calls, Server(n), \A i \in calls[n].ids : ~Lose(n, i)
        PROVE  StraysRace'
    <2>1. UNCHANGED <<strays, raced>>
      BY <1>5 DEF Server, ServeReset, ServeList, ServeKey, ServeRPM, PatchReads, PatchWrites,
         Rereads, ServeDelete, Refuse
    <2> QED
      BY <1>1, <2>1 DEF StraysRace
  <1>6. ASSUME NEW n \in DOMAIN calls, Answer(n)
        PROVE  StraysRace'
    <2>1. UNCHANGED strays /\ (UNCHANGED raced \/ raced' = TRUE \/ \E c, cs : raced' = RacedBy(c, cs))
      BY <1>6 DEF Answer, Loaded, Reloaded, BatchAnswered, RowAnswered, Rotated, Deleted, RPMReset,
         UsageReset, ActionFails, RPMFails, SessionEnds, StartsAfter, SendsAfter, base
    <2> QED
      BY <1>1, <1>2, <2>1 DEF StraysRace
  <1>7. ASSUME NEW m \in DOMAIN strays, StrayWrites(m)
        PROVE  StraysRace'
    <2>1. DOMAIN <<>> = {}
      OBVIOUS
    <2>2. raced' = raced
      BY <1>7 DEF StrayWrites
    <2> QED
      BY <1>1, <2>1, <2>2 DEF StraysRace
  <1>8. CASE UNCHANGED vars
    BY <1>1, <1>8 DEF vars, StraysRace
  <1> QED
    BY <1>3, <1>4, <1>5, <1>6, <1>7, <1>8 DEF Next

LEMMA RestInvHolds == Spec => []RestInv
  <1>1. Init => RestInv
    <2> SUFFICES ASSUME Init
                 PROVE  RestInv
      OBVIOUS
    <2>1. calls = <<Load>> /\ Fresh(Load) /\ Loads(Load)
      BY FreshLoads DEF Init
    <2>2. DOMAIN calls = {1} /\ calls[1] = Load
      BY <2>1
    <2>3. WellFormedCalls
      BY <2>1, <2>2 DEF WellFormedCalls, Fresh
    <2>4. Clear(calls, server, keys)
      BY <2>1, <2>2, FreshIsCurrent DEF Clear, NoneMeet
    <2>5. Explained(calls, server, keys)
      BY <2>1, <2>2 DEF Explained
    <2> QED
      BY <2>3, <2>4, <2>5, InvInit DEF Init, RestInv, Settling, StraysRace
  <1>2. RestInv /\ [Next]_vars => RestInv'
    <2> SUFFICES ASSUME RestInv, [Next]_vars
                 PROVE  RestInv'
      OBVIOUS
    <2>1. Inv /\ Inv' /\ StraysRace'
      BY InvStep, StraysStep DEF RestInv
    <2>2. CASE User
      <3>1. CASE UNCHANGED <<server, keys, calls, raced>>
        BY <2>1, <3>1 DEF RestInv, WellFormedCalls, Settling
      <3> QED
        BY <2>1, <2>2, <3>1, ClickMakes, SendsSettles DEF RestInv, base
    <2>5. ASSUME NEW m \in DOMAIN strays, StrayWrites(m)
          PROVE  RestInv'
      <3>1. UNCHANGED <<calls, raced>> /\ raced
        <4>1. DOMAIN <<>> = {}
          OBVIOUS
        <4> QED
          BY <2>5, <4>1 DEF StrayWrites, RestInv, StraysRace
      <3> QED
        BY <2>1, <3>1 DEF RestInv, WellFormedCalls, Settling
    <2>3. ASSUME NEW n \in DOMAIN calls, Server(n) \/ Answer(n)
          PROVE  RestInv'
      BY <2>1, <2>3, ServerSettles, AnswerSettles DEF RestInv
    <2>4. CASE UNCHANGED vars
      BY <2>1, <2>4 DEF RestInv, WellFormedCalls, Settling, vars
    <2> QED
      BY <2>2, <2>3, <2>4, <2>5 DEF Next
  <1> QED
    BY <1>1, <1>2, PTL DEF Spec

\* Once every call has been answered the list is what the server has, unless
\* calls met on a key, a write met a reading of the list, an answer was lost or
\* the session has ended: whatever is still different is the work of a call under way.
THEOREM ListComesToRest == Spec => []QuietListIsServer
  <1>1. ASSUME RestInv
        PROVE  QuietListIsServer
    <2> SUFFICES ASSUME Quiet, ~raced
                 PROVE  keys = server
      BY DEF QuietListIsServer
    <2>1. DOMAIN calls = {}
      BY DEF Quiet
    <2>2. \A i \in Ids : SameRow(i, server, keys)
      BY <1>1, <2>1 DEF RestInv, Settling, Explained
    <2>3. server \in RowSets /\ keys \in RowSets
      BY <1>1 DEF RestInv, Inv, Typed
    <2>4. PICK D \in SUBSET Ids : server \in [D -> Rows]
      BY <2>3 DEF RowSets
    <2>5. PICK K \in SUBSET Ids : keys \in [K -> Rows]
      BY <2>3 DEF RowSets
    <2>6. D = K /\ \A i \in D : keys[i] = server[i]
      BY <2>2, <2>4, <2>5 DEF SameRow
    <2> QED
      BY <2>4, <2>5, <2>6
  <1> QED
    BY <1>1, RestInvHolds, PTL

================================================================================
