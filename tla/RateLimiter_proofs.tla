--------------------------- MODULE RateLimiter_proofs ---------------------------
(***************************************************************************)
(* Proofs about RateLimiter for every set of ids and threads, every set of *)
(* limits, every length of a minute and a clock set at will.               *)
(***************************************************************************)
EXTENDS RateLimiter, TLAPS, FiniteSetTheorems, WellFoundedInduction

\* The calls allowed on id at instant s.
SameInstant(id, s) == {g \in grants : g.id = id /\ g.stamp = s}

\* The calls allowed on id in its present window.
InWindow(id) ==
    {g \in grants : /\ g.id = id
                    /\ g.stamp >= buckets[id].windowStart
                    /\ g.stamp < buckets[id].windowStart + Minute}

\* Numbers tell the calls of one instant apart.
Numbered == \A g \in grants : g.nth <= Cardinality(SameInstant(g.id, g.stamp))

\* The limiter never counts a call its window has not seen.
Counted == \A id \in Ids : buckets[id].count <= Cardinality(InWindow(id))

IInv == TypeOK /\ Numbered /\ Counted

--------------------------------------------------------------------------------
LEMMA GrantSubsets ==
  ASSUME TypeOK, NEW S \in SUBSET grants
  PROVE  IsFiniteSet(S) /\ Cardinality(S) \in Nat
  BY FS_Subset, FS_CardinalityType DEF TypeOK

LEMMA WindowType ==
  ASSUME TypeOK, NEW t \in Threads, call[t].at = "stamped"
  PROVE  /\ call[t].id \in Ids /\ call[t].rpm \in Rpms /\ call[t].stamp \in Nat \ {0}
         /\ call[t].rpm \in Nat
         /\ Window(t) \in Bucket
<1>1. call[t].id \in Ids /\ call[t].rpm \in Rpms /\ call[t].stamp \in Nat \ {0}
  BY DEF TypeOK, Call
<1>2. QED
  BY <1>1, RpmAssumption DEF TypeOK, Window, Current, Bucket

LEMMA InitIInv == Init => IInv
<1> SUFFICES ASSUME Init PROVE IInv
  OBVIOUS
<1>1. TypeOK
  BY FS_EmptySet DEF Init, TypeOK, NoBucket, Bucket, NoCall, Call
<1>2. Numbered
  BY DEF Init, Numbered
<1>3. ASSUME NEW id \in Ids PROVE buckets[id].count <= Cardinality(InWindow(id))
  <2>1. InWindow(id) \in SUBSET grants
    BY DEF InWindow
  <2>2. buckets[id].count = 0
    BY DEF Init, NoBucket
  <2>3. QED
    BY <1>1, <2>1, <2>2, GrantSubsets
<1>4. QED
  BY <1>1, <1>2, <1>3 DEF IInv, Counted

\* The steps that touch neither a window nor the calls allowed.
Apart(t) == AllowUnlimited(t) \/ ReadClock(t) \/ Return(t)

LEMMA ApartType ==
  ASSUME TypeOK, NEW t \in Threads, Apart(t)
  PROVE  TypeOK' /\ UNCHANGED <<buckets, grants>>
<1> USE DEF TypeOK
<1>1. CASE AllowUnlimited(t)
  BY <1>1 DEF AllowUnlimited, Call
<1>2. CASE ReadClock(t)
  BY <1>2 DEF ReadClock, Call
<1>3. CASE Return(t)
  BY <1>3 DEF Return, Call, NoCall
<1>4. QED
  BY <1>1, <1>2, <1>3 DEF Apart

\* A grant is a call the history did not have.
LEMMA GrantIsNew ==
  ASSUME IInv, NEW t \in Threads, Grants(t)
  PROVE  \E g \in Grant : /\ g.id = call[t].id /\ g.stamp = call[t].stamp
                          /\ g.nth = Cardinality(SameInstant(call[t].id, call[t].stamp)) + 1
                          /\ g \notin grants
                          /\ grants' = grants \cup {g}
<1> DEFINE same == SameInstant(call[t].id, call[t].stamp)
           new == [id |-> call[t].id, stamp |-> call[t].stamp, nth |-> Cardinality(same) + 1]
<1>1. call[t].id \in Ids /\ call[t].stamp \in Nat \ {0}
  BY WindowType DEF IInv, Grants
<1>2. same \in SUBSET grants
  BY DEF SameInstant
<1>3. Cardinality(same) \in Nat
  BY <1>2, GrantSubsets DEF IInv
<1>4. new \in Grant
  BY <1>1, <1>3 DEF Grant
<1>5. grants' = grants \cup {new}
  BY DEF Grants, NoteGrant, SameInstant
<1>6. new \notin grants
  <2>1. SUFFICES ASSUME new \in grants PROVE FALSE
    OBVIOUS
  <2>2. new.nth <= Cardinality(SameInstant(new.id, new.stamp))
    BY <2>1 DEF IInv, Numbered
  <2>3. QED
    BY <1>3, <2>2
<1>7. QED
  BY <1>4, <1>5, <1>6

LEMMA DecisionType ==
  ASSUME IInv, NEW t \in Threads, Grants(t) \/ Denies(t)
  PROVE  TypeOK'
<1> USE DEF TypeOK
<1>1. TypeOK /\ call[t].at = "stamped"
  BY DEF IInv, Grants, Denies
<1>2. call[t].id \in Ids /\ Window(t) \in Bucket
  BY <1>1, WindowType
<1>3. buckets' \in [Ids -> Bucket]
  <2>1. CASE Grants(t)
    BY <1>1, <1>2, <2>1 DEF Grants, Bucket
  <2>2. CASE Denies(t)
    BY <1>1, <1>2, <2>2 DEF Denies
  <2>3. QED
    BY <2>1, <2>2
<1>4. call' \in [Threads -> Call]
  BY <1>1 DEF Grants, Denies, Call
<1>5. grants' \in SUBSET Grant /\ IsFiniteSet(grants')
  <2>1. CASE Grants(t)
    BY <1>1, <2>1, GrantIsNew, FS_AddElement
  <2>2. CASE Denies(t)
    BY <1>1, <2>2 DEF Denies
  <2>3. QED
    BY <2>1, <2>2
<1>6. reversals' \in [Ids -> Nat] /\ wall' \in Nat \ {0}
  BY <1>1 DEF Grants, Denies, NoteReversal
<1>7. QED
  BY <1>3, <1>4, <1>5, <1>6

LEMMA GrantsIInv ==
  ASSUME IInv, NEW t \in Threads, Grants(t)
  PROVE  IInv'
<1> DEFINE id == call[t].id
           s == call[t].stamp
<1>1. TypeOK /\ TypeOK'
  BY DecisionType DEF IInv
<1>2. id \in Ids /\ s \in Nat \ {0} /\ Window(t) \in Bucket /\ call[t].at = "stamped"
  BY <1>1, WindowType DEF Grants
<1>3. PICK g \in Grant : /\ g.id = id /\ g.stamp = s
                         /\ g.nth = Cardinality(SameInstant(id, s)) + 1
                         /\ g \notin grants
                         /\ grants' = grants \cup {g}
  BY GrantIsNew
<1>4. Numbered'
  <2> SUFFICES ASSUME NEW h \in grants'
               PROVE  h.nth <= Cardinality(SameInstant(h.id, h.stamp)')
    BY DEF Numbered
  <2> DEFINE before == SameInstant(h.id, h.stamp)
             after == SameInstant(h.id, h.stamp)'
  <2>1. before \in SUBSET grants /\ after \subseteq grants' /\ before \subseteq after
    BY <1>3 DEF SameInstant
  <2>2. IsFiniteSet(before) /\ IsFiniteSet(after)
        /\ Cardinality(before) \in Nat /\ Cardinality(after) \in Nat
    BY <1>1, <2>1, GrantSubsets, FS_Subset, FS_CardinalityType DEF TypeOK
  <2>3. CASE h \in grants
    <3>1. h.nth <= Cardinality(before) /\ h.nth \in Nat
      BY <1>1, <2>3 DEF IInv, Numbered, TypeOK, Grant
    <3>2. Cardinality(before) <= Cardinality(after)
      BY <2>1, <2>2, FS_Subset
    <3>3. QED
      BY <2>2, <3>1, <3>2
  <2>4. CASE h = g
    <3>1. after = before \cup {g} /\ g \notin before
      BY <1>3, <2>4 DEF SameInstant
    <3>2. Cardinality(after) = Cardinality(before) + 1
      BY <2>2, <3>1, FS_AddElement
    <3>3. QED
      BY <1>3, <2>2, <2>4, <3>2
  <2>5. QED
    BY <1>3, <2>3, <2>4
<1>5. Counted'
  <2> SUFFICES ASSUME NEW i \in Ids
               PROVE  buckets'[i].count <= Cardinality(InWindow(i)')
    BY DEF Counted
  <2> DEFINE before == InWindow(i)
             after == InWindow(i)'
  <2>1. before \in SUBSET grants /\ after \subseteq grants'
    BY DEF InWindow
  <2>2. IsFiniteSet(before) /\ IsFiniteSet(after)
        /\ Cardinality(before) \in Nat /\ Cardinality(after) \in Nat
    BY <1>1, <2>1, GrantSubsets, FS_Subset, FS_CardinalityType DEF TypeOK
  <2>3. buckets[i].count <= Cardinality(before)
    BY DEF IInv, Counted
  <2>4. CASE i # id
    <3>1. buckets'[i] = buckets[i]
      BY <1>1, <1>2, <2>4 DEF Grants, TypeOK
    <3>2. after = before
      BY <1>3, <2>4, <3>1 DEF InWindow
    <3>3. QED
      BY <2>3, <3>1, <3>2
  <2>5. CASE i = id /\ StartsOver(buckets[id], s)
    <3>1. buckets'[i] = [windowStart |-> s, count |-> 1]
      BY <1>1, <1>2, <2>5 DEF Grants, Window, Current, TypeOK
    <3>2. g \in after
      BY <1>2, <1>3, <2>5, <3>1, MinuteAssumption DEF InWindow
    <3>3. Cardinality(after) # 0
      BY <2>2, <3>2, FS_EmptySet
    <3>4. QED
      BY <2>2, <3>1, <3>3
  <2>6. CASE i = id /\ ~StartsOver(buckets[id], s)
    <3>1. /\ buckets'[i].windowStart = buckets[i].windowStart
          /\ buckets'[i].count = buckets[i].count + 1
      BY <1>1, <1>2, <2>6 DEF Grants, Window, Current, TypeOK
    <3>2. s >= buckets[i].windowStart /\ s < buckets[i].windowStart + Minute
      BY <1>1, <1>2, <2>6, MinuteAssumption DEF StartsOver, TypeOK, Bucket
    <3>3. after = before \cup {g} /\ g \notin before
      BY <1>3, <2>6, <3>1, <3>2 DEF InWindow
    <3>4. Cardinality(after) = Cardinality(before) + 1
      BY <2>2, <3>3, FS_AddElement
    <3>5. buckets[i].count \in Nat
      BY <1>1 DEF TypeOK, Bucket
    <3>6. QED
      BY <2>2, <2>3, <3>1, <3>4, <3>5
  <2>7. QED
    BY <2>4, <2>5, <2>6
<1>6. QED
  BY <1>1, <1>4, <1>5 DEF IInv

LEMMA DeniesIInv ==
  ASSUME IInv, NEW t \in Threads, Denies(t)
  PROVE  IInv'
<1> DEFINE id == call[t].id
<1>1. TypeOK /\ TypeOK' /\ grants' = grants /\ id \in Ids
  BY DecisionType, WindowType DEF IInv, Denies
<1>2. Numbered'
  BY <1>1 DEF IInv, Numbered, SameInstant
<1>3. ASSUME NEW i \in Ids
      PROVE  buckets'[i].count <= Cardinality(InWindow(i)')
  <2>1. InWindow(i)' \in SUBSET grants
    BY <1>1 DEF InWindow
  <2>2. Cardinality(InWindow(i)') \in Nat
    BY <1>1, <2>1, GrantSubsets
  <2>3. CASE i = id /\ StartsOver(buckets[id], call[t].stamp)
    <3>1. buckets'[i].count = 0
      BY <1>1, <2>3 DEF Denies, Window, Current, TypeOK
    <3>2. QED
      BY <2>2, <3>1
  <2>4. CASE i # id \/ ~StartsOver(buckets[id], call[t].stamp)
    <3>1. buckets'[i] = buckets[i]
      BY <1>1, <2>4 DEF Denies, Window, Current, TypeOK
    <3>2. InWindow(i)' = InWindow(i)
      BY <1>1, <3>1 DEF InWindow
    <3>3. QED
      BY <3>1, <3>2 DEF IInv, Counted
  <2>5. QED
    BY <2>3, <2>4
<1>4. QED
  BY <1>1, <1>2, <1>3 DEF IInv, Counted

LEMMA ResetIInv ==
  ASSUME IInv, NEW id \in Ids, Reset(id)
  PROVE  IInv'
<1>0. TypeOK /\ grants' = {g \in grants : g.id # id}
  BY DEF IInv, Reset
<1>1. TypeOK'
  <2>1. grants' \in SUBSET grants
    BY <1>0
  <2>2. IsFiniteSet(grants') /\ grants' \in SUBSET Grant
    BY <1>0, <2>1, GrantSubsets DEF TypeOK
  <2>3. QED
    BY <1>0, <2>2 DEF Reset, TypeOK, NoBucket, Bucket
<1>2. Numbered'
  <2>1. \A g \in grants' : SameInstant(g.id, g.stamp)' = SameInstant(g.id, g.stamp)
    BY <1>0 DEF SameInstant
  <2>2. QED
    BY <1>0, <2>1 DEF IInv, Numbered
<1>3. ASSUME NEW i \in Ids
      PROVE  buckets'[i].count <= Cardinality(InWindow(i)')
  <2>1. CASE i = id
    <3>1. InWindow(i)' \in SUBSET grants
      BY <1>0 DEF InWindow
    <3>2. Cardinality(InWindow(i)') \in Nat /\ buckets'[i].count = 0
      BY <1>0, <2>1, <3>1, GrantSubsets DEF Reset, TypeOK, NoBucket
    <3>3. QED
      BY <3>2
  <2>2. CASE i # id
    <3>1. buckets'[i] = buckets[i]
      BY <1>0, <2>2 DEF Reset, TypeOK
    <3>2. InWindow(i)' = InWindow(i)
      BY <1>0, <2>2, <3>1 DEF InWindow
    <3>3. QED
      BY <3>1, <3>2 DEF IInv, Counted
  <2>3. QED
    BY <2>1, <2>2
<1>4. QED
  BY <1>1, <1>2, <1>3 DEF IInv, Counted

LEMMA StepIInv == IInv /\ [Next]_vars => IInv'
<1> SUFFICES ASSUME IInv, [Next]_vars PROVE IInv'
  OBVIOUS
<1>0. ASSUME TypeOK', UNCHANGED <<buckets, grants>>
      PROVE  IInv'
  BY <1>0 DEF IInv, Numbered, SameInstant, Counted, InWindow
<1>1. ASSUME NEW t \in Threads, Apart(t)
      PROVE  IInv'
  BY <1>0, <1>1, ApartType DEF IInv
<1>2. ASSUME NEW t \in Threads, Grants(t) \/ Denies(t)
      PROVE  IInv'
  BY <1>2, GrantsIInv, DeniesIInv
<1>3. ASSUME NEW id \in Ids, Reset(id)
      PROVE  IInv'
  BY <1>3, ResetIInv
<1>4. CASE SetClock
  BY <1>0, <1>4, BoundAssumption DEF SetClock, IInv, TypeOK
<1>5. CASE UNCHANGED vars
  BY <1>0, <1>5 DEF vars, IInv, TypeOK
<1>6. QED
  BY <1>1, <1>2, <1>3, <1>4, <1>5 DEF Next, Apart

\* What the limiter counts in a window are calls it allowed in that window.
THEOREM CountsOnlyGrants == Spec => []IInv
  BY InitIInv, StepIInv, PTL DEF Spec

\* A limiter state is what the code can hold: windows with a count of calls,
\* and a call per thread with the clock it read (ratelimit.go).
THEOREM LimiterTyped == Spec => []TypeOK
<1>1. IInv => TypeOK
  BY DEF IInv
<1>2. QED
  BY <1>1, CountsOnlyGrants, PTL

\* A call is denied for calls that were allowed within a minute of it, however
\* threads overtake each other and however the clock is set.
THEOREM DenialsAreJustified == Spec => DenialJustified
<1> DEFINE Justified ==
      \A t \in Threads :
          call[t].at = "stamped" /\ call'[t].at = "denied" =>
              Cardinality(GrantedNear(call[t].id, call[t].stamp)) >= call[t].rpm
<1>1. ASSUME IInv, [Next]_vars PROVE [Justified]_vars
  <2> SUFFICES ASSUME Next, NEW t \in Threads,
                      call[t].at = "stamped", call'[t].at = "denied"
               PROVE  Cardinality(GrantedNear(call[t].id, call[t].stamp)) >= call[t].rpm
    BY <1>1
  <2>1. TypeOK
    BY <1>1 DEF IInv
  <2>2. Denies(t)
    <3>1. ASSUME NEW u \in Threads, Apart(u) \/ Grants(u) \/ Denies(u)
          PROVE  u = t /\ Denies(t)
      <4>1. call'[t] = call[t] \/ u = t
        BY <2>1, <3>1 DEF Apart, AllowUnlimited, ReadClock, Return, Grants, Denies, TypeOK
      <4>2. u = t
        BY <4>1
      <4>3. ~Apart(t)
        BY <2>1 DEF Apart, AllowUnlimited, ReadClock, Return, TypeOK, NoCall
      <4>4. ~Grants(t)
        BY <2>1 DEF Grants, TypeOK, Call
      <4>5. QED
        BY <3>1, <4>2, <4>3, <4>4
    <3>2. ASSUME NEW id \in Ids, Reset(id) PROVE FALSE
      BY <3>2 DEF Reset
    <3>3. CASE SetClock
      BY <3>3 DEF SetClock
    <3>4. QED
      BY <3>1, <3>2, <3>3 DEF Next, Apart
  <2> DEFINE id == call[t].id
             s == call[t].stamp
             near == GrantedNear(id, s)
  <2>3. id \in Ids /\ s \in Nat \ {0} /\ call[t].rpm \in Nat /\ Window(t) \in Bucket
    BY <2>1, WindowType
  <2>4. Window(t).count >= call[t].rpm
    BY <2>2, <2>3 DEF Denies, HasRoom, Bucket
  <2>5. near \in SUBSET grants
    BY DEF GrantedNear
  <2>6. IsFiniteSet(near) /\ Cardinality(near) \in Nat
    BY <2>1, <2>5, GrantSubsets
  <2>7. CASE StartsOver(buckets[id], s)
    <3>1. Window(t).count = 0
      BY <2>7 DEF Window, Current
    <3>2. QED
      BY <2>3, <2>4, <2>6, <3>1
  <2>8. CASE ~StartsOver(buckets[id], s)
    <3>1. Window(t) = buckets[id] /\ buckets[id] \in Bucket
      BY <2>1, <2>3, <2>8 DEF Window, Current, TypeOK
    <3>2. s >= buckets[id].windowStart /\ s < buckets[id].windowStart + Minute
      BY <2>3, <2>8, <3>1, MinuteAssumption DEF StartsOver, Bucket
    <3>3. InWindow(id) \subseteq near
      BY <2>1, <2>3, <3>1, <3>2, MinuteAssumption DEF InWindow, GrantedNear, TypeOK, Grant, Bucket
    <3>4. Cardinality(InWindow(id)) <= Cardinality(near)
      BY <2>6, <3>3, FS_Subset
    <3>5. InWindow(id) \in SUBSET grants
      BY DEF InWindow
    <3>6. Cardinality(InWindow(id)) \in Nat
      BY <2>1, <3>5, GrantSubsets
    <3>7. buckets[id].count <= Cardinality(InWindow(id))
      BY <1>1, <2>3 DEF IInv, Counted
    <3>8. QED
      BY <2>3, <2>4, <2>6, <3>1, <3>4, <3>6, <3>7 DEF Bucket
  <2>9. QED
    BY <2>7, <2>8
<1>2. QED
  BY <1>1, CountsOnlyGrants, PTL DEF Spec, DenialJustified

--------------------------------------------------------------------------------
(* Bursts.  Between two reversals an id's windows follow each other, a       *)
(* minute or more apart, each opened by a grant on its first instant.  So a  *)
(* minute meets two of them at most, and if it meets two then the first one  *)
(* opened before it.                                                         *)

\* What a window holds at most, and what two of them bring into a minute.
Burst == 2 * Largest - 1

\* What older reversals account for.
Older(id) == Burst * reversals[id]

\* A window that is open counts a grant, and no more than the largest limit.
CountsLimited ==
    \A id \in Ids :
        /\ buckets[id].count <= Largest
        /\ IF buckets[id].windowStart = 0
           THEN \A g \in grants : g.id # id
           ELSE buckets[id].count >= 1

\* The grants of a minute from s by where s lies: after the present window, on
\* its first instant, within it, less than a minute before it, or earlier.
Paced(id, s) ==
    LET from == buckets[id].windowStart
        count == buckets[id].count
        granted == Cardinality(GrantedFrom(id, s))
    IN  from # 0 =>
        /\ s >= from + Minute => granted <= Older(id)
        /\ s = from => granted <= Older(id) + count
        /\ s > from /\ s < from + Minute => granted <= Older(id) + count - 1
        /\ s < from /\ from < s + Minute => granted <= Older(id) + Largest - 1 + count
        /\ from >= s + Minute => granted <= Older(id) + Burst

PacedInv ==
    /\ CountsLimited
    /\ \A id \in Ids, s \in Nat : Paced(id, s)

\* Only a call of a key with a limit comes as far as the lock.
Limited == \A t \in Threads : call[t].at = "stamped" => call[t].rpm # 0

\* A finite set of limits has a largest: of the finite subsets without one, a
\* smallest would have one after all.
LEMMA LargestType ==
  /\ Largest \in Rpms /\ Largest \in Nat /\ Largest >= 1
  /\ \A m \in Rpms : m <= Largest
<1> DEFINE HasLargest(S) == \E n \in S : \A m \in S : m <= n
           Without == {S \in FiniteSubsetsOf(Rpms) : S # {} /\ ~HasLargest(S)}
           R == StrictSubsetOrdering(Rpms)
<1>1. Rpms \in FiniteSubsetsOf(Rpms) /\ Rpms # {}
  BY RpmAssumption DEF FiniteSubsetsOf
<1>2. Without = {}
  <2>1. SUFFICES ASSUME Without # {} PROVE FALSE
    OBVIOUS
  <2>2. Without \subseteq FiniteSubsetsOf(Rpms)
    OBVIOUS
  <2>3. PICK S \in Without : \A T \in Without : <<T, S>> \notin R
    <3> HIDE DEF Without, R
    <3>1. IsWellFoundedOn(R, FiniteSubsetsOf(Rpms))
      BY FS_StrictSubsetOrderingWellFounded DEF R
    <3>2. QED
      BY <2>1, <2>2, <3>1, WFMin
  <2>4. IsFiniteSet(S) /\ S \subseteq Rpms /\ S # {} /\ ~HasLargest(S)
    BY <2>3 DEF FiniteSubsetsOf
  <2>5. PICK x \in S : TRUE
    BY <2>4
  <2> DEFINE T == S \ {x}
  <2>6. IsFiniteSet(T) /\ T \subseteq Rpms
    BY <2>4, FS_RemoveElement
  <2>7. x \in Nat /\ S \subseteq Nat
    BY <2>4, RpmAssumption
  <2>8. CASE T = {}
    <3>1. \A m \in S : m <= x
      BY <2>7, <2>8
    <3>2. QED
      BY <2>4, <3>1
  <2>9. CASE T # {}
    <3>1. <<T, S>> \in R
      BY <2>4, <2>6 DEF StrictSubsetOrdering
    <3>2. T \notin Without
      BY <2>3, <3>1
    <3>3. HasLargest(T)
      BY <2>6, <2>9, <3>2 DEF FiniteSubsetsOf
    <3>4. PICK n \in T : \A m \in T : m <= n
      BY <3>3
    <3>5. n \in Nat /\ (x <= n \/ n <= x)
      BY <2>7
    <3>6. CASE x <= n
      <4>1. \A m \in S : m <= n
        BY <3>4, <3>6
      <4>2. QED
        BY <2>4, <4>1
    <3>7. CASE n <= x
      <4>1. \A m \in S : m <= x
        BY <2>7, <3>4, <3>5, <3>7
      <4>2. QED
        BY <2>4, <4>1
    <3>8. QED
      BY <3>5, <3>6, <3>7
  <2>10. QED
    BY <2>8, <2>9
<1>3. HasLargest(Rpms)
  BY <1>1, <1>2
<1>4. Largest \in Rpms /\ \A m \in Rpms : m <= Largest
  BY <1>3 DEF Largest
<1>5. PICK m \in Rpms : m # 0
  BY RpmAssumption
<1>6. QED
  BY <1>4, <1>5, RpmAssumption

\* The same bound, in the form the steps use it.
LEMMA BurstType == Burst \in Nat /\ Largest <= Burst /\ Burst = Largest - 1 + Largest
  BY LargestType DEF Burst

LEMMA OlderType ==
  ASSUME TypeOK, NEW i \in Ids
  PROVE  Older(i) \in Nat
<1>1. reversals[i] \in Nat
  BY DEF TypeOK
<1>2. QED
  BY <1>1, BurstType DEF Older

LEMMA OlderGrows ==
  ASSUME TypeOK, NEW i \in Ids, reversals'[i] = reversals[i] + 1
  PROVE  Older(i)' = Older(i) + Burst
<1> DEFINE r == reversals[i]
           b == Burst
<1>1. r \in Nat /\ b \in Nat
  BY BurstType DEF TypeOK
<1>2. Older(i)' = b * (r + 1) /\ Older(i) = b * r
  BY DEF Older, Burst
<1>3. b * (r + 1) = b * r + b
  <2> HIDE DEF r, b
  <2> QED BY <1>1
<1>4. QED
  BY <1>2, <1>3

LEMMA GrantedType ==
  ASSUME TypeOK, NEW i, NEW s
  PROVE  IsFiniteSet(GrantedFrom(i, s)) /\ Cardinality(GrantedFrom(i, s)) \in Nat
<1>1. GrantedFrom(i, s) \in SUBSET grants
  BY DEF GrantedFrom
<1>2. QED
  BY <1>1, GrantSubsets

\* A new grant counts in every minute that it lies in, and in no other.
LEMMA GrantedGrows ==
  ASSUME TypeOK, NEW i \in Ids, NEW s \in Nat, NEW g \in Grant,
         g.id = i, g \notin grants, grants' = grants \cup {g}
  PROVE  Cardinality(GrantedFrom(i, s)') =
             IF s <= g.stamp /\ g.stamp < s + Minute
             THEN Cardinality(GrantedFrom(i, s)) + 1
             ELSE Cardinality(GrantedFrom(i, s))
<1>1. g.stamp \in Nat
  BY DEF Grant
<1>2. IsFiniteSet(GrantedFrom(i, s))
  BY GrantedType
<1>3. CASE s <= g.stamp /\ g.stamp < s + Minute
  <2>1. GrantedFrom(i, s)' = GrantedFrom(i, s) \cup {g} /\ g \notin GrantedFrom(i, s)
    BY <1>1, <1>3 DEF GrantedFrom
  <2>2. QED
    BY <1>2, <1>3, <2>1, FS_AddElement
<1>4. CASE ~(s <= g.stamp /\ g.stamp < s + Minute)
  <2>1. GrantedFrom(i, s)' = GrantedFrom(i, s)
    BY <1>1, <1>4, MinuteAssumption DEF GrantedFrom
  <2>2. QED
    BY <1>4, <2>1
<1>5. QED
  BY <1>3, <1>4

\* Whatever window an id has, a minute's grants are at most one burst more than
\* older reversals account for.
LEMMA WithinBurst ==
  ASSUME TypeOK, PacedInv, NEW i \in Ids, NEW s \in Nat
  PROVE  Cardinality(GrantedFrom(i, s)) <= Older(i) + Burst
<1> DEFINE from == buckets[i].windowStart
           count == buckets[i].count
           granted == Cardinality(GrantedFrom(i, s))
<1>1. from \in Nat /\ count \in Nat /\ granted \in Nat /\ Older(i) \in Nat
  BY GrantedType, OlderType DEF TypeOK, Bucket
<1>2. CASE from = 0
  <2>1. GrantedFrom(i, s) = {}
    BY <1>2 DEF PacedInv, CountsLimited, GrantedFrom
  <2>2. granted = 0
    BY <2>1, FS_EmptySet
  <2>3. QED
    BY <1>1, <2>2, BurstType
<1>3. CASE from # 0
  <2>1. Paced(i, s) /\ count <= Largest
    BY DEF PacedInv, CountsLimited
  <2>2. /\ s >= from + Minute => granted <= Older(i)
        /\ s = from => granted <= Older(i) + count
        /\ s > from /\ s < from + Minute => granted <= Older(i) + count - 1
        /\ s < from /\ from < s + Minute => granted <= Older(i) + Largest - 1 + count
        /\ from >= s + Minute => granted <= Older(i) + Burst
    BY <1>3, <2>1 DEF Paced
  <2>3. granted <= Older(i) + Burst
    <3> HIDE DEF from, count, granted
    <3> QED BY <1>1, <2>1, <2>2, BurstType, LargestType, MinuteAssumption
  <2>4. QED
    BY <2>3
<1>4. QED
  BY <1>2, <1>3

\* What a window stands for depends on the id's own state alone.
LEMMA PacedApart ==
  ASSUME PacedInv, NEW i \in Ids,
         buckets'[i] = buckets[i], reversals'[i] = reversals[i],
         {g \in grants' : g.id = i} = {g \in grants : g.id = i}
  PROVE  /\ buckets'[i].count <= Largest
         /\ IF buckets'[i].windowStart = 0
            THEN \A g \in grants' : g.id # i
            ELSE buckets'[i].count >= 1
         /\ \A s \in Nat : Paced(i, s)'
<1>1. ASSUME NEW s \in Nat PROVE Paced(i, s)'
  <2>1. GrantedFrom(i, s)' = GrantedFrom(i, s)
    BY DEF GrantedFrom
  <2>2. Older(i)' = Older(i)
    BY DEF Older, Burst
  <2>3. Paced(i, s)
    BY DEF PacedInv
  <2>4. QED
    BY <2>1, <2>2, <2>3 DEF Paced, Burst
<1>2. QED
  BY <1>1 DEF PacedInv, CountsLimited

\* So it is enough to look at the id a step is about.
LEMMA PacedSplit ==
  ASSUME PacedInv, NEW id \in Ids,
         \A i \in Ids \ {id} :
            /\ buckets'[i] = buckets[i] /\ reversals'[i] = reversals[i]
            /\ {g \in grants' : g.id = i} = {g \in grants : g.id = i},
         buckets'[id].count <= Largest,
         IF buckets'[id].windowStart = 0
         THEN \A g \in grants' : g.id # id
         ELSE buckets'[id].count >= 1,
         \A s \in Nat : Paced(id, s)'
  PROVE  PacedInv'
<1>1. Largest' = Largest
  BY DEF Largest
<1>2. ASSUME NEW i \in Ids \ {id}
      PROVE  /\ buckets'[i].count <= Largest
             /\ IF buckets'[i].windowStart = 0
                THEN \A g \in grants' : g.id # i
                ELSE buckets'[i].count >= 1
             /\ \A s \in Nat : Paced(i, s)'
  BY <1>2, PacedApart
<1>3. CountsLimited'
  BY <1>1, <1>2 DEF CountsLimited
<1>4. \A i \in Ids, s \in Nat : Paced(i, s)'
  BY <1>2
<1>5. QED
  BY <1>3, <1>4 DEF PacedInv

LEMMA GrantsPaced ==
  ASSUME IInv, PacedInv, NEW t \in Threads, Grants(t)
  PROVE  PacedInv'
<1>0. PICK id, x : id = call[t].id /\ x = call[t].stamp
  OBVIOUS
<1> DEFINE from == buckets[id].windowStart
           count == buckets[id].count
           from2 == buckets'[id].windowStart
           count2 == buckets'[id].count
<1>1. TypeOK /\ TypeOK'
  BY DecisionType DEF IInv
<1>2. /\ id \in Ids /\ x \in Nat \ {0} /\ call[t].at = "stamped"
      /\ call[t].rpm \in Rpms /\ call[t].rpm \in Nat
      /\ Window(t) \in Bucket
  BY <1>0, <1>1, WindowType DEF Grants
<1>3. PICK g \in Grant : /\ g.id = id /\ g.stamp = x
                         /\ g \notin grants
                         /\ grants' = grants \cup {g}
  BY <1>0, GrantIsNew
<1>4. from \in Nat /\ count \in Nat
  BY <1>1, <1>2 DEF TypeOK, Bucket
<1>5. buckets'[id] = [windowStart |-> Window(t).windowStart, count |-> Window(t).count + 1]
  BY <1>0, <1>1, <1>2 DEF Grants, TypeOK
<1>6. \/ StartsOver(buckets[id], x) /\ from2 = x /\ count2 = 1
      \/ ~StartsOver(buckets[id], x) /\ from2 = from /\ count2 = count + 1
  BY <1>0, <1>5 DEF Window, Current
<1>7. count2 <= Largest /\ count2 >= 1 /\ count2 \in Nat
  <2>1. Window(t).count < call[t].rpm /\ Window(t).count \in Nat
    BY <1>2 DEF Grants, HasRoom, Bucket
  <2>2. count2 = Window(t).count + 1
    BY <1>5
  <2> HIDE DEF count2
  <2>3. QED
    BY <1>2, <2>1, <2>2, LargestType
<1>8. from2 # 0
  BY <1>2, <1>4, <1>6 DEF StartsOver
<1>9. IF x < from THEN reversals'[id] = reversals[id] + 1 ELSE reversals'[id] = reversals[id]
  BY <1>0, <1>1, <1>2 DEF Grants, NoteReversal, TypeOK
<1>10. ASSUME NEW s \in Nat PROVE Paced(id, s)'
  <2> DEFINE granted == Cardinality(GrantedFrom(id, s))
             granted2 == Cardinality(GrantedFrom(id, s)')
             older == Older(id)
             older2 == Older(id)'
  <2>1. granted \in Nat /\ older \in Nat
    BY <1>1, <1>2, GrantedType, OlderType
  <2>2. granted2 = IF s <= x /\ x < s + Minute THEN granted + 1 ELSE granted
    BY <1>2, <1>3, <1>1, GrantedGrows
  <2>3. IF x < from THEN older2 = older + Burst ELSE older2 = older
    BY <1>1, <1>2, <1>9, OlderGrows DEF Older, Burst
  <2>4. granted <= older + Burst
    BY <1>1, <1>2, WithinBurst
  <2>5. from = 0 => granted = 0
    <3>1. from = 0 => GrantedFrom(id, s) = {}
      BY <1>2 DEF PacedInv, CountsLimited, GrantedFrom
    <3>2. QED
      BY <3>1, FS_EmptySet
  <2>6. from # 0 =>
          /\ count >= 1 /\ count <= Largest
          /\ s >= from + Minute => granted <= older
          /\ s = from => granted <= older + count
          /\ s > from /\ s < from + Minute => granted <= older + count - 1
          /\ s < from /\ from < s + Minute => granted <= older + Largest - 1 + count
          /\ from >= s + Minute => granted <= older + Burst
    BY <1>2 DEF PacedInv, CountsLimited, Paced
  <2>7. \/ /\ from = 0 \/ x >= from + Minute \/ x < from
           /\ from2 = x /\ count2 = 1
        \/ /\ from # 0 /\ x < from + Minute /\ x >= from
           /\ from2 = from /\ count2 = count + 1
    BY <1>2, <1>4, <1>6, MinuteAssumption DEF StartsOver
  <2>8. /\ s >= from2 + Minute => granted2 <= older2
        /\ s = from2 => granted2 <= older2 + count2
        /\ s > from2 /\ s < from2 + Minute => granted2 <= older2 + count2 - 1
        /\ s < from2 /\ from2 < s + Minute => granted2 <= older2 + Largest - 1 + count2
        /\ from2 >= s + Minute => granted2 <= older2 + Burst
    <3> HIDE DEF from, count, from2, count2, granted, granted2, older, older2
    <3>0. x \in Nat /\ x # 0 /\ Minute \in Nat /\ Minute # 0 /\ Burst \in Nat /\ Largest \in Nat
      BY <1>2, MinuteAssumption, BurstType, LargestType
    <3>1. CASE from = 0
      BY <1>4, <2>1, <2>2, <2>3, <2>5, <2>7, <3>0, <3>1, BurstType, LargestType
    <3>2. CASE from # 0 /\ x >= from + Minute
      BY <1>4, <2>1, <2>2, <2>3, <2>6, <2>7, <3>0, <3>2, BurstType, LargestType
    <3>3. CASE from # 0 /\ x < from
      BY <1>4, <2>1, <2>2, <2>3, <2>4, <2>7, <3>0, <3>3, BurstType, LargestType
    <3>4. CASE from # 0 /\ x >= from /\ x < from + Minute
      BY <1>4, <2>1, <2>2, <2>3, <2>6, <2>7, <3>0, <3>4, BurstType, LargestType
    <3>5. QED
      BY <1>4, <3>0, <3>1, <3>2, <3>3, <3>4
  <2>9. Burst' = Burst /\ Largest' = Largest
    BY DEF Burst, Largest
  <2>10. QED
    BY <2>8, <2>9 DEF Paced
<1>11. \A i \in Ids \ {id} :
          /\ buckets'[i] = buckets[i] /\ reversals'[i] = reversals[i]
          /\ {h \in grants' : h.id = i} = {h \in grants : h.id = i}
  BY <1>0, <1>1, <1>2, <1>3 DEF Grants, NoteReversal, TypeOK
<1>12. QED
  BY <1>2, <1>7, <1>8, <1>10, <1>11, PacedSplit

\* A denied call finds its window open, and leaves it.
LEMMA DeniesPaced ==
  ASSUME IInv, PacedInv, Limited, NEW t \in Threads, Denies(t)
  PROVE  PacedInv'
<1> DEFINE id == call[t].id
<1>1. TypeOK
  BY DEF IInv
<1>2. id \in Ids /\ call[t].rpm \in Nat /\ call[t].rpm # 0 /\ Window(t) \in Bucket
  BY <1>1, WindowType DEF Denies, Limited
<1>3. ~StartsOver(buckets[id], call[t].stamp)
  <2>1. SUFFICES ASSUME StartsOver(buckets[id], call[t].stamp) PROVE FALSE
    OBVIOUS
  <2>2. Window(t).count = 0
    BY <2>1 DEF Window, Current
  <2>3. QED
    BY <1>2, <2>2 DEF Denies, HasRoom
<1>4. UNCHANGED <<buckets, grants, reversals>>
  <2>1. buckets' = buckets
    BY <1>1, <1>2, <1>3 DEF Denies, Window, Current, TypeOK
  <2>2. reversals' = reversals
    BY <1>3 DEF Denies, NoteReversal, StartsOver
  <2>3. QED
    BY <2>1, <2>2 DEF Denies
<1>5. QED
  BY <1>2, <1>4 DEF PacedInv, CountsLimited, Paced, GrantedFrom, Older, Burst, Largest

LEMMA ResetPaced ==
  ASSUME IInv, PacedInv, NEW id \in Ids, Reset(id)
  PROVE  PacedInv'
<1>1. TypeOK
  BY DEF IInv
<1>2. buckets'[id] = [windowStart |-> 0, count |-> 0]
  BY <1>1 DEF Reset, TypeOK, NoBucket
<1>3. \A g \in grants' : g.id # id
  BY DEF Reset
<1>4. \A i \in Ids \ {id} :
          /\ buckets'[i] = buckets[i] /\ reversals'[i] = reversals[i]
          /\ {h \in grants' : h.id = i} = {h \in grants : h.id = i}
  BY <1>1 DEF Reset, TypeOK
<1>5. \A s \in Nat : Paced(id, s)'
  BY <1>2 DEF Paced
<1>6. buckets'[id].count <= Largest
  BY <1>2, LargestType
<1>7. QED
  BY <1>2, <1>3, <1>4, <1>5, <1>6, PacedSplit

LEMMA InitPaced == Init => PacedInv
<1> SUFFICES ASSUME Init PROVE PacedInv
  OBVIOUS
<1>1. \A i \in Ids : buckets[i].windowStart = 0 /\ buckets[i].count = 0
  BY DEF Init, NoBucket
<1>2. CountsLimited
  BY <1>1, LargestType DEF CountsLimited, Init
<1>3. \A i \in Ids, s \in Nat : Paced(i, s)
  BY <1>1 DEF Paced
<1>4. QED
  BY <1>2, <1>3 DEF PacedInv

LEMMA StepLimited == IInv /\ Limited /\ [Next]_vars => Limited'
<1> SUFFICES ASSUME IInv, Limited, [Next]_vars, NEW u \in Threads
             PROVE  (call[u].at = "stamped" => call[u].rpm # 0)'
  BY DEF Limited
<1>1. TypeOK
  BY DEF IInv
<1>2. ASSUME NEW t \in Threads, Apart(t) \/ Grants(t) \/ Denies(t)
      PROVE  (call[u].at = "stamped" => call[u].rpm # 0)'
  <2>1. CASE ReadClock(t)
    BY <1>1, <2>1 DEF Limited, ReadClock, TypeOK
  <2>2. CASE AllowUnlimited(t) \/ Return(t)
    BY <1>1, <2>2 DEF Limited, AllowUnlimited, Return, NoCall, TypeOK
  <2>3. CASE Grants(t) \/ Denies(t)
    <3>1. call'[t].at \in {"allowed", "denied"}
      BY <1>1, <2>3 DEF Grants, Denies, TypeOK, Call
    <3>2. u # t => call'[u] = call[u]
      BY <1>1, <2>3 DEF Grants, Denies, TypeOK
    <3>3. QED
      BY <3>1, <3>2 DEF Limited
  <2>4. QED
    BY <1>2, <2>1, <2>2, <2>3 DEF Apart
<1>3. CASE UNCHANGED call
  BY <1>3 DEF Limited
<1>4. QED
  BY <1>2, <1>3 DEF Next, Apart, Reset, SetClock, vars

LEMMA StepPaced == IInv /\ Limited /\ PacedInv /\ [Next]_vars => PacedInv'
<1> SUFFICES ASSUME IInv, Limited, PacedInv, [Next]_vars PROVE PacedInv'
  OBVIOUS
<1>0. ASSUME UNCHANGED <<buckets, grants, reversals>>
      PROVE  PacedInv'
  BY <1>0 DEF PacedInv, CountsLimited, Paced, GrantedFrom, Older, Burst, Largest
<1>1. ASSUME NEW t \in Threads, Apart(t)
      PROVE  PacedInv'
  BY <1>0, <1>1 DEF Apart, AllowUnlimited, ReadClock, Return
<1>2. ASSUME NEW t \in Threads, Grants(t) \/ Denies(t)
      PROVE  PacedInv'
  BY <1>2, GrantsPaced, DeniesPaced
<1>3. ASSUME NEW id \in Ids, Reset(id)
      PROVE  PacedInv'
  BY <1>3, ResetPaced
<1>4. CASE SetClock
  BY <1>0, <1>4 DEF SetClock
<1>5. CASE UNCHANGED vars
  BY <1>0, <1>5 DEF vars
<1>6. QED
  BY <1>1, <1>2, <1>3, <1>4, <1>5 DEF Next, Apart

\* Fewer than two windows' worth of the calls of any minute are allowed, and
\* as many again for each decision on an older instant: however many threads
\* overtake each other with instants they have read, and however the clock is
\* set (limiter.go 38-45).
THEOREM BurstsAreBounded == Spec => []BurstBounded
<1>1. ASSUME IInv, PacedInv PROVE BurstBounded
  <2> SUFFICES ASSUME NEW id \in Ids, NEW s \in 1..MaxWall
               PROVE  Cardinality(GrantedFrom(id, s)) <= (2 * Largest - 1) * (1 + reversals[id])
    BY DEF BurstBounded
  <2>1. TypeOK /\ s \in Nat /\ reversals[id] \in Nat
    BY <1>1 DEF IInv, TypeOK
  <2>2. Cardinality(GrantedFrom(id, s)) <= Older(id) + Burst
    BY <1>1, <2>1, WithinBurst
  <2>3. Older(id) + Burst = Burst * (1 + reversals[id])
    BY <2>1, BurstType DEF Older
  <2>4. QED
    BY <2>2, <2>3 DEF Burst
<1>2. Init => Limited
  BY DEF Init, Limited, NoCall
<1>3. Spec => []PacedInv
  BY <1>2, InitPaced, StepLimited, StepPaced, CountsOnlyGrants, PTL DEF Spec
<1>4. QED
  BY <1>1, <1>3, CountsOnlyGrants, PTL

================================================================================
