------------------------------- MODULE RateLimiter -------------------------------
(***************************************************************************)
(* The requests-per-minute limiter of internal/policy/limiter.go: a fixed  *)
(* window per key, shared by the host's request threads.                   *)
(*                                                                         *)
(* Allow reads the wall clock BEFORE it takes the limiter's lock, and      *)
(* time.Now().UTC() carries no monotonic reading.  So a decision may be    *)
(* taken on an instant older than the window it is applied to, because     *)
(* the thread was overtaken or because the wall clock was set back.        *)
(***************************************************************************)
EXTENDS Integers, FiniteSets

CONSTANTS
    Ids,            \* key ids
    Threads,        \* request threads
    Rpms,           \* the limits keys may carry, 0 is no limit
    Minute,         \* time.Minute, in instants
    MaxWall,        \* bound of the wall clock
    MaxGrants       \* bound of the calls allowed

ASSUME RpmAssumption == Rpms \subseteq Nat /\ IsFiniteSet(Rpms) /\ Rpms \ {0} # {}
ASSUME MinuteAssumption == Minute \in Nat \ {0}
ASSUME BoundAssumption == MaxWall \in Nat /\ MaxGrants \in Nat

VARIABLES
    wall,           \* the wall clock; it starts at 1, 0 is Go's zero time
    buckets,        \* l.buckets; an id without a bucket has windowStart 0
    call,           \* what each thread does
    grants,         \* history: the calls allowed since the id's last Reset
    reversals       \* history: how often since then a window was turned back

vars == <<wall, buckets, call, grants, reversals>>

Bucket == [windowStart : Nat, count : Nat]

NoBucket == [windowStart |-> 0, count |-> 0]

NoCall == [at |-> "idle"]

Call == [at : {"idle"}]
        \cup [at : {"stamped", "allowed", "denied"}, id : Ids, rpm : Rpms, stamp : Nat \ {0}]

\* A call allowed: for which id, on what instant, the how-manieth of those.
Grant == [id : Ids, stamp : Nat \ {0}, nth : Nat \ {0}]

TypeOK ==
    /\ wall \in Nat \ {0}
    /\ buckets \in [Ids -> Bucket]
    /\ call \in [Threads -> Call]
    /\ grants \in SUBSET Grant /\ IsFiniteSet(grants)
    /\ reversals \in [Ids -> Nat]

Init ==
    /\ wall = 1
    /\ buckets = [i \in Ids |-> NoBucket]
    /\ call = [t \in Threads |-> NoCall]
    /\ grants = {}
    /\ reversals = [i \in Ids |-> 0]

--------------------------------------------------------------------------------
(* The window.                                                               *)

\* Mutant of StartsOver: a window that lies ahead is kept.
StartsOverOnlyForward(bucket, now) ==
    \/ bucket.windowStart = 0
    \/ now >= bucket.windowStart + Minute

\* The window has to start over for a call at instant now.
StartsOver(bucket, now) ==
    \/ bucket.windowStart = 0
    \/ now >= bucket.windowStart + Minute
    \/ now < bucket.windowStart

Current(bucket, now) ==
    IF StartsOver(bucket, now) THEN [windowStart |-> now, count |-> 0] ELSE bucket

\* Mutant of HasRoom: the limit is checked after the call is counted.
HasRoomForOneMore(bucket, rpm) == bucket.count <= rpm

HasRoom(bucket, rpm) == bucket.count < rpm

--------------------------------------------------------------------------------
(* Allow.                                                                    *)

\* A key without a limit: neither the clock nor the window is looked at.
AllowUnlimited(t) ==
    /\ call[t].at = "idle"
    /\ \E id \in Ids, rpm \in Rpms \cap {0} :
          call' = [call EXCEPT ![t] = [at |-> "allowed", id |-> id, rpm |-> rpm,
                                       stamp |-> wall]]
    /\ UNCHANGED <<wall, buckets, grants, reversals>>

\* Up to the lock: the limit was read with the key, the clock is read now.
ReadClock(t) ==
    /\ call[t].at = "idle"
    /\ \E id \in Ids, rpm \in Rpms \ {0} :
          call' = [call EXCEPT ![t] = [at |-> "stamped", id |-> id, rpm |-> rpm,
                                       stamp |-> wall]]
    /\ UNCHANGED <<wall, buckets, grants, reversals>>

\* The window a call is decided in.
Window(t) == Current(buckets[call[t].id], call[t].stamp)

\* History of a decision that turns the window back.
NoteReversal(t) ==
    reversals' = IF call[t].stamp < buckets[call[t].id].windowStart
                 THEN [reversals EXCEPT ![call[t].id] = @ + 1]
                 ELSE reversals

\* History of a call that is allowed.
NoteGrant(t) ==
    LET same == {g \in grants : g.id = call[t].id /\ g.stamp = call[t].stamp}
    IN  grants' = grants \cup {[id |-> call[t].id, stamp |-> call[t].stamp,
                                nth |-> Cardinality(same) + 1]}

Grants(t) ==
    /\ call[t].at = "stamped"
    /\ Cardinality(grants) < MaxGrants
    /\ HasRoom(Window(t), call[t].rpm)
    /\ buckets' = [buckets EXCEPT ![call[t].id] =
                      [windowStart |-> Window(t).windowStart, count |-> Window(t).count + 1]]
    /\ call' = [call EXCEPT ![t].at = "allowed"]
    /\ NoteGrant(t)
    /\ NoteReversal(t)
    /\ UNCHANGED wall

\* A window that started over is kept even so.
Denies(t) ==
    /\ call[t].at = "stamped"
    /\ ~HasRoom(Window(t), call[t].rpm)
    /\ buckets' = [buckets EXCEPT ![call[t].id] = Window(t)]
    /\ call' = [call EXCEPT ![t].at = "denied"]
    /\ NoteReversal(t)
    /\ UNCHANGED <<wall, grants>>

Return(t) ==
    /\ call[t].at \in {"allowed", "denied"}
    /\ call' = [call EXCEPT ![t] = NoCall]
    /\ UNCHANGED <<wall, buckets, grants, reversals>>

\* Mutant of Reset: one call is taken back instead of the window forgotten.
ResetCountOnly(id) ==
    /\ buckets' = [buckets EXCEPT ![id].count = @ - 1]
    /\ UNCHANGED <<wall, call, grants, reversals>>

\* Reset, called by ResetRPM, DeleteKey and RotateKey.
Reset(id) ==
    /\ buckets' = [buckets EXCEPT ![id] = NoBucket]
    /\ grants' = {g \in grants : g.id # id}
    /\ reversals' = [reversals EXCEPT ![id] = 0]
    /\ UNCHANGED <<wall, call>>

\* The wall clock runs, and may be set.
SetClock ==
    /\ wall' \in 1..MaxWall
    /\ wall' # wall
    /\ UNCHANGED <<buckets, call, grants, reversals>>

Next ==
    \/ \E t \in Threads : \/ AllowUnlimited(t) \/ ReadClock(t)
                          \/ Grants(t) \/ Denies(t) \/ Return(t)
    \/ \E id \in Ids : Reset(id)
    \/ SetClock

Spec == Init /\ [][Next]_vars

--------------------------------------------------------------------------------
(* Properties.                                                               *)

\* The calls allowed on id whose instant lies less than a minute from s.
GrantedNear(id, s) ==
    {g \in grants : g.id = id /\ g.stamp < s + Minute /\ s < g.stamp + Minute}

\* A call is denied only if as many calls as its key may make were allowed on
\* instants less than a minute from its own, since the last reset: a window
\* that ran out, or that lies ahead of a clock set back, denies nobody
\* (limiter.go 42-48).
DenialJustified ==
    [][\A t \in Threads :
          call[t].at = "stamped" /\ call'[t].at = "denied" =>
              Cardinality(GrantedNear(call[t].id, call[t].stamp)) >= call[t].rpm]_vars

Largest == CHOOSE n \in Rpms : \A m \in Rpms : m <= n

GrantedFrom(id, s) == {g \in grants : g.id = id /\ g.stamp >= s /\ g.stamp < s + Minute}

\* Of the calls stamped within any one minute, fewer than two windows' worth
\* are allowed, and as many again each time a decision on an older instant
\* turned the window back (limiter.go 38-45).
BurstBounded ==
    \A id \in Ids, s \in 1..MaxWall :
        Cardinality(GrantedFrom(id, s)) <= (2 * Largest - 1) * (1 + reversals[id])

================================================================================
