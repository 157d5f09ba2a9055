------------------------------ MODULE DurableUsage ------------------------------
(***************************************************************************)
(* What the store promises about budgets, with no ledger, no locks and no  *)
(* threads: one durable usage state per key that grows by whole charges,   *)
(* starts over as its windows elapse, and is cleared only by a reset of    *)
(* every key or because the key's deletion was asked for.  A background    *)
(* flush, a crash and a restart are invisible here.                        *)
(***************************************************************************)
EXTENDS UsageWindows

CONSTANTS Keys, MaxCost

VARIABLES
    now, day,
    usage,      \* the durable usage state of each key
    retired     \* keys whose deletion was asked for and whose usage may go

vars == <<now, day, usage, retired>>

Init ==
    /\ now = 1
    /\ day = 1
    /\ usage = [k \in Keys |-> NoUsage]
    /\ retired = {}

Tick ==
    /\ now' = now + 1
    /\ day' \in {day, day + 1}
    /\ UNCHANGED <<usage, retired>>

\* A charge lands whole, at an instant that is not in the future.  On a key
\* being retired it may find the old usage already gone.
Charge(k) ==
    /\ \E cost \in 0..MaxCost, n \in 1..now, d \in 1..day,
          old \in {usage[k]} \cup {u \in {NoUsage} : k \in retired} :
          usage' = [usage EXCEPT ![k] = AddCost(old, cost, [now |-> n, day |-> d])]
    /\ retired' = retired \ {k}
    /\ UNCHANGED <<now, day>>

ResetAll ==
    /\ usage' = [k \in Keys |-> NoUsage]
    /\ retired' = {}
    /\ UNCHANGED <<now, day>>

Retire(k) ==
    /\ retired' = retired \cup {k}
    /\ UNCHANGED <<now, day, usage>>

\* The usage of retired keys goes, and of no other key.
Purge ==
    /\ usage' = [k \in Keys |-> IF k \in retired THEN NoUsage ELSE usage[k]]
    /\ retired' = {}
    /\ UNCHANGED <<now, day>>

\* A deletion that never reached the disk is undone by a restart.
Reprieve ==
    /\ retired' = {}
    /\ UNCHANGED <<now, day, usage>>

Next ==
    \/ Tick
    \/ \E k \in Keys : Charge(k) \/ Retire(k)
    \/ ResetAll
    \/ Purge
    \/ Reprieve

Spec == Init /\ [][Next]_vars

================================================================================
