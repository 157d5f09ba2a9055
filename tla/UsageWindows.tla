------------------------------ MODULE UsageWindows ------------------------------
(***************************************************************************)
(* The budget windows of internal/policy/usage.go.  A key's usage has a    *)
(* daily window that starts over at UTC midnight and a weekly window that  *)
(* starts over with the first charge seven or more days after its start.   *)
(*                                                                         *)
(* Time is a pair: `now' counts instants and `day' numbers the UTC days.   *)
(* Both start at 1, so 0 is free to stand for Go's zero time.Time.  A key  *)
(* without an entry in the ledger is a key whose windows never started.    *)
(***************************************************************************)
EXTENDS Naturals

CONSTANT WeekLen        \* weekWindow, in instants

ASSUME WeekLenAssumption == WeekLen \in Nat \ {0}

Windows == {"daily", "weekly"}

Instants == [now : Nat \ {0}, day : Nat \ {0}]

UsageWindow == [start : Nat, total : Nat]

UsageState == [Windows -> UsageWindow]

NoUsage == [w \in Windows |-> [start |-> 0, total |-> 0]]

\* Where a window that starts over at instant t begins.
StartAt(w, t) == IF w = "daily" THEN t.day ELSE t.now

\* The window has to start over at instant t: it never started, or its day
\* is not t's day, or it is a week old.
Elapsed(w, win, t) ==
    \/ win.start = 0
    \/ w = "daily"  /\ win.start # t.day
    \/ w = "weekly" /\ t.now >= win.start + WeekLen

CurrentWindow(w, win, t) ==
    IF Elapsed(w, win, t) THEN [start |-> StartAt(w, t), total |-> 0] ELSE win

\* applyCostLocked: both windows are brought up to date, then charged.
AddCost(usage, cost, t) ==
    [w \in Windows |->
        [CurrentWindow(w, usage[w], t) EXCEPT !.total = @ + cost]]

\* What Summary reports for a window at instant t; reading changes nothing.
TotalAt(usage, w, t) == CurrentWindow(w, usage[w], t).total

\* Mutant of OverLimit: a total equal to the limit is still within it.
OverLimitStrict(usage, limit, t) ==
    \E w \in Windows : limit[w] > 0 /\ TotalAt(usage, w, t) > limit[w]

\* A limit of zero is no limit; a total equal to the limit is over it.
OverLimit(usage, limit, t) ==
    \E w \in Windows : limit[w] > 0 /\ TotalAt(usage, w, t) >= limit[w]

================================================================================
