------------------------------ MODULE UsageStoreMC ------------------------------
(***************************************************************************)
(* Small instances of UsageStore.                                          *)
(***************************************************************************)
EXTENDS UsageStore, TLC

DailyLimitOnly == [daily |-> 1, weekly |-> 0]
BothLimits == [daily |-> 1, weekly |-> 2]

Symmetry == Permutations(Requests)

================================================================================
