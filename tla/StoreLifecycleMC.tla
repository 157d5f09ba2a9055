---------------------------- MODULE StoreLifecycleMC ----------------------------
(***************************************************************************)
(* Small instances of StoreLifecycle.                                      *)
(***************************************************************************)
EXTENDS StoreLifecycle, TLC

================================================================================
