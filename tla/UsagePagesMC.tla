------------------------------ MODULE UsagePagesMC ------------------------------
(***************************************************************************)
(* A small instance of UsagePages.                                         *)
(***************************************************************************)
EXTENDS UsagePages, TLC

================================================================================
