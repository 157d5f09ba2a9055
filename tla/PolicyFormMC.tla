------------------------------ MODULE PolicyFormMC ------------------------------
(***************************************************************************)
(* A small instance of PolicyForm.                                         *)
(***************************************************************************)
EXTENDS PolicyForm, TLC

================================================================================
