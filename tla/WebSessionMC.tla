------------------------------ MODULE WebSessionMC ------------------------------
(***************************************************************************)
(* Small instances of WebSession.                                          *)
(***************************************************************************)
EXTENDS WebSession, TLC

================================================================================
