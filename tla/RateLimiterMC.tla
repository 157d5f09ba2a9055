------------------------------ MODULE RateLimiterMC ------------------------------
(***************************************************************************)
(* Small instances of RateLimiter.                                         *)
(***************************************************************************)
EXTENDS RateLimiter, TLC

Symmetry == Permutations(Threads)

================================================================================
