---------------------------- MODULE LegacyMigrationMC ----------------------------
(***************************************************************************)
(* Small instances of LegacyMigration.                                     *)
(***************************************************************************)
EXTENDS LegacyMigration, TLC

Symmetry == Permutations(Runs)

================================================================================
