-------------------------------- MODULE KeyListMC --------------------------------
(***************************************************************************)
(* Small instances of KeyList.                                             *)
(***************************************************************************)
EXTENDS KeyList

Symmetry == Permutations(Ids)

================================================================================
