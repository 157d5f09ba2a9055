-------------------------------- MODULE KeyStoreMC --------------------------------
(***************************************************************************)
(* Small instances of KeyStore.                                            *)
(***************************************************************************)
EXTENDS KeyStore, TLC

OneKey == {1}
TwoKeys == {1, 2}

Symmetry ==
    Permutations(Secrets) \cup Permutations(Patches) \cup Permutations(Plans) \cup Permutations(Policies)

================================================================================
