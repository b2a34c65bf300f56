----------------------------- MODULE MCVaultSync ------------------------------
(***************************************************************************)
(* VaultSync on small instances.  Devices, items, users and the slots of a *)
(* device are interchangeable.                                             *)
(***************************************************************************)
EXTENDS VaultSync, TLC

Symmetry ==
    Permutations(Devices) \cup Permutations(Items)
        \cup Permutations(Users) \cup Permutations(Slots)
=============================================================================
