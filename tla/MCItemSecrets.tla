----------------------------- MODULE MCItemSecrets -----------------------------
(***************************************************************************)
(* ItemSecrets on small instances.                                         *)
(***************************************************************************)
EXTENDS ItemSecrets, TLC

Symmetry == Permutations(Users) \cup Permutations(Devices) \cup Permutations(Passwords)
=============================================================================
