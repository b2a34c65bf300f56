------------------------------ MODULE MCAuthGate -------------------------------
(***************************************************************************)
(* AuthGate on small instances.                                            *)
(***************************************************************************)
EXTENDS AuthGate, TLC

Symmetry == Permutations(Users) \cup Permutations(Devices) \cup Permutations(Slots)
=============================================================================
