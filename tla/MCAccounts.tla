----------------------------- MODULE MCAccounts ------------------------------
(***************************************************************************)
(* Accounts on small instances.  Requests and logins are interchangeable.  *)
(***************************************************************************)
EXTENDS Accounts, TLC

Symmetry == Permutations(Reqs) \cup Permutations(Logins)
=============================================================================
