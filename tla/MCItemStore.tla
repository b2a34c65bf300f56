----------------------------- MODULE MCItemStore -----------------------------
(***************************************************************************)
(* ItemStore on small instances.  Requests are interchangeable, and so are *)
(* items and the users that have an account.                               *)
(***************************************************************************)
EXTENDS ItemStore, TLC

Symmetry == Permutations(Reqs) \cup Permutations(Items) \cup Permutations(Accounts)

(* A configuration file cannot spell a negative number.                    *)
SmallSinces == {-1, 0}
=============================================================================
