------------------------------- MODULE FileCells -------------------------------
(***************************************************************************)
(* What the client takes its state file and its vault file for: two cells, *)
(* each replaced as a whole.  A power loss takes both back to one earlier  *)
(* moment, together, and that moment is not before the last settled one.   *)
(*                                                                         *)
(* LocalFiles implements this.  VaultSync relies on it: its state[d] and   *)
(* vault[d] are the two cells, its saves are Replace.                      *)
(***************************************************************************)
EXTENDS Integers, Sequences

CONSTANTS
    Paths,   \* the files
    Values,  \* whole contents
    None     \* there is no such file

VARIABLE past  \* the contents, from the last that is settled to the present

Cells == [Paths -> Values \cup {None}]

Init == past = <<[x \in Paths |-> None]>>

Now == past[Len(past)]

Replace(x, v) == past' = Append(past, [Now EXCEPT ![x] = v])

Settle ==
    /\ Len(past) > 1
    /\ past' = Tail(past)

PowerLoss == past' = <<Head(past)>>

Next ==
    \/ \E x \in Paths, v \in Values : Replace(x, v)
    \/ Settle
    \/ PowerLoss

Spec == Init /\ [][Next]_past
=============================================================================
