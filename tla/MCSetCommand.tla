------------------------------ MODULE MCSetCommand ------------------------------
(***************************************************************************)
(* SetCommand on chosen command lines, with the code's own limits.         *)
(***************************************************************************)
EXTENDS SetCommand

(* A string whose bytes take f bytes each as JSON.                         *)
Str(n, f) == [raw |-> n, json |-> n * f]

MCNames == 0 .. 51

Pair(name, key, val) == [eq |-> TRUE, name |-> name, key |-> key, val |-> val]

Plain ==
    [type |-> "text", file |-> "none", fileLen |-> 0, data |-> 5, item |-> "none",
     pairs |-> <<>>, text |-> Str(0, 1), password |-> TRUE, salt |-> TRUE, token |-> TRUE]

(* Every combination of the flags, with a good and a bad --meta.           *)
FlagLines ==
    LET lists == {<<>>, <<[Pair(0, Str(1, 1), Str(1, 1)) EXCEPT !.eq = FALSE]>>}
    IN  {[type |-> t, file |-> f, fileLen |-> 9, data |-> d, item |-> i, pairs |-> m,
          text |-> Str(0, 1), password |-> p, salt |-> s, token |-> k] :
            t \in Types \cup {"other"}, f \in {"none", "unreadable", "readable"}, d \in {0, 5},
            i \in {"none", "good", "bad"}, m \in lists, p \in BOOLEAN, s \in BOOLEAN, k \in BOOLEAN}

(* Up to three --meta, keys that come again, lengths on and above limits.  *)
MetaLines ==
    LET good == {Pair(1, Str(1, 1), Str(0, 1)), Pair(1, Str(1, 1), Str(4096, 1)),
                 Pair(2, Str(64, 6), Str(3, 2)), Pair(2, Str(64, 6), Str(7, 1))}
        bad == {[Pair(3, Str(2, 1), Str(1, 1)) EXCEPT !.eq = FALSE],
                Pair(0, Str(0, 1), Str(1, 1)), Pair(3, Str(65, 1), Str(1, 1)),
                Pair(3, Str(2, 1), Str(4097, 1))}
        some == good \cup bad
    IN  {[Plain EXCEPT !.pairs = m] :
            m \in UNION {[1 .. n -> some] : n \in 0 .. 3}}

(* Many pairs, long texts and long contents.                               *)
SizeLines ==
    LET list(n, val, f) == [k \in 1 .. n |-> Pair(k, Str(64, f), Str(val, f))]
        lists == {list(n, 4096, f) : n \in {0, 1, 50, 51}, f \in {1, 6}}
                    \cup {list(2, ArgMax, 6)}
        texts == {Str(0, 1), Str(ArgMax, 1), Str(ArgMax, 6)}
    IN  {[Plain EXCEPT !.pairs = m, !.text = s, !.type = t, !.data = d] :
            m \in lists, s \in texts, t \in Types \ {"binary"}, d \in {1, ArgMax}}
        \cup
        {[Plain EXCEPT !.pairs = m, !.text = s, !.type = "binary", !.data = 0,
                       !.file = "readable", !.fileLen = n] :
            m \in lists, s \in texts,
            n \in {0, 243000, 243297, 243298, 1769361, 1769362, 10000000}}

MCLines == FlagLines \cup MetaLines \cup SizeLines
=============================================================================
