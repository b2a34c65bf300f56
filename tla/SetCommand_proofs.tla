--------------------------- MODULE SetCommand_proofs ---------------------------
(***************************************************************************)
(* The limits of set.go and the server's limit of a body agree, and what   *)
(* is sent is what was meant, for every command line, not only for those   *)
(* tried.                                                                  *)
(*                                                                         *)
(* An entry of the map takes at most six bytes as JSON for each of its raw *)
(* ones, so what the loop has counted is bounded by the entries it has     *)
(* seen; the rest is arithmetic.  After each pair the map has the last of  *)
(* each name so far, in the size that was counted.                         *)
(***************************************************************************)
EXTENDS SetCommand, TLAPS, FiniteSetTheorems, WellFoundedInduction

(* 6 * MaxKeyLen + 6 * MaxValueLen + 6                                     *)
MaxEntryLen == 24966

Bounded == metaLen <= (next - 1) * MaxEntryLen

Counted ==
    /\ pc \in {"meta", "send"} => Len(line.pairs) <= MaxPairs
    /\ pc \in {"type", "data", "id", "count"} => next = 1
    /\ pc \in {"data", "id", "count", "meta", "send"} => line.type \in Types

EntriesShort ==
    \A n \in DOMAIN meta : EntryLen(meta[n]) \in Nat /\ EntryLen(meta[n]) <= MaxEntryLen

IInv == TypeOK /\ Bounded /\ Counted /\ EntriesShort /\ LimitsAgree

-----------------------------------------------------------------------------

LEMMA ArgMaxIs == ArgMax \in Nat /\ ArgMax <= 131071
BY DEF ArgMax

LEMMA EntryBounded ==
    ASSUME NEW p \in Pairs, PairCheck(p) = "ok"
    PROVE  EntryLen(p) \in Nat /\ EntryLen(p) <= MaxEntryLen
<1>1. p.key \in Sizes /\ p.val \in Sizes
  BY DEF Pairs
<1>2. /\ p.key.raw \in Nat /\ p.key.json \in Nat /\ p.key.json <= 6 * p.key.raw
      /\ p.val.raw \in Nat /\ p.val.json \in Nat /\ p.val.json <= 6 * p.val.raw
  BY <1>1 DEF Sizes
<1>3. p.key.raw <= 64 /\ p.val.raw <= 4096
  BY <1>2 DEF PairCheck, MaxKeyLen, MaxValueLen
<1> QED BY <1>2, <1>3 DEF EntryLen, MaxEntryLen

LEMMA Base64Bounds ==
    ASSUME NEW n \in Int
    PROVE  Base64(n) \in Int /\ 3 * Base64(n) <= 4 * n + 8
<1> DEFINE q == (n + 2) \div 3
<1>1. q \in Int /\ 3 * q <= n + 2
  OBVIOUS
<1>2. Base64(n) = 4 * q
  BY DEF Base64
<1> HIDE DEF q
<1> QED BY <1>1, <1>2

(* A body of at most fifty entries of metadata and 243,000 bytes fits.     *)
LEMMA BodyFits ==
    ASSUME NEW type \in Types, NEW map \in Int, NEW text \in Nat, NEW content \in Nat,
           map <= MaxPairs * MaxEntryLen, text <= 6 * ArgMax, content <= 243000
    PROVE  LET body == BodyLen(type, EnvelopeLen(type, map, text, content))
           IN  body \in Int /\ body <= MaxBodyJSON
<1> DEFINE envelope == EnvelopeLen(type, map, text, content)
<1>1. TypeLen(type) \in 4 .. 10
  BY DEF TypeLen, Types
<1>2. Base64(content) \in Int /\ 3 * Base64(content) <= 4 * content + 8
  BY Base64Bounds
<1>3. envelope \in Int /\ envelope <= 62 + 1248300 + 786426 + 324003
  <2>1. (IF map = 0 THEN 0 ELSE map + 9) \in Int
        /\ (IF map = 0 THEN 0 ELSE map + 9) <= 1248309
    BY DEF MaxPairs, MaxEntryLen
  <2>2. (IF text = 0 THEN 0 ELSE text + 15) \in Int
        /\ (IF text = 0 THEN 0 ELSE text + 15) <= 786441
    BY DEF ArgMax
  <2>3. (IF content = 0 THEN 0 ELSE Base64(content) + 10) \in Int
        /\ (IF content = 0 THEN 0 ELSE Base64(content) + 10) <= 324013
    BY <1>2
  <2> QED BY <1>1, <2>1, <2>2, <2>3 DEF EnvelopeLen
<1> HIDE DEF envelope
<1>4. Base64(envelope + 16) \in Int /\ 3 * Base64(envelope + 16) <= 4 * (envelope + 16) + 8
  <2>1. envelope + 16 \in Int
    BY <1>3
  <2> QED BY <2>1, Base64Bounds
<1>5. Base64(37 + TypeLen(type)) \in Int /\ 3 * Base64(37 + TypeLen(type)) <= 196
  <2>1. 37 + TypeLen(type) \in Int
    BY <1>1
  <2> QED BY <1>1, <2>1, Base64Bounds
<1>6. BodyLen(type, envelope) \in Int /\ BodyLen(type, envelope) <= MaxBodyJSON
  BY <1>1, <1>3, <1>4, <1>5 DEF BodyLen, MaxBodyJSON
<1> QED BY <1>6 DEF envelope

-----------------------------------------------------------------------------

LEMMA Initially == Init => IInv
<1> SUFFICES ASSUME Init
             PROVE  IInv
  OBVIOUS
<1>1. line \in CommandLines
  BY LinesAssumption DEF Init
<1>2. line.pairs \in Seq(Pairs)
  BY <1>1 DEF CommandLines
<1>3. TypeOK
  BY <1>1, <1>2 DEF Init, TypeOK, Outcomes
<1>4. Bounded /\ Counted /\ EntriesShort /\ LimitsAgree
  BY DEF Init, Bounded, Counted, EntriesShort, LimitsAgree, MaxEntryLen
<1> QED BY <1>3, <1>4 DEF IInv

(* The steps before and after the loop leave what it counts alone.         *)
LEMMA OtherSteps ==
    ASSUME IInv, UNCHANGED <<line, next, meta, metaLen>>,
           pc' \in {"data", "id", "count", "meta", "send", "done"}, outcome' \in Outcomes,
           Counted', LimitsAgree'
    PROVE  IInv'
<1>1. TypeOK'
  BY DEF IInv, TypeOK
<1>2. Bounded' /\ EntriesShort'
  BY DEF IInv, Bounded, EntriesShort
<1> QED BY <1>1, <1>2 DEF IInv

LEMMA LoopStep == IInv /\ ParsePair => IInv'
<1> SUFFICES ASSUME IInv, ParsePair
             PROVE  IInv'
  OBVIOUS
<1> DEFINE p == line.pairs[next]
<1>1. line' = line /\ pc = "meta" /\ next' = next + 1 /\ next <= Len(line.pairs)
      /\ line.pairs \in Seq(Pairs) /\ next \in Nat /\ next >= 1
  BY DEF ParsePair, IInv, TypeOK, CommandLines
<1>2. p \in Pairs
  BY <1>1
<1>3. next' \in 1 .. Len(line'.pairs) + 1
  BY <1>1
<1>4. /\ pc' \in {"meta", "done"}
      /\ (outcome' \in Outcomes /\ outcome' # "too_large") \/ outcome' = outcome
  BY DEF ParsePair, Check, Finish, PairCheck, Outcomes, IInv, TypeOK
<1>5. CASE PairCheck(p) = "ok"
  <2>1. /\ meta' = [n \in DOMAIN meta \cup {p.name} |-> IF n = p.name THEN p ELSE meta[n]]
        /\ metaLen' = metaLen + EntryLen(p)
                        - (IF p.name \in DOMAIN meta THEN EntryLen(meta[p.name]) ELSE 0)
        /\ pc' = "meta" /\ outcome' = outcome
    BY <1>5 DEF ParsePair, Check
  <2>2. EntryLen(p) \in Nat /\ EntryLen(p) <= MaxEntryLen
    BY <1>2, <1>5, EntryBounded
  <2>3. p.name \in DOMAIN meta =>
          EntryLen(meta[p.name]) \in Nat /\ EntryLen(meta[p.name]) <= MaxEntryLen
    BY DEF IInv, EntriesShort
  <2>4. metaLen' \in Int /\ metaLen' <= metaLen + MaxEntryLen
    <3>1. metaLen \in Int /\ MaxEntryLen \in Nat
      BY DEF IInv, TypeOK, MaxEntryLen
    <3>2. CASE p.name \in DOMAIN meta
      <4>1. metaLen' = metaLen + EntryLen(p) - EntryLen(meta[p.name])
        BY <2>1, <3>2
      <4> QED BY <2>2, <2>3, <3>1, <3>2, <4>1
    <3>3. CASE p.name \notin DOMAIN meta
      <4>1. metaLen' = metaLen + EntryLen(p) - 0
        BY <2>1, <3>3
      <4> QED BY <2>2, <3>1, <4>1
    <3> QED BY <3>2, <3>3
  <2>5. Bounded'
    BY <1>1, <2>4 DEF IInv, TypeOK, Bounded, MaxEntryLen
  <2>6. EntriesShort'
    <3> SUFFICES ASSUME NEW n \in DOMAIN meta'
                 PROVE  EntryLen(meta'[n]) \in Nat /\ EntryLen(meta'[n]) <= MaxEntryLen
      BY DEF EntriesShort
    <3>1. CASE n = p.name
      BY <2>1, <2>2, <3>1
    <3>2. CASE n # p.name
      <4>1. n \in DOMAIN meta /\ meta'[n] = meta[n]
        BY <2>1, <3>2
      <4> QED BY <4>1 DEF IInv, EntriesShort
    <3> QED BY <3>1, <3>2
  <2>7. p.name \in Names
    BY <1>2 DEF Pairs
  <2>8. TypeOK'
    <3>1. DOMAIN meta' \subseteq Names
      BY <2>1, <2>7 DEF IInv, TypeOK
    <3>2. ASSUME NEW n \in DOMAIN meta' PROVE meta'[n] \in Pairs
      BY <1>2, <2>1 DEF IInv, TypeOK
    <3> QED BY <1>1, <1>3, <1>4, <2>1, <2>4, <3>1, <3>2 DEF IInv, TypeOK
  <2>9. Counted' /\ LimitsAgree'
    BY <1>1, <2>1 DEF IInv, Counted, LimitsAgree
  <2> QED BY <2>5, <2>6, <2>8, <2>9 DEF IInv
<1>6. CASE PairCheck(p) # "ok"
  <2>1. UNCHANGED <<meta, metaLen>> /\ pc' = "done" /\ outcome' = PairCheck(p)
    BY <1>6 DEF ParsePair, Check, Finish
  <2>2. outcome' # "too_large"
    BY <2>1 DEF PairCheck
  <2>3. TypeOK'
    BY <1>1, <1>3, <1>4, <2>1 DEF IInv, TypeOK
  <2>4. Bounded'
    BY <1>1, <2>1 DEF IInv, TypeOK, Bounded, MaxEntryLen
  <2>5. EntriesShort' /\ Counted' /\ LimitsAgree'
    BY <2>1, <2>2 DEF IInv, EntriesShort, Counted, LimitsAgree
  <2> QED BY <2>3, <2>4, <2>5 DEF IInv
<1> QED BY <1>5, <1>6

LEMMA Fits ==
    ASSUME IInv, pc = "send", ~ (line.type = "binary" /\ line.fileLen > 243000)
    PROVE  ~ (Sent > MaxBodyJSON)
<1>1. line \in CommandLines /\ line.type \in Types /\ Len(line.pairs) <= 50
  BY DEF IInv, TypeOK, Counted, MaxPairs
<1>2. line.text \in Sizes /\ line.fileLen \in Nat /\ line.data \in 0 .. ArgMax
      /\ line.pairs \in Seq(Pairs)
  BY <1>1 DEF CommandLines
<1>3. line.text.json \in Nat /\ line.text.json <= 6 * ArgMax
  BY <1>2, ArgMaxIs DEF Sizes
<1>4. Content(line) \in Nat /\ Content(line) <= 243000
  <2>1. line.data \in Nat /\ line.data <= 243000
    BY <1>2, ArgMaxIs
  <2>2. line.type # "binary" \/ line.fileLen <= 243000
    BY <1>2
  <2> QED BY <1>2, <2>1, <2>2 DEF Content
<1>5. metaLen \in Int /\ metaLen <= MaxPairs * MaxEntryLen
  <2>1. next \in 1 .. Len(line.pairs) + 1 /\ Len(line.pairs) \in Nat
    BY <1>2 DEF IInv, TypeOK
  <2>2. next - 1 <= 50 /\ next - 1 \in Nat
    BY <1>1, <2>1
  <2>3. metaLen \in Int /\ metaLen <= (next - 1) * MaxEntryLen
    BY DEF IInv, TypeOK, Bounded
  <2> QED BY <2>2, <2>3 DEF MaxPairs, MaxEntryLen
<1>6. Sent \in Int /\ Sent <= MaxBodyJSON
  BY <1>1, <1>3, <1>4, <1>5, BodyFits DEF Sent
<1>7. MaxBodyJSON \in Int
  BY DEF MaxBodyJSON
<1> QED BY <1>6, <1>7

LEMMA Inductive == IInv /\ [Next]_vars => IInv'
<1> SUFFICES ASSUME IInv, [Next]_vars
             PROVE  IInv'
  OBVIOUS
<1>1. CASE CheckType
  BY <1>1, OtherSteps DEF CheckType, Check, Finish, IInv, Counted, LimitsAgree, Outcomes, TypeOK
<1>2. CASE GetData
  <2>1. DataCheck(line) \in Outcomes \cup {"ok"} /\ DataCheck(line) # "too_large"
    BY DEF DataCheck, Outcomes
  <2> QED
    BY <1>2, <2>1, OtherSteps DEF GetData, Check, Finish, IInv, Counted, LimitsAgree, TypeOK
<1>3. CASE Uuid
  BY <1>3, OtherSteps DEF Uuid, Check, Finish, IInv, Counted, LimitsAgree, Outcomes, TypeOK
<1>4. CASE CountPairs
  <2>1. Len(line.pairs) \in Nat
    BY DEF IInv, TypeOK, CommandLines
  <2> QED
    BY <1>4, <2>1, OtherSteps
    DEF CountPairs, Check, Finish, IInv, Counted, LimitsAgree, Outcomes, TypeOK, MaxPairs
<1>5. CASE ParsePair
  BY <1>5, LoopStep
<1>6. CASE Seal
  BY <1>6, OtherSteps DEF Seal, Check, Finish, IInv, Counted, LimitsAgree, Outcomes, TypeOK
<1>7. CASE Send
  BY <1>7, OtherSteps, Fits DEF Send, Finish, IInv, Counted, LimitsAgree, Outcomes, TypeOK
<1>8. CASE UNCHANGED vars
  BY <1>8 DEF vars, IInv, TypeOK, Bounded, Counted, EntriesShort, LimitsAgree
<1> QED BY <1>1, <1>2, <1>3, <1>4, <1>5, <1>6, <1>7, <1>8 DEF Next

LEMMA Always == Spec => []IInv
BY Initially, Inductive, PTL DEF Spec

(* The variables of a set keep their types, whatever the command line.     *)
THEOREM TypeCorrect == Spec => []TypeOK
<1>1. IInv => TypeOK
  BY DEF IInv
<1> QED BY <1>1, Always, PTL

(* No item given on the command line, and no file of 243,000 bytes, is     *)
(* turned away for its size.                                               *)
THEOREM NeverTooLarge == Spec => []LimitsAgree
<1>1. IInv => LimitsAgree
  BY DEF IInv
<1> QED BY <1>1, Always, PTL

-----------------------------------------------------------------------------
(* Sums over finite sets.  Induction is by a least counterexample, which   *)
(* the well-founded order of the naturals gives.                           *)

Less == {ss \in Nat \X Nat : ss[1] < ss[2]}

LEMMA LeastNumber ==
    ASSUME NEW T, T \subseteq Nat, T # {}
    PROVE  \E n \in T : \A m \in T : n <= m
<1>1. IsWellFoundedOn(Less, Nat)
  BY NatLessThanWellFounded DEF OpToRel, Less
<1>2. PICK n \in T : \A m \in T : ~ (<<m, n>> \in Less)
  BY <1>1, WFMin
<1>3. \A m \in T : ~ (m < n)
  BY <1>2 DEF Less
<1> QED BY <1>3

(* Every subset of a finite set is in G, if a subset is that G has without *)
(* any one of its elements.                                                *)
LEMMA SubsetInduction ==
    ASSUME NEW S, IsFiniteSet(S), NEW G, {} \in G,
           \A s \in SUBSET S : s # {} /\ (\A x \in s : s \ {x} \in G) => s \in G
    PROVE  \A s \in SUBSET S : s \in G
<1> DEFINE bad == {s \in SUBSET S : s \notin G}
           sizes == {Cardinality(s) : s \in bad}
<1>1. \A s \in SUBSET S : IsFiniteSet(s) /\ Cardinality(s) \in Nat
  BY FS_Subset, FS_CardinalityType
<1> SUFFICES ASSUME bad # {} PROVE FALSE
  OBVIOUS
<1>2. sizes \subseteq Nat /\ sizes # {}
  BY <1>1
<1>3. PICK n \in sizes : \A m \in sizes : n <= m
  BY <1>2, LeastNumber
<1>4. PICK s \in bad : Cardinality(s) = n
  OBVIOUS
<1>5. s \in SUBSET S /\ s # {}
  OBVIOUS
<1>6. ASSUME NEW x \in s PROVE s \ {x} \in G
  <2>1. s \ {x} \in SUBSET S /\ Cardinality(s \ {x}) = n - 1 /\ n \in Nat
    BY <1>1, <1>4, <1>5, FS_RemoveElement
  <2>2. ~ (n <= n - 1)
    BY <2>1
  <2>3. s \ {x} \notin bad
    BY <1>3, <2>1, <2>2
  <2> QED BY <2>1, <2>3
<1> QED BY <1>5, <1>6

(* g[s] is the sum of the weights w of the elements of s.                  *)
IsSum(g, w, S) ==
    /\ g \in [SUBSET S -> Int]
    /\ g[{}] = 0
    /\ \A s \in SUBSET S : \A x \in s : g[s] = w[x] + g[s \ {x}]

LEMMA SumExists ==
    ASSUME NEW S, IsFiniteSet(S), NEW w, \A x \in S : w[x] \in Int
    PROVE  \E g : IsSum(g, w, S)
<1> DEFINE G == {s \in SUBSET S : \E g : IsSum(g, w, s)}
<1>1. {} \in G
  <2> DEFINE g == [s \in SUBSET {} |-> 0]
  <2>1. IsSum(g, w, {})
    BY DEF IsSum
  <2> QED BY <2>1
<1>2. ASSUME NEW s \in SUBSET S, s # {}, \A x \in s : s \ {x} \in G
      PROVE  s \in G
  <2>1. PICK y : y \in s
    BY <1>2
  <2>2. PICK g : IsSum(g, w, s \ {y})
    BY <1>2, <2>1
  <2> DEFINE h == [t \in SUBSET s |-> IF y \in t THEN w[y] + g[t \ {y}] ELSE g[t]]
  <2>3. ASSUME NEW t \in SUBSET s PROVE t \ {y} \in SUBSET (s \ {y})
    OBVIOUS
  <2>4. w[y] \in Int /\ \A t \in SUBSET (s \ {y}) : g[t] \in Int
    BY <2>1, <2>2 DEF IsSum
  <2>5. h \in [SUBSET s -> Int]
    <3>1. ASSUME NEW t \in SUBSET s PROVE h[t] \in Int
      <4>1. CASE y \in t
        BY <2>3, <2>4, <4>1
      <4>2. CASE y \notin t
        BY <2>4, <4>2
      <4> QED BY <4>1, <4>2
    <3> QED BY <3>1
  <2>6. h[{}] = 0
    BY <2>2 DEF IsSum
  <2>7. ASSUME NEW t \in SUBSET s, NEW x \in t PROVE h[t] = w[x] + h[t \ {x}]
    <3>1. CASE x = y
      <4>1. h[t] = w[y] + g[t \ {y}] /\ h[t \ {x}] = g[t \ {y}]
        BY <3>1
      <4> QED BY <3>1, <4>1
    <3>2. CASE x # y /\ y \in t
      <4>1. h[t] = w[y] + g[t \ {y}] /\ h[t \ {x}] = w[y] + g[(t \ {x}) \ {y}]
        BY <3>2
      <4>2. (t \ {x}) \ {y} = (t \ {y}) \ {x}
        OBVIOUS
      <4>3. g[t \ {y}] = w[x] + g[(t \ {y}) \ {x}]
        BY <2>2, <2>3, <3>2 DEF IsSum
      <4>4. w[x] \in Int /\ g[(t \ {y}) \ {x}] \in Int
        BY <2>3, <2>4
      <4>5. h[t \ {x}] = w[y] + g[(t \ {y}) \ {x}]
        BY <4>1, <4>2
      <4>6. w[y] + (w[x] + g[(t \ {y}) \ {x}]) = w[x] + (w[y] + g[(t \ {y}) \ {x}])
        BY <2>4, <4>4
      <4> HIDE DEF h
      <4> QED BY <4>1, <4>3, <4>5, <4>6
    <3>3. CASE y \notin t
      <4>1. t \in SUBSET (s \ {y}) /\ h[t] = g[t] /\ h[t \ {x}] = g[t \ {x}]
        BY <3>3
      <4>2. g[t] = w[x] + g[t \ {x}]
        BY <2>2, <4>1 DEF IsSum
      <4> HIDE DEF h
      <4> QED BY <4>1, <4>2
    <3> QED BY <3>1, <3>2, <3>3
  <2> HIDE DEF h
  <2>8. IsSum(h, w, s)
    BY <2>5, <2>6, <2>7 DEF IsSum
  <2> QED BY <2>8
<1> HIDE DEF G
<1>3. \A s \in SUBSET S : s # {} /\ (\A x \in s : s \ {x} \in G) => s \in G
  BY <1>2
<1>4. \A s \in SUBSET S : s \in G
  BY <1>1, <1>3, SubsetInduction
<1> QED BY <1>4 DEF G

(* Sums of the same weights are the same.                                  *)
LEMMA SumsAgree ==
    ASSUME NEW S, NEW T, NEW R, IsFiniteSet(R), R \subseteq S, R \subseteq T,
           NEW w, NEW v, \A x \in R : w[x] = v[x],
           NEW g, IsSum(g, w, S), NEW h, IsSum(h, v, T)
    PROVE  g[R] = h[R]
<1> DEFINE G == {s \in SUBSET R : g[s] = h[s]}
<1>1. {} \in G
  BY DEF IsSum
<1>2. ASSUME NEW s \in SUBSET R, s # {}, \A x \in s : s \ {x} \in G
      PROVE  s \in G
  <2>1. PICK x : x \in s
    BY <1>2
  <2>2. g[s] = w[x] + g[s \ {x}] /\ h[s] = v[x] + h[s \ {x}]
    BY <2>1 DEF IsSum
  <2>3. g[s \ {x}] = h[s \ {x}] /\ w[x] = v[x]
    BY <1>2, <2>1
  <2> QED BY <2>2, <2>3
<1> HIDE DEF G
<1>3. \A s \in SUBSET R : s # {} /\ (\A x \in s : s \ {x} \in G) => s \in G
  BY <1>2
<1>4. \A s \in SUBSET R : s \in G
  BY <1>1, <1>3, SubsetInduction
<1> QED BY <1>4 DEF G

(* What the library's fold computes is the sum, in whatever order.         *)
Weights(map) == [n \in DOMAIN map |-> EntryLen(map[n])]

LEMMA FoldIsSum ==
    ASSUME NEW map, IsFiniteSet(DOMAIN map), NEW g, IsSum(g, Weights(map), DOMAIN map)
    PROVE  Total(map) = g[DOMAIN map]
<1> DEFINE S == DOMAIN map
           one(s) == CHOOSE x \in s : TRUE
           iter == CHOOSE f : f = [s \in SUBSET S |->
                        IF s = {} THEN 0 ELSE EntryLen(map[one(s)]) + f[s \ {one(s)}]]
<1>1. Total(map) = iter[S]
  BY DEF Total, MapThenSumSet, MapThenFoldSet
<1>2. ASSUME NEW s \in SUBSET S, s # {} PROVE one(s) \in s /\ one(s) \in S
  BY <1>2
<1>3. g = [s \in SUBSET S |-> IF s = {} THEN 0 ELSE EntryLen(map[one(s)]) + g[s \ {one(s)}]]
  <2>1. ASSUME NEW s \in SUBSET S, s # {} PROVE g[s] = EntryLen(map[one(s)]) + g[s \ {one(s)}]
    <3> HIDE DEF one
    <3> QED BY <1>2, <2>1 DEF IsSum, Weights
  <2> HIDE DEF one
  <2> QED BY <2>1 DEF IsSum
<1>4. iter = [s \in SUBSET S |-> IF s = {} THEN 0 ELSE EntryLen(map[one(s)]) + iter[s \ {one(s)}]]
  BY <1>3
<1> HIDE DEF iter
<1> DEFINE G == {s \in SUBSET S : iter[s] = g[s]}
<1>5. {} \in G
  BY <1>4 DEF IsSum
<1>6. ASSUME NEW s \in SUBSET S, s # {}, \A x \in s : s \ {x} \in G
      PROVE  s \in G
  <2>1. iter[s] = EntryLen(map[one(s)]) + iter[s \ {one(s)}]
    BY <1>4, <1>6
  <2>2. g[s] = EntryLen(map[one(s)]) + g[s \ {one(s)}]
    BY <1>3, <1>6
  <2>3. iter[s \ {one(s)}] = g[s \ {one(s)}]
    BY <1>2, <1>6
  <2> QED BY <2>1, <2>2, <2>3
<1> HIDE DEF G
<1>7. S \in G
  BY <1>5, <1>6, SubsetInduction
<1> QED BY <1>1, <1>7 DEF G

(* An entry more, or another entry under its name, is an entry's length    *)
(* more, less the length of the one it replaces.                           *)
LEMMA SumAdds ==
    ASSUME NEW map, IsFiniteSet(DOMAIN map), NEW y, NEW p,
           \A n \in DOMAIN map : EntryLen(map[n]) \in Int, EntryLen(p) \in Int
    PROVE  LET new == [n \in DOMAIN map \cup {y} |-> IF n = y THEN p ELSE map[n]]
           IN  /\ IsFiniteSet(DOMAIN new)
               /\ Total(new) = Total(map) + EntryLen(p)
                                - (IF y \in DOMAIN map THEN EntryLen(map[y]) ELSE 0)
<1> DEFINE new == [n \in DOMAIN map \cup {y} |-> IF n = y THEN p ELSE map[n]]
           rest == DOMAIN map \ {y}
<1>1. /\ DOMAIN new = DOMAIN map \cup {y} /\ new[y] = p
      /\ \A n \in rest : new[n] = map[n]
  OBVIOUS
<1>2. IsFiniteSet(DOMAIN new) /\ IsFiniteSet(rest)
  BY <1>1, FS_AddElement, FS_RemoveElement
<1>3. \A n \in DOMAIN new : EntryLen(new[n]) \in Int
  OBVIOUS
<1> HIDE DEF new
<1>4. PICK g : IsSum(g, Weights(map), DOMAIN map)
  <2>1. \A n \in DOMAIN map : Weights(map)[n] \in Int
    BY DEF Weights
  <2> QED BY <2>1, SumExists
<1>5. PICK h : IsSum(h, Weights(new), DOMAIN new)
  <2>1. \A n \in DOMAIN new : Weights(new)[n] \in Int
    BY <1>3 DEF Weights
  <2> QED BY <1>2, <2>1, SumExists
<1>6. Total(map) = g[DOMAIN map] /\ Total(new) = h[DOMAIN new]
  BY <1>2, <1>4, <1>5, FoldIsSum
<1>7. g[rest] = h[rest] /\ g[rest] \in Int
  <2>1. rest \subseteq DOMAIN map /\ rest \subseteq DOMAIN new
    BY <1>1
  <2>2. \A n \in rest : Weights(map)[n] = Weights(new)[n]
    BY <1>1, <2>1 DEF Weights
  <2>3. g[rest] = h[rest]
    <3> DEFINE S == DOMAIN map
               T == DOMAIN new
               w == Weights(map)
               v == Weights(new)
    <3>1. IsFiniteSet(rest) /\ rest \subseteq S /\ rest \subseteq T
      BY <1>2, <2>1
    <3>2. IsSum(g, w, S) /\ IsSum(h, v, T) /\ \A n \in rest : w[n] = v[n]
      BY <1>4, <1>5, <2>2
    <3> HIDE DEF rest, S, T, w, v
    <3> QED BY <3>1, <3>2, SumsAgree
  <2>4. g[rest] \in Int
    BY <1>4, <2>1 DEF IsSum
  <2> QED BY <2>3, <2>4
<1>8. h[DOMAIN new] = EntryLen(p) + h[rest]
  <2>1. y \in DOMAIN new /\ DOMAIN new \ {y} = rest
    BY <1>1
  <2>2. Weights(new)[y] = EntryLen(p)
    BY <1>1, <2>1 DEF Weights
  <2> QED BY <1>5, <2>1, <2>2 DEF IsSum
<1>9. CASE y \in DOMAIN map
  <2>1. Weights(map)[y] = EntryLen(map[y]) /\ EntryLen(map[y]) \in Int
    BY <1>9 DEF Weights
  <2>2. g[DOMAIN map] = EntryLen(map[y]) + g[rest]
    BY <1>4, <1>9, <2>1 DEF IsSum
  <2>3. Total(new) = Total(map) + EntryLen(p) - EntryLen(map[y])
    BY <1>6, <1>7, <1>8, <2>1, <2>2
  <2> QED BY <1>2, <1>9, <2>3 DEF new
<1>10. CASE y \notin DOMAIN map
  <2>1. rest = DOMAIN map
    BY <1>10
  <2>2. Total(new) = Total(map) + EntryLen(p) - 0
    BY <1>6, <1>7, <1>8, <2>1
  <2> QED BY <1>2, <1>10, <2>2 DEF new
<1> QED BY <1>9, <1>10

LEMMA SumOfNone ==
    ASSUME NEW map, DOMAIN map = {}
    PROVE  IsFiniteSet(DOMAIN map) /\ Total(map) = 0
<1>1. IsFiniteSet(DOMAIN map)
  BY FS_EmptySet
<1>2. PICK g : IsSum(g, Weights(map), DOMAIN map)
  BY <1>1, SumExists
<1>3. Total(map) = g[{}]
  BY <1>1, <1>2, FoldIsSum
<1> QED BY <1>1, <1>2, <1>3 DEF IsSum

-----------------------------------------------------------------------------
(* What the checks passed so far say of the command line.                  *)

(* After m of l's pairs the map has, for each name so far, the last pair.  *)
LastWins(l, m, map) ==
    /\ map = [n \in {l.pairs[k].name : k \in 1 .. m} |-> map[n]]
    /\ \A n \in DOMAIN map : \E k \in 1 .. m :
        /\ l.pairs[k].name = n /\ map[n] = l.pairs[k]
        /\ \A j \in 1 .. m : l.pairs[j].name = n => j <= k

Meaning ==
    /\ IsFiniteSet(DOMAIN meta) /\ metaLen = Total(meta)
    /\ pc \in {"type", "data", "id", "count", "meta"} =>
        /\ LastWins(line, next - 1, meta)
        /\ \A k \in 1 .. next - 1 : PairCheck(line.pairs[k]) = "ok"
    /\ pc \in {"id", "count", "meta"} => DataCheck(line) = "ok"
    /\ pc \in {"count", "meta"} => line.item # "bad"

MInv == IInv /\ Meaning /\ SentIsMeant

Sending == {"unauthorized", "too_large", "accepted"}

(* The checks, one after the other, are what it is to describe an item.    *)
LEMMA ChecksDescribe ==
    ASSUME NEW l \in CommandLines
    PROVE  Describes(l) <=>
            /\ l.type \in Types /\ DataCheck(l) = "ok" /\ l.item # "bad"
            /\ Len(l.pairs) <= MaxPairs
            /\ \A k \in 1 .. Len(l.pairs) : PairCheck(l.pairs[k]) = "ok"
            /\ l.password /\ l.salt /\ l.token
<1>1. /\ l.file \in {"none", "unreadable", "readable"} /\ l.data \in Nat
      /\ l.pairs \in Seq(Pairs) /\ DOMAIN l.pairs = 1 .. Len(l.pairs)
  <2>1. l.data \in 0 .. ArgMax
    BY DEF CommandLines
  <2>2. l.data \in Nat
    BY <2>1, ArgMaxIs
  <2> QED BY <2>2 DEF CommandLines
<1>2. /\ l.type \in Types /\ DataCheck(l) = "ok"
      <=> \/ l.type = "binary" /\ l.file = "readable" /\ l.data = 0
          \/ l.type \in Types \ {"binary"} /\ l.file = "none" /\ l.data > 0
  BY <1>1 DEF DataCheck, Types
<1>3. ASSUME NEW k \in 1 .. Len(l.pairs)
      PROVE  PairCheck(l.pairs[k]) = "ok" <=>
                /\ l.pairs[k].eq
                /\ l.pairs[k].key.raw \in 1 .. MaxKeyLen
                /\ l.pairs[k].val.raw <= MaxValueLen
  <2>1. l.pairs[k] \in Pairs
    BY <1>1
  <2>2. l.pairs[k].key.raw \in Nat /\ l.pairs[k].val.raw \in Nat
    <3>1. l.pairs[k].key \in Sizes /\ l.pairs[k].val \in Sizes
      BY <2>1 DEF Pairs
    <3> QED BY <3>1, ArgMaxIs DEF Sizes
  <2> DEFINE p == l.pairs[k]
             key == p.key.raw
             val == p.val.raw
  <2>3. key \in Nat /\ val \in Nat /\ p.eq \in BOOLEAN
    BY <2>1, <2>2 DEF Pairs
  <2>4. PairCheck(p) = "ok" <=> p.eq /\ key # 0 /\ ~ (key > MaxKeyLen) /\ ~ (val > MaxValueLen)
    BY <2>3 DEF PairCheck
  <2> HIDE DEF key, val
  <2>5. /\ key # 0 /\ ~ (key > MaxKeyLen) <=> key \in 1 .. MaxKeyLen
        /\ ~ (val > MaxValueLen) <=> val <= MaxValueLen
    BY <2>3 DEF MaxKeyLen, MaxValueLen
  <2> QED BY <2>4, <2>5 DEF key, val
<1> QED BY <1>1, <1>2, <1>3 DEF Describes

(* After the last pair, the last of each name is what the line means.      *)
LEMMA LastIsMeant ==
    ASSUME NEW l \in CommandLines, NEW map, LastWins(l, Len(l.pairs), map)
    PROVE  map = Meant(l)
<1>1. l.pairs \in Seq(Pairs) /\ DOMAIN l.pairs = 1 .. Len(l.pairs)
  BY DEF CommandLines
<1> DEFINE names == {l.pairs[k].name : k \in DOMAIN l.pairs}
           Named(n) == {k \in DOMAIN l.pairs : l.pairs[k].name = n}
<1>2. map = [n \in names |-> map[n]] /\ DOMAIN map = names
  BY <1>1 DEF LastWins
<1>3. ASSUME NEW n \in names PROVE map[n] = l.pairs[Max(Named(n))]
  <2>1. PICK k \in DOMAIN l.pairs :
            /\ l.pairs[k].name = n /\ map[n] = l.pairs[k]
            /\ \A j \in DOMAIN l.pairs : l.pairs[j].name = n => j <= k
    BY <1>1, <1>2 DEF LastWins
  <2>2. k \in Named(n) /\ \A j \in Named(n) : k >= j
    BY <1>1, <2>1
  <2>3. ASSUME NEW i \in Named(n), \A j \in Named(n) : i >= j PROVE i = k
    <3>1. i >= k /\ k >= i /\ i \in Int /\ k \in Int
      BY <1>1, <2>2, <2>3
    <3> QED BY <3>1
  <2>4. Max(Named(n)) = k
    BY <2>2, <2>3 DEF Max
  <2> QED BY <2>1, <2>4
<1>4. Meant(l) = [n \in names |-> l.pairs[Max(Named(n))]]
  BY DEF Meant
<1> QED BY <1>2, <1>3, <1>4

-----------------------------------------------------------------------------

LEMMA Nothing ==
    ASSUME NEW l, NEW map, map = <<>>
    PROVE  LastWins(l, 0, map) /\ IsFiniteSet(DOMAIN map) /\ Total(map) = 0
<1>1. DOMAIN map = {} /\ map = [n \in {} |-> map[n]]
  OBVIOUS
<1>2. {l.pairs[k].name : k \in 1 .. 0} = {}
  OBVIOUS
<1> QED BY <1>1, <1>2, SumOfNone DEF LastWins

LEMMA MeantAtFirst == Init => MInv
<1> SUFFICES ASSUME Init
             PROVE  Meaning /\ SentIsMeant
  BY Initially DEF MInv
<1>1. Meaning
  BY Nothing DEF Init, Meaning
<1> QED BY <1>1 DEF Init, SentIsMeant

(* A check that fails ends the command for a line that describes nothing.  *)
LEMMA Stops ==
    ASSUME Meaning, UNCHANGED <<line, meta, metaLen>>, pc' = "done",
           outcome' \notin Sending, ~ Describes(line)
    PROVE  Meaning' /\ SentIsMeant'
<1>1. Meaning'
  BY DEF Meaning
<1>2. SentIsMeant'
  BY DEF SentIsMeant, Sending
<1> QED BY <1>1, <1>2

(* A check that passes has been made.                                      *)
LEMMA GoesOn ==
    ASSUME Meaning, UNCHANGED <<line, next, meta, metaLen>>,
           pc \in {"type", "data", "id", "count", "meta"}, pc' \in {"data", "id", "count", "meta"},
           pc' # "data" => DataCheck(line) = "ok",
           pc' \in {"count", "meta"} => line.item # "bad"
    PROVE  Meaning' /\ SentIsMeant'
<1>1. Meaning'
  BY DEF Meaning
<1>2. SentIsMeant'
  BY DEF SentIsMeant
<1> QED BY <1>1, <1>2

(* The loop replaces what it had under the pair's name.                    *)
LEMMA LoopMeans == MInv /\ ParsePair => Meaning' /\ SentIsMeant'
<1> SUFFICES ASSUME MInv, ParsePair
             PROVE  Meaning' /\ SentIsMeant'
  OBVIOUS
<1> DEFINE p == line.pairs[next]
<1>1. /\ line' = line /\ pc = "meta" /\ next' = next + 1 /\ next \in 1 .. Len(line.pairs)
      /\ line \in CommandLines /\ line.pairs \in Seq(Pairs) /\ Len(line.pairs) \in Nat
  BY DEF ParsePair, MInv, IInv, TypeOK, CommandLines
<1>2. p \in Pairs
  BY <1>1
<1>3. /\ IsFiniteSet(DOMAIN meta) /\ metaLen = Total(meta)
      /\ LastWins(line, next - 1, meta)
      /\ \A k \in 1 .. next - 1 : PairCheck(line.pairs[k]) = "ok"
      /\ DataCheck(line) = "ok" /\ line.item # "bad"
  BY <1>1 DEF MInv, Meaning
<1>4. CASE PairCheck(p) = "ok"
  <2>1. /\ meta' = [n \in DOMAIN meta \cup {p.name} |-> IF n = p.name THEN p ELSE meta[n]]
        /\ metaLen' = metaLen + EntryLen(p)
                        - (IF p.name \in DOMAIN meta THEN EntryLen(meta[p.name]) ELSE 0)
        /\ pc' = "meta"
    BY <1>4 DEF ParsePair, Check
  <2>2. EntryLen(p) \in Int /\ \A n \in DOMAIN meta : EntryLen(meta[n]) \in Int
    <3>1. EntryLen(p) \in Int
      BY <1>2, <1>4, EntryBounded
    <3> QED BY <3>1 DEF MInv, IInv, EntriesShort
  <2>3. IsFiniteSet(DOMAIN meta') /\ metaLen' = Total(meta')
    <3> HIDE DEF p
    <3> QED BY <1>3, <2>1, <2>2, SumAdds
  <2>4. \A k \in 1 .. next : PairCheck(line.pairs[k]) = "ok"
    BY <1>1, <1>3, <1>4
  <2>5. LastWins(line, next, meta')
    <3>1. DOMAIN meta' = {line.pairs[k].name : k \in 1 .. next}
      <4>1. DOMAIN meta = {line.pairs[k].name : k \in 1 .. next - 1}
        BY <1>3 DEF LastWins
      <4>2. 1 .. next = (1 .. next - 1) \cup {next}
        BY <1>1
      <4> QED BY <2>1, <4>1, <4>2
    <3>2. meta' = [n \in DOMAIN meta' |-> meta'[n]]
      BY <2>1
    <3>3. ASSUME NEW n \in DOMAIN meta'
          PROVE  \E k \in 1 .. next :
                    /\ line.pairs[k].name = n /\ meta'[n] = line.pairs[k]
                    /\ \A j \in 1 .. next : line.pairs[j].name = n => j <= k
      <4>1. CASE n = p.name
        <5>1. /\ next \in 1 .. next /\ line.pairs[next].name = n /\ meta'[n] = line.pairs[next]
              /\ \A j \in 1 .. next : j <= next
          BY <1>1, <2>1, <4>1
        <5> QED BY <5>1
      <4>2. CASE n # p.name
        <5>1. n \in DOMAIN meta /\ meta'[n] = meta[n]
          BY <2>1, <4>2
        <5>2. PICK k \in 1 .. next - 1 :
                    /\ line.pairs[k].name = n /\ meta[n] = line.pairs[k]
                    /\ \A j \in 1 .. next - 1 : line.pairs[j].name = n => j <= k
          BY <1>3, <5>1 DEF LastWins
        <5>3. k \in 1 .. next /\ \A j \in 1 .. next : j \in 1 .. next - 1 \/ j = next
          BY <1>1
        <5> QED BY <4>2, <5>1, <5>2, <5>3
      <4> QED BY <4>1, <4>2
    <3> QED BY <3>1, <3>2, <3>3 DEF LastWins
  <2>6. next' - 1 = next
    BY <1>1
  <2>7. Meaning'
    BY <1>1, <1>3, <2>1, <2>3, <2>4, <2>5, <2>6 DEF Meaning
  <2>8. SentIsMeant'
    BY <2>1 DEF SentIsMeant
  <2> QED BY <2>7, <2>8
<1>5. CASE PairCheck(p) # "ok"
  <2>1. UNCHANGED <<meta, metaLen>> /\ pc' = "done" /\ outcome' = PairCheck(p)
    BY <1>5 DEF ParsePair, Check, Finish
  <2>2. PairCheck(p) \notin Sending
    BY DEF PairCheck, Sending
  <2>3. ~ Describes(line)
    BY <1>1, <1>5, ChecksDescribe
  <2> HIDE DEF p
  <2> QED BY <1>1, <2>1, <2>2, <2>3, Stops DEF MInv
<1> QED BY <1>4, <1>5

(* What goes out has passed every check, and is what the line means.       *)
LEMMA SealMeans == MInv /\ Seal => Meaning' /\ SentIsMeant'
<1> SUFFICES ASSUME MInv, Seal
             PROVE  Meaning' /\ SentIsMeant'
  OBVIOUS
<1>1. /\ UNCHANGED <<line, next, meta, metaLen>> /\ pc = "meta" /\ next > Len(line.pairs)
      /\ line \in CommandLines /\ line.pairs \in Seq(Pairs) /\ Len(line.pairs) \in Nat
      /\ next \in 1 .. Len(line.pairs) + 1
  BY DEF Seal, MInv, IInv, TypeOK, CommandLines
<1>2. next - 1 = Len(line.pairs)
  BY <1>1
<1>3. /\ IsFiniteSet(DOMAIN meta) /\ metaLen = Total(meta)
      /\ LastWins(line, Len(line.pairs), meta)
      /\ \A k \in 1 .. Len(line.pairs) : PairCheck(line.pairs[k]) = "ok"
      /\ DataCheck(line) = "ok" /\ line.item # "bad"
  BY <1>1, <1>2 DEF MInv, Meaning
<1>4. line.type \in Types /\ Len(line.pairs) <= MaxPairs
  BY <1>1 DEF MInv, IInv, Counted
<1>5. CASE line.password /\ line.salt /\ line.token
  <2>1. pc' = "send"
    BY <1>5 DEF Seal, Check
  <2>2. Describes(line)
    BY <1>1, <1>3, <1>4, <1>5, ChecksDescribe
  <2>3. meta = Meant(line)
    BY <1>1, <1>3, LastIsMeant
  <2>4. Meaning'
    BY <1>1, <1>3, <2>1 DEF Meaning
  <2>5. SentIsMeant'
    BY <1>1, <1>3, <2>1, <2>2, <2>3 DEF SentIsMeant
  <2> QED BY <2>4, <2>5
<1>6. CASE ~ (line.password /\ line.salt /\ line.token)
  <2>1. pc' = "done" /\ outcome' \in {"no_password", "no_key", "no_token"}
    BY <1>6 DEF Seal, Check, Finish
  <2>2. ~ Describes(line) /\ outcome' \notin Sending
    BY <1>6, <2>1 DEF Describes, Sending
  <2> QED BY <1>1, <2>1, <2>2, Stops DEF MInv
<1> QED BY <1>5, <1>6

LEMMA Means == MInv /\ [Next]_vars => MInv'
<1> SUFFICES ASSUME MInv, [Next]_vars
             PROVE  Meaning' /\ SentIsMeant'
  BY Inductive DEF MInv
<1>1. line \in CommandLines
  BY DEF MInv, IInv, TypeOK
<1>2. CASE CheckType
  <2>1. CASE line.type \in Types
    <3>1. pc = "type" /\ pc' = "data" /\ UNCHANGED <<line, next, meta, metaLen>>
      BY <1>2, <2>1 DEF CheckType, Check
    <3> QED BY <3>1, GoesOn DEF MInv
  <2>2. CASE line.type \notin Types
    <3>1. /\ UNCHANGED <<line, meta, metaLen>> /\ pc' = "done" /\ outcome' = "unsupported"
          /\ ~ Describes(line)
      BY <1>2, <2>2 DEF CheckType, Check, Finish, Describes, Types
    <3> QED BY <3>1, Stops DEF MInv, Sending
  <2> QED BY <2>1, <2>2
<1>3. CASE GetData
  <2>1. CASE DataCheck(line) = "ok"
    <3>1. pc = "data" /\ pc' = "id" /\ UNCHANGED <<line, next, meta, metaLen>>
      BY <1>3, <2>1 DEF GetData, Check
    <3> QED BY <2>1, <3>1, GoesOn DEF MInv
  <2>2. CASE DataCheck(line) # "ok"
    <3>1. UNCHANGED <<line, meta, metaLen>> /\ pc' = "done" /\ outcome' = DataCheck(line)
      BY <1>3, <2>2 DEF GetData, Check, Finish
    <3>2. DataCheck(line) \notin Sending
      BY DEF DataCheck, Sending
    <3>3. ~ Describes(line)
      BY <1>1, <2>2, ChecksDescribe
    <3> QED BY <3>1, <3>2, <3>3, Stops DEF MInv
  <2> QED BY <2>1, <2>2
<1>4. CASE Uuid
  <2>1. pc = "id" /\ DataCheck(line) = "ok" /\ UNCHANGED <<line, next, meta, metaLen>>
    BY <1>4 DEF Uuid, MInv, Meaning
  <2>2. CASE line.item # "bad"
    <3>1. pc' = "count"
      BY <1>4, <2>2 DEF Uuid, Check
    <3> QED BY <2>1, <2>2, <3>1, GoesOn DEF MInv
  <2>3. CASE line.item = "bad"
    <3>1. pc' = "done" /\ outcome' = "bad_id" /\ ~ Describes(line)
      BY <1>4, <2>3 DEF Uuid, Check, Finish, Describes
    <3> QED BY <2>1, <3>1, Stops DEF MInv, Sending
  <2> QED BY <2>2, <2>3
<1>5. CASE CountPairs
  <2>1. /\ pc = "count" /\ DataCheck(line) = "ok" /\ line.item # "bad"
        /\ UNCHANGED <<line, next, meta, metaLen>>
    BY <1>5 DEF CountPairs, MInv, Meaning
  <2>2. CASE ~ (Len(line.pairs) > MaxPairs)
    <3>1. pc' = "meta"
      BY <1>5, <2>2 DEF CountPairs, Check
    <3> QED BY <2>1, <3>1, GoesOn DEF MInv
  <2>3. CASE Len(line.pairs) > MaxPairs
    <3>1. pc' = "done" /\ outcome' = "too_many"
      BY <1>5, <2>3 DEF CountPairs, Check, Finish
    <3>2. ~ Describes(line)
      <4>1. Len(line.pairs) \in Nat
        BY <1>1 DEF CommandLines
      <4> QED BY <2>3, <4>1 DEF Describes, MaxPairs
    <3> QED BY <2>1, <3>1, <3>2, Stops DEF MInv, Sending
  <2> QED BY <2>2, <2>3
<1>6. CASE ParsePair
  BY <1>6, LoopMeans
<1>7. CASE Seal
  BY <1>7, SealMeans
<1>8. CASE Send
  <2>1. /\ UNCHANGED <<line, next, meta, metaLen>> /\ pc = "send" /\ pc' = "done"
        /\ outcome' \in Sending
    BY <1>8 DEF Send, Finish, Sending
  <2>2. Meaning'
    BY <2>1 DEF MInv, Meaning
  <2>3. SentIsMeant'
    BY <2>1 DEF MInv, SentIsMeant, Sending
  <2> QED BY <2>2, <2>3
<1>9. CASE UNCHANGED vars
  BY <1>9 DEF vars, MInv, Meaning, SentIsMeant
<1> QED BY <1>2, <1>3, <1>4, <1>5, <1>6, <1>7, <1>8, <1>9 DEF Next

(* A request goes out for exactly the command lines that describe an item, *)
(* with the metadata they mean, in the size it was counted with: for every *)
(* number of pairs, in every order, however often a key comes again.       *)
THEOREM SentAsMeant == Spec => []SentIsMeant
<1>1. Spec => []MInv
  BY MeantAtFirst, Means, PTL DEF Spec
<1>2. MInv => SentIsMeant
  BY DEF MInv
<1> QED BY <1>1, <1>2, PTL
=============================================================================
