--------------------------- MODULE LocalFiles_proofs ---------------------------
(***************************************************************************)
(* LocalFiles implements FileCells, for any commands and any number of     *)
(* them at a time: whatever stops and whenever power is lost, the state    *)
(* and the vault are whole files of one earlier moment.                    *)
(*                                                                         *)
(* The inductive invariant says whose a temporary file is (one writer's,   *)
(* and under no name) and how much of it is written at which step.         *)
(*                                                                         *)
(* The second part is the order of the two saves: if one command at a time *)
(* saves, and saves the vault first, the state is never ahead of it.       *)
(***************************************************************************)
EXTENDS LocalFiles, TLAPS

Writing == {"write", "more", "sync", "rename"}

TempInv(p) ==
    /\ pc[p] # "idle" => todo[p] # <<>>
    /\ pc[p] \in Writing => temp[p] # 0
    /\ pc[p] \notin Writing => temp[p] = 0
    /\ temp[p] # 0 =>
        /\ \A q \in Procs : temp[q] = temp[p] => q = p
        /\ \A q \in Procs : opened[q] # temp[p]
        /\ \A k \in 1 .. Len(past), x \in Paths : past[k][x] # temp[p]
    /\ pc[p] = "sync" => cached[temp[p]] = "whole"
    /\ pc[p] = "rename" => Whole(temp[p])

IInv == TypeOK /\ NeverTorn /\ \A p \in Procs : TempInv(p)

-----------------------------------------------------------------------------
(* Sequences.                                                              *)

LEMMA PastFacts ==
    ASSUME NEW S, NEW s \in Seq(S), s # <<>>
    PROVE  /\ Len(s) \in Nat /\ Len(s) > 0 /\ s[Len(s)] \in S /\ Head(s) \in S /\ Head(s) = s[1]
           /\ <<Head(s)>> \in Seq(S) /\ <<Head(s)>> # <<>> /\ Len(<<Head(s)>>) = 1
           /\ \A k \in 1 .. Len(<<Head(s)>>) : <<Head(s)>>[k] = s[1]
           /\ Len(s) > 1 => /\ Tail(s) \in Seq(S) /\ Tail(s) # <<>>
                            /\ \A k \in 1 .. Len(Tail(s)) : k + 1 \in 1 .. Len(s) /\ Tail(s)[k] = s[k + 1]
           /\ \A e \in S : /\ Append(s, e) \in Seq(S) /\ Append(s, e) # <<>>
                           /\ \A k \in 1 .. Len(Append(s, e)) :
                                \/ k \in 1 .. Len(s) /\ Append(s, e)[k] = s[k]
                                \/ Append(s, e)[k] = e
<1>1. Len(s) \in Nat /\ Len(s) > 0 /\ s[Len(s)] \in S /\ Head(s) \in S /\ Head(s) = s[1]
  OBVIOUS
<1>2. /\ <<Head(s)>> \in Seq(S) /\ <<Head(s)>> # <<>> /\ Len(<<Head(s)>>) = 1
      /\ \A k \in 1 .. Len(<<Head(s)>>) : <<Head(s)>>[k] = s[1]
  BY <1>1
<1>3. ASSUME Len(s) > 1
      PROVE  /\ Tail(s) \in Seq(S) /\ Tail(s) # <<>>
             /\ \A k \in 1 .. Len(Tail(s)) : k + 1 \in 1 .. Len(s) /\ Tail(s)[k] = s[k + 1]
  BY <1>3
<1>4. ASSUME NEW e \in S
      PROVE  /\ Append(s, e) \in Seq(S) /\ Append(s, e) # <<>>
             /\ \A k \in 1 .. Len(Append(s, e)) :
                    \/ k \in 1 .. Len(s) /\ Append(s, e)[k] = s[k]
                    \/ Append(s, e)[k] = e
  BY <1>4
<1> QED BY <1>1, <1>2, <1>3, <1>4

LEMMA OpFacts ==
    ASSUME NEW s \in Seq(Ops), s # <<>>
    PROVE  /\ Head(s) \in Ops /\ Head(s).path \in Paths /\ Head(s).rev \in Sources
           /\ Tail(s) \in Seq(Ops) /\ Len(s) \in Nat /\ Len(s) > 0
           /\ Len(s) # 1 => Tail(s) # <<>>
<1>1. Head(s) \in Ops /\ Tail(s) \in Seq(Ops) /\ Len(s) \in Nat /\ Len(s) > 0
  OBVIOUS
<1>2. Len(s) > 1 => Tail(s) # <<>>
  BY PastFacts
<1>3. Head(s).path \in Paths /\ Head(s).rev \in Sources
  BY <1>1 DEF Ops
<1>4. Len(s) # 1 => Len(s) > 1
  <2>1. \A n \in Nat : n > 0 /\ n # 1 => n > 1
    OBVIOUS
  <2>2. Len(s) \in Nat /\ Len(s) > 0
    BY PastFacts
  <2> QED BY ONLY <2>1, <2>2
<1> QED BY <1>1, <1>2, <1>3, <1>4

(* A directory seen from one that knows more files.                        *)
LEMMA MoreFiles ==
    ASSUME NEW m \in Nat, NEW n \in Nat, m =< n, NEW s \in Seq([Paths -> 0 .. m])
    PROVE  s \in Seq([Paths -> 0 .. n])
<1>1. \A k \in 1 .. Len(s) : s[k] \in [Paths -> 0 .. n]
  OBVIOUS
<1> QED BY <1>1

LEMMA BoundFacts ==
    ASSUME TypeOK
    PROVE  /\ MaxFiles \in Nat /\ MaxRev \in Nat /\ made \in Nat /\ made =< MaxFiles
           /\ \A f \in 1 .. made : f \in Files
           /\ NoFiles \in [Paths -> 0 .. made] /\ NoFiles \in [Paths -> 0 .. MaxRev]
           /\ Now \in [Paths -> 0 .. made]
           /\ \A k \in 1 .. Len(past) : past[k] \in [Paths -> 0 .. made]
           /\ \A f \in 0 .. made : RevOf(f) \in 0 .. MaxRev
<1>1. MaxFiles \in Nat /\ MaxRev \in Nat /\ made \in Nat /\ made =< MaxFiles
  BY BoundsAssumption DEF TypeOK
<1>2. \A f \in 1 .. made : f \in Files
  BY <1>1 DEF Files
<1>3. \A f \in 0 .. made : RevOf(f) \in 0 .. MaxRev
  BY <1>1, <1>2 DEF RevOf, TypeOK
<1>4. Now \in [Paths -> 0 .. made] /\ \A k \in 1 .. Len(past) : past[k] \in [Paths -> 0 .. made]
  BY PastFacts DEF TypeOK, Now
<1> QED BY <1>1, <1>2, <1>3, <1>4 DEF NoFiles

LEMMA SavedRevType ==
    ASSUME TypeOK, NEW p \in Procs, todo[p] # <<>>
    PROVE  SavedRev(p) \in 0 .. MaxRev
<1>1. Head(todo[p]).path \in Paths /\ Head(todo[p]).rev \in Sources
  BY OpFacts DEF TypeOK
<1>2. seen[p] \in [Paths -> 0 .. MaxRev] /\ answer[p] \in 0 .. MaxRev /\ MaxRev \in Nat
  BY BoundFacts DEF TypeOK
<1>3. CASE Head(todo[p]).rev = "zero"
  BY <1>2, <1>3 DEF SavedRev
<1>4. CASE Head(todo[p]).rev = "kept"
  BY <1>1, <1>2, <1>4 DEF SavedRev
<1>5. CASE Head(todo[p]).rev = "answer"
  BY <1>1, <1>2, <1>5 DEF SavedRev, Paths
<1> QED BY <1>1, <1>3, <1>4, <1>5 DEF Sources

LEMMA TypeInit == Init => IInv
<1> SUFFICES ASSUME Init PROVE IInv
  OBVIOUS
<1>1. MaxFiles \in Nat /\ MaxRev \in Nat
  BY BoundsAssumption
<1>2. NoFiles \in [Paths -> 0 .. 0] /\ NoFiles \in [Paths -> 0 .. MaxRev]
  BY <1>1 DEF NoFiles
<1>3. past = <<NoFiles>> /\ past \in Seq([Paths -> 0 .. made]) /\ past # <<>>
  BY <1>2 DEF Init
<1>4. TypeOK
  BY <1>1, <1>2, <1>3 DEF Init, TypeOK, Amounts
<1>5. NeverTorn
  BY <1>2, <1>3 DEF Init, NeverTorn, Whole, NoFiles
<1>6. \A p \in Procs : TempInv(p)
  BY DEF Init, TempInv, Writing
<1> QED BY <1>4, <1>5, <1>6 DEF IInv

(* Operations that leave the disk alone.                                   *)
LEMMA DoneFacts ==
    ASSUME IInv, NEW p \in Procs, Done(p), todo[p] # <<>>
    PROVE  /\ todo' \in [Procs -> Seq(Ops)]
           /\ pc' \in [Procs -> {"idle", "ready", "read", "write", "more", "sync", "rename"}]
           /\ pc'[p] \in {"idle", "ready"}
           /\ pc'[p] # "idle" => todo'[p] # <<>>
           /\ \A q \in Procs \ {p} : pc'[q] = pc[q] /\ todo'[q] = todo[q]
<1>1. Tail(todo[p]) \in Seq(Ops) /\ (Len(todo[p]) # 1 => Tail(todo[p]) # <<>>)
  BY OpFacts DEF IInv, TypeOK
<1> QED BY <1>1 DEF Done, Go, IInv, TypeOK

LEMMA LearnFacts ==
    ASSUME IInv, NEW p \in Procs, NEW known \in [Paths -> 0 .. MaxRev], NEW n \in 0 .. MaxRev,
           Learn(p, known, n)
    PROVE  seen' \in [Procs -> [Paths -> 0 .. MaxRev]] /\ answer' \in [Procs -> 0 .. MaxRev]
<1>1. NoFiles \in [Paths -> 0 .. MaxRev] /\ MaxRev \in Nat
  BY BoundFacts DEF IInv
<1>2. seen \in [Procs -> [Paths -> 0 .. MaxRev]] /\ answer \in [Procs -> 0 .. MaxRev]
  BY DEF IInv, TypeOK
<1>3. \/ /\ seen' = [seen EXCEPT ![p] = NoFiles]
         /\ answer' = [answer EXCEPT ![p] = 0]
      \/ /\ seen' = [seen EXCEPT ![p] = known]
         /\ answer' = [answer EXCEPT ![p] = n]
  BY DEF Learn
<1>4. ASSUME NEW x \in [Paths -> 0 .. MaxRev], seen' = [seen EXCEPT ![p] = x]
      PROVE  seen' \in [Procs -> [Paths -> 0 .. MaxRev]]
  BY <1>2, <1>4
<1>5. ASSUME NEW k \in 0 .. MaxRev, answer' = [answer EXCEPT ![p] = k]
      PROVE  answer' \in [Procs -> 0 .. MaxRev]
  BY <1>2, <1>5
<1> QED BY <1>1, <1>3, <1>4, <1>5

LEMMA InvStep == IInv /\ [Next]_vars => IInv'
<1> SUFFICES ASSUME IInv, [Next]_vars PROVE IInv'
  OBVIOUS
<1>0. TypeOK /\ NeverTorn /\ \A p \in Procs : TempInv(p)
  BY DEF IInv
<1>b. MaxFiles \in Nat /\ MaxRev \in Nat /\ made \in Nat
  BY <1>0, BoundFacts
<1> USE DEF disk, memory
<1>1. ASSUME NEW p \in Procs, Start(p) PROVE IInv'
  <2>1. PICK script \in Scripts[p] : script # <<>> /\ todo' = [todo EXCEPT ![p] = script]
    BY <1>1 DEF Start
  <2>2. script \in Seq(Ops)
    BY ScriptsAssumption
  <2>3. TypeOK'
    BY <1>0, <1>1, <2>1, <2>2 DEF Start, Go, TypeOK
  <2>4. NeverTorn'
    BY <1>0, <1>1 DEF Start, NeverTorn, Whole
  <2>5. \A q \in Procs : TempInv(q)'
    BY <1>0, <1>1, <2>1 DEF Start, Go, TypeOK, TempInv, Writing, Whole
  <2> QED BY <2>3, <2>4, <2>5 DEF IInv
<1>2. ASSUME NEW p \in Procs, Open(p) PROVE IInv'
  <2>0. Head(todo[p]).path \in Paths
    BY <1>0, <1>2, OpFacts DEF Open, TypeOK, TempInv
  <2>1. PICK x \in Paths : opened' = [opened EXCEPT ![p] = Now[x]]
    BY <1>2, <2>0 DEF Open
  <2>a. Now \in [Paths -> 0 .. made] /\ past # <<>> /\ past \in Seq([Paths -> 0 .. made])
    BY <1>0, BoundFacts DEF TypeOK
  <2>b. Len(past) \in Nat /\ Len(past) > 0
    BY <2>a, PastFacts
  <2>2. Now[x] \in 0 .. made /\ Len(past) \in 1 .. Len(past) /\ Now = past[Len(past)]
    BY <2>a, <2>b DEF Now
  <2>c. /\ \A q \in Procs : opened'[q] = opened[q] \/ opened'[q] = Now[x]
        /\ UNCHANGED <<made, cached, stored, rev, past, todo, temp>>
        /\ pc' = [pc EXCEPT ![p] = "read"] /\ pc[p] = "ready"
    BY <1>0, <1>2, <2>1 DEF Open, Go, TypeOK
  <2>3. TypeOK'
    BY <1>0, <1>2, <2>1, <2>2 DEF Open, Go, TypeOK
  <2>4. Whole(Now[x])
    BY <1>0, <2>2 DEF NeverTorn
  <2>5. NeverTorn'
    BY <1>0, <2>c, <2>4 DEF NeverTorn, Whole
  <2>6. ASSUME NEW q \in Procs PROVE TempInv(q)'
    <3>1. temp[q] # 0 => \A r \in Procs : opened'[r] # temp[q]
      BY <1>0, <2>2, <2>c DEF TempInv
    <3>2. \/ pc'[q] = pc[q]
          \/ pc'[q] = "read" /\ pc[q] = "ready"
      BY <1>0, <2>c DEF TypeOK
    <3> QED BY <1>0, <2>c, <3>1, <3>2 DEF TempInv, Writing, Whole
  <2> QED BY <2>3, <2>5, <2>6 DEF IInv
<1>3. ASSUME NEW p \in Procs, Read(p) PROVE IInv'
  <2>0. todo[p] # <<>> /\ Head(todo[p]).path \in Paths /\ RevOf(opened[p]) \in 0 .. MaxRev
    BY <1>0, <1>3, OpFacts, BoundFacts DEF Read, TypeOK, TempInv
  <2>1. PICK m \in 0 .. MaxRev :
          Learn(p, [seen[p] EXCEPT ![Head(todo[p]).path] = RevOf(opened[p])], m)
    BY <1>3 DEF Read
  <2>2. [seen[p] EXCEPT ![Head(todo[p]).path] = RevOf(opened[p])] \in [Paths -> 0 .. MaxRev]
    BY <1>0, <2>0 DEF TypeOK
  <2>3. seen' \in [Procs -> [Paths -> 0 .. MaxRev]] /\ answer' \in [Procs -> 0 .. MaxRev]
    BY <2>1, <2>2, LearnFacts
  <2>4. /\ Done(p) /\ opened' = [opened EXCEPT ![p] = 0] /\ pc[p] = "read"
        /\ UNCHANGED <<made, cached, stored, rev, past, temp>>
    BY <1>3 DEF Read
  <2>5. TypeOK'
    BY <1>0, <1>b, <2>0, <2>3, <2>4, DoneFacts DEF TypeOK
  <2>6. NeverTorn'
    BY <1>0, <2>4 DEF NeverTorn, Whole, TypeOK
  <2>7. \A q \in Procs : opened'[q] = opened[q] \/ opened'[q] = 0
    BY <1>0, <2>4 DEF TypeOK
  <2>8. ASSUME NEW q \in Procs PROVE TempInv(q)'
    <3>1. temp[p] = 0
      BY <1>0, <2>4 DEF TempInv, Writing
    <3>2. CASE q = p
      BY <2>0, <2>4, <3>1, <3>2, DoneFacts DEF TempInv, Writing
    <3>3. CASE q # p
      <4>1. pc'[q] = pc[q] /\ todo'[q] = todo[q]
        BY <2>0, <2>4, <3>3, DoneFacts
      <4> QED BY <1>0, <2>4, <2>7, <4>1 DEF TempInv, Writing, Whole
    <3> QED BY <3>2, <3>3
  <2> QED BY <2>5, <2>6, <2>8 DEF IInv
<1>4. ASSUME NEW p \in Procs, CreateTemp(p) PROVE IInv'
  <2> DEFINE f == made + 1
  <2>1. /\ pc[p] = "ready" /\ f \in Files /\ f \in Nat /\ f # 0 /\ made' = f /\ made =< f
        /\ rev' = [rev EXCEPT ![f] = SavedRev(p)] /\ temp' = [temp EXCEPT ![p] = f]
        /\ pc' = [pc EXCEPT ![p] = "write"]
        /\ UNCHANGED <<cached, stored, past, todo, opened, seen, answer>>
    BY <1>b, <1>4 DEF CreateTemp, Go, Files
  <2>2. todo[p] # <<>> /\ SavedRev(p) \in 0 .. MaxRev
    BY <1>0, <2>1, SavedRevType DEF TempInv
  <2>3. past \in Seq([Paths -> 0 .. f])
    BY <1>0, <1>b, <2>1, MoreFiles DEF TypeOK
  <2>a. /\ temp \in [Procs -> 0 .. made] /\ opened \in [Procs -> 0 .. made]
        /\ rev \in [Files -> 0 .. MaxRev]
    BY <1>0 DEF TypeOK
  <2>b. /\ temp \in [Procs -> 0 .. f] /\ opened \in [Procs -> 0 .. f] /\ f \in 0 .. f
        /\ f \in 0 .. MaxFiles
    BY <1>b, <2>1, <2>a DEF Files
  <2>4. /\ temp' \in [Procs -> 0 .. f] /\ opened' \in [Procs -> 0 .. f]
        /\ rev' \in [Files -> 0 .. MaxRev] /\ made' \in 0 .. MaxFiles
    BY <2>1, <2>2, <2>a, <2>b
  <2>5. TypeOK'
    BY <1>0, <2>1, <2>3, <2>4 DEF TypeOK
  <2>6. NeverTorn'
    BY <1>0, <2>1 DEF NeverTorn, Whole
  <2>7. \A k \in 1 .. Len(past), x \in Paths : past[k][x] # f
    BY <1>0, <1>b, BoundFacts
  <2>8. \A q \in Procs : temp[q] # f /\ opened[q] # f
    BY <1>0, <1>b DEF TypeOK
  <2>9. ASSUME NEW q \in Procs PROVE TempInv(q)'
    <3>1. CASE q = p
      <4>1. pc'[q] = "write" /\ temp'[q] = f
        BY <1>0, <2>1, <3>1 DEF TypeOK
      <4>2. \A r \in Procs : temp'[r] = f => r = q
        BY <1>0, <2>1, <2>8, <3>1 DEF TypeOK
      <4> QED BY <2>1, <2>2, <2>7, <2>8, <3>1, <4>1, <4>2 DEF TempInv, Writing
    <3>2. CASE q # p
      <4>1. pc'[q] = pc[q] /\ temp'[q] = temp[q]
        BY <1>0, <2>1, <3>2 DEF TypeOK
      <4>2. temp[q] # 0 => \A r \in Procs : temp'[r] = temp[q] => r = q
        BY <1>0, <2>1, <2>8 DEF TempInv, TypeOK
      <4> QED BY <1>0, <2>1, <4>1, <4>2 DEF TempInv, Writing, Whole
    <3> QED BY <3>1, <3>2
  <2> QED BY <2>5, <2>6, <2>9 DEF IInv
<1>5. ASSUME NEW p \in Procs,
             \/ WriteSome(p) \/ WriteRest(p)
      PROVE  IInv'
  <2>0. temp[p] \in Files /\ temp[p] # 0
    BY <1>0, <1>5, BoundFacts DEF WriteSome, WriteRest, TypeOK, TempInv, Writing
  <2>1. PICK a \in Amounts, s \in {"more", "sync"} :
          /\ cached' = [cached EXCEPT ![temp[p]] = a]
          /\ pc' = [pc EXCEPT ![p] = s]
          /\ pc[p] \in {"write", "more"}
          /\ s = "sync" => a = "whole"
          /\ UNCHANGED <<made, stored, rev, past, todo, temp, opened, seen, answer>>
    BY <1>5 DEF WriteSome, WriteRest, Go, Amounts
  <2>2. TypeOK'
    BY <1>0, <2>1 DEF TypeOK
  <2>3. /\ \A k \in 1 .. Len(past), x \in Paths : past[k][x] # temp[p]
        /\ \A q \in Procs : opened[q] # temp[p]
        /\ \A q \in Procs : q # p => temp[q] # temp[p]
    BY <1>0, <2>0 DEF TempInv
  <2>4. \A f \in 0 .. made : f # temp[p] /\ Whole(f) => Whole(f)'
    BY <1>0, <2>1, BoundFacts DEF Whole, TypeOK
  <2>5. \A k \in 1 .. Len(past), x \in Paths : past[k][x] \in 0 .. made
    BY <1>0, BoundFacts
  <2>6. NeverTorn'
    <3>1. \A k \in 1 .. Len(past), x \in Paths : Whole(past[k][x])'
      BY <1>0, <2>1, <2>3, <2>4, <2>5 DEF NeverTorn, Whole
    <3>2. \A q \in Procs : Whole(opened[q])'
      BY <1>0, <2>1, <2>3, <2>4 DEF NeverTorn, Whole, TypeOK
    <3> QED BY <2>1, <3>1, <3>2 DEF NeverTorn
  <2>7. ASSUME NEW q \in Procs PROVE TempInv(q)'
    <3>1. CASE q = p
      BY <1>0, <2>0, <2>1, <3>1 DEF TempInv, Writing, TypeOK, Whole
    <3>2. CASE q # p
      <4>1. /\ pc'[q] = pc[q] /\ temp'[q] = temp[q]
            /\ pc[q] \in {"sync", "rename"} => cached'[temp[q]] = cached[temp[q]]
        BY <1>0, <2>1, <2>3, <3>2, BoundFacts DEF TypeOK, TempInv, Writing
      <4> QED BY <1>0, <2>1, <4>1 DEF TempInv, Writing, Whole
    <3> QED BY <3>1, <3>2
  <2> QED BY <2>2, <2>6, <2>7 DEF IInv
<1>6. ASSUME NEW p \in Procs, Sync(p) PROVE IInv'
  <2>0. temp[p] \in Files /\ temp[p] # 0 /\ cached[temp[p]] = "whole"
    BY <1>0, <1>6, BoundFacts DEF Sync, TypeOK, TempInv, Writing
  <2>1. /\ stored' = [stored EXCEPT ![temp[p]] = "whole"]
        /\ pc' = [pc EXCEPT ![p] = "rename"] /\ pc[p] = "sync"
        /\ UNCHANGED <<made, cached, rev, past, todo, temp, opened, seen, answer>>
    BY <1>6, <2>0 DEF Sync, Go
  <2>2. TypeOK'
    BY <1>0, <2>1 DEF TypeOK, Amounts
  <2>3. \A f \in 0 .. made : Whole(f) => Whole(f)'
    BY <1>0, <2>1, BoundFacts DEF Whole, TypeOK
  <2>4. NeverTorn'
    <3>1. \A k \in 1 .. Len(past), x \in Paths : Whole(past[k][x])'
      BY <1>0, <2>1, <2>3, BoundFacts DEF NeverTorn, Whole
    <3>2. \A q \in Procs : Whole(opened[q])'
      BY <1>0, <2>1, <2>3 DEF NeverTorn, Whole, TypeOK
    <3> QED BY <2>1, <3>1, <3>2 DEF NeverTorn
  <2>5. ASSUME NEW q \in Procs PROVE TempInv(q)'
    <3>1. Whole(temp[q]) => Whole(temp[q])'
      BY <1>0, <2>1, <2>3 DEF TypeOK, Whole
    <3>2. CASE q = p
      BY <1>0, <2>0, <2>1, <3>2 DEF TempInv, Writing, TypeOK, Whole
    <3>3. CASE q # p
      <4>1. pc'[q] = pc[q]
        BY <1>0, <2>1, <3>3 DEF TypeOK
      <4> QED BY <1>0, <2>1, <3>1, <4>1 DEF TempInv, Writing, Whole
    <3> QED BY <3>2, <3>3
  <2> QED BY <2>2, <2>4, <2>5 DEF IInv
<1>7. ASSUME NEW p \in Procs, Rename(p) PROVE IInv'
  <2> DEFINE dir == [Now EXCEPT ![Head(todo[p]).path] = temp[p]]
  <2>0. /\ todo[p] # <<>> /\ Head(todo[p]).path \in Paths /\ temp[p] # 0 /\ temp[p] \in 0 .. made
        /\ pc[p] = "rename" /\ Whole(temp[p])
    BY <1>0, <1>7, OpFacts DEF Rename, TypeOK, TempInv, Writing
  <2>1. /\ past' = Append(past, dir) /\ temp' = [temp EXCEPT ![p] = 0] /\ Done(p)
        /\ Learn(p, seen[p], answer[p])
        /\ UNCHANGED <<made, cached, stored, rev, opened>>
    BY <1>7 DEF Rename
  <2>2. dir \in [Paths -> 0 .. made] /\ Now \in [Paths -> 0 .. made]
    BY <1>0, <2>0, BoundFacts
  <2>3. past' \in Seq([Paths -> 0 .. made]) /\ past' # <<>>
    BY <1>0, <2>1, <2>2, PastFacts DEF TypeOK
  <2>4. \A k \in 1 .. Len(past') : (k \in 1 .. Len(past) /\ past'[k] = past[k]) \/ past'[k] = dir
    BY <1>0, <2>1, <2>2, PastFacts DEF TypeOK
  <2>5. \A x \in Paths : \/ dir[x] = temp[p]
                         \/ dir[x] = past[Len(past)][x] /\ Len(past) \in 1 .. Len(past)
    BY <1>0, <2>2, PastFacts DEF Now, TypeOK
  <2>6. seen' \in [Procs -> [Paths -> 0 .. MaxRev]] /\ answer' \in [Procs -> 0 .. MaxRev]
    BY <1>0, <2>1, LearnFacts DEF TypeOK
  <2>7. TypeOK'
    <3>1. /\ todo' \in [Procs -> Seq(Ops)]
          /\ pc' \in [Procs -> {"idle", "ready", "read", "write", "more", "sync", "rename"}]
      BY <2>0, <2>1, DoneFacts
    <3>2. temp' \in [Procs -> 0 .. made]
      BY <1>0, <1>b, <2>1 DEF TypeOK
    <3> QED BY <1>0, <2>1, <2>3, <2>6, <3>1, <3>2 DEF TypeOK
  <2>8. ASSUME NEW k \in 1 .. Len(past'), NEW x \in Paths
        PROVE  \/ past'[k][x] = temp[p]
               \/ \E j \in 1 .. Len(past) : past'[k][x] = past[j][x]
    BY <2>4, <2>5
  <2>9. NeverTorn'
    BY <1>0, <2>0, <2>1, <2>8 DEF NeverTorn, Whole
  <2>10. ASSUME NEW q \in Procs PROVE TempInv(q)'
    <3>1. CASE q = p
      BY <1>0, <2>0, <2>1, <3>1, DoneFacts DEF TempInv, Writing, TypeOK
    <3>2. CASE q # p
      <4>1. pc'[q] = pc[q] /\ todo'[q] = todo[q] /\ temp'[q] = temp[q]
        BY <1>0, <2>0, <2>1, <3>2, DoneFacts DEF TypeOK
      <4>2. temp[q] # 0 => temp[q] # temp[p]
        BY <1>0, <3>2 DEF TempInv
      <4>3. temp[q] # 0 => \A k \in 1 .. Len(past'), x \in Paths : past'[k][x] # temp[q]
        BY <1>0, <2>8, <4>2 DEF TempInv
      <4>4. temp[q] # 0 => \A r \in Procs : temp'[r] = temp[q] => r = q
        BY <1>0, <2>1 DEF TempInv, TypeOK
      <4> QED BY <1>0, <2>1, <4>1, <4>3, <4>4 DEF TempInv, Writing, Whole
    <3> QED BY <3>1, <3>2
  <2> QED BY <2>7, <2>9, <2>10 DEF IInv
<1>8. ASSUME NEW p \in Procs, Stop(p) PROVE IInv'
  <2>1. NoFiles \in [Paths -> 0 .. MaxRev]
    BY <1>0, BoundFacts
  <2>2. TypeOK'
    BY <1>0, <1>b, <1>8, <2>1 DEF Stop, Go, TypeOK
  <2>3. NeverTorn'
    BY <1>0, <1>8 DEF Stop, NeverTorn, Whole, TypeOK
  <2>4. ASSUME NEW q \in Procs PROVE TempInv(q)'
    <3>1. CASE q = p
      BY <1>0, <1>8, <3>1 DEF Stop, Go, TempInv, Writing, TypeOK
    <3>2. CASE q # p
      BY <1>0, <1>8, <3>2 DEF Stop, Go, TempInv, Writing, TypeOK, Whole
    <3> QED BY <3>1, <3>2
  <2> QED BY <2>2, <2>3, <2>4 DEF IInv
<1>9. ASSUME Flush PROVE IInv'
  <2>1. PICK f \in 1 .. made : stored' = [stored EXCEPT ![f] = cached[f]]
    BY <1>9 DEF Flush
  <2>2. UNCHANGED <<made, cached, rev, past, pc, todo, temp, opened, seen, answer>>
    BY <1>9 DEF Flush
  <2>3. f \in Files
    BY <1>0, BoundFacts
  <2>4. TypeOK'
    BY <1>0, <2>1, <2>2, <2>3 DEF TypeOK
  <2>5. \A g \in 0 .. made : Whole(g) => Whole(g)'
    BY <1>0, <2>1, <2>2, <2>3, BoundFacts DEF Whole, TypeOK
  <2>6. NeverTorn'
    <3>1. \A k \in 1 .. Len(past), x \in Paths : Whole(past[k][x])'
      BY <1>0, <2>2, <2>5, BoundFacts DEF NeverTorn, Whole
    <3>2. \A q \in Procs : Whole(opened[q])'
      BY <1>0, <2>2, <2>5 DEF NeverTorn, Whole, TypeOK
    <3> QED BY <2>2, <3>1, <3>2 DEF NeverTorn
  <2>7. ASSUME NEW q \in Procs PROVE TempInv(q)'
    <3>1. Whole(temp[q]) => Whole(temp[q])'
      BY <1>0, <2>2, <2>5 DEF TypeOK, Whole
    <3> QED BY <1>0, <2>2, <3>1 DEF TempInv, Writing, Whole
  <2> QED BY <2>4, <2>6, <2>7 DEF IInv
<1>10. ASSUME Settle PROVE IInv'
  <2>1. /\ past' \in Seq([Paths -> 0 .. made]) /\ past' # <<>>
        /\ \A k \in 1 .. Len(past') : \E j \in 1 .. Len(past) : past'[k] = past[j]
    <3>1. past \in Seq([Paths -> 0 .. made]) /\ past # <<>> /\ Len(past) > 1 /\ past' = Tail(past)
      BY <1>0, <1>10 DEF Settle, TypeOK
    <3>2. /\ Tail(past) \in Seq([Paths -> 0 .. made]) /\ Tail(past) # <<>>
          /\ \A k \in 1 .. Len(Tail(past)) :
                k + 1 \in 1 .. Len(past) /\ Tail(past)[k] = past[k + 1]
      BY <3>1, PastFacts
    <3> QED BY <3>1, <3>2
  <2>2. UNCHANGED <<made, cached, stored, rev, pc, todo, temp, opened, seen, answer>>
    BY <1>10 DEF Settle
  <2>3. TypeOK'
    BY <1>0, <2>1, <2>2 DEF TypeOK
  <2>4. NeverTorn'
    <3>1. ASSUME NEW k \in 1 .. Len(past'), NEW x \in Paths PROVE Whole(past[k][x])'
      <4>1. PICK j \in 1 .. Len(past) : past'[k] = past[j]
        BY <2>1
      <4> QED BY <1>0, <2>2, <4>1 DEF NeverTorn, Whole
    <3>2. \A q \in Procs : Whole(opened[q])'
      BY <1>0, <2>2 DEF NeverTorn, Whole
    <3> QED BY <3>1, <3>2 DEF NeverTorn
  <2>5. \A q \in Procs : TempInv(q)'
    BY <1>0, <2>1, <2>2 DEF TempInv, Writing, Whole
  <2> QED BY <2>3, <2>4, <2>5 DEF IInv
<1>11. ASSUME PowerLoss PROVE IInv'
  <2>1. /\ past' \in Seq([Paths -> 0 .. made]) /\ past' # <<>>
        /\ 1 \in 1 .. Len(past) /\ \A k \in 1 .. Len(past') : past'[k] = past[1]
    BY <1>0, <1>11, PastFacts DEF PowerLoss, TypeOK
  <2>2. NoFiles \in [Paths -> 0 .. MaxRev] /\ <<>> \in Seq(Ops) /\ 0 \in 0 .. made
    BY <1>0, <1>b, BoundFacts
  <2>3. TypeOK'
    BY <1>0, <1>b, <1>11, <2>1, <2>2 DEF PowerLoss, TypeOK
  <2>4. NeverTorn'
    BY <1>0, <1>11, <2>1 DEF PowerLoss, NeverTorn, Whole
  <2>5. \A q \in Procs : TempInv(q)'
    BY <1>11 DEF PowerLoss, TempInv, Writing
  <2> QED BY <2>3, <2>4, <2>5 DEF IInv
<1>12. CASE UNCHANGED vars
  <2>1. TypeOK' /\ NeverTorn'
    BY <1>0, <1>12 DEF vars, TypeOK, NeverTorn, Whole
  <2>2. \A q \in Procs : TempInv(q)'
    BY <1>0, <1>12 DEF vars, TempInv, Writing, Whole
  <2> QED BY <2>1, <2>2 DEF IInv
<1> QED BY <1>1, <1>2, <1>3, <1>4, <1>5, <1>6, <1>7, <1>8, <1>9, <1>10, <1>11, <1>12
        DEF Next, Step

LEMMA IInvHolds == Spec => []IInv
BY TypeInit, InvStep, PTL DEF Spec

(* Every reachable state is typed.                                         *)
THEOREM TypeCorrect == Spec => []TypeOK
<1>1. IInv => TypeOK
  BY DEF IInv
<1> QED BY <1>1, IInvHolds, PTL

(* Neither file is ever torn, now or after a power loss, and no reader is  *)
(* ever in a torn file: for any number of commands at a time, each killed  *)
(* anywhere.                                                               *)
THEOREM FilesAreWhole == Spec => []NeverTorn
<1>1. IInv => NeverTorn
  BY DEF IInv
<1> QED BY <1>1, IInvHolds, PTL
-----------------------------------------------------------------------------
(* The refinement of FileCells.  No torn file is ever in the directory, so *)
(* the contents are the file numbers themselves.                           *)

LEMMA ContentsAreFiles == IInv => ContentsPast = past
<1> SUFFICES ASSUME IInv PROVE ContentsPast = past
  OBVIOUS
<1>1. /\ past \in Seq([Paths -> 0 .. made]) /\ past # <<>>
      /\ \A k \in 1 .. Len(past) : past[k] \in [Paths -> 0 .. made]
  BY BoundFacts DEF IInv, TypeOK
<1>2. \A k \in 1 .. Len(past), x \in Paths : Content(past[k][x]) = past[k][x]
  BY <1>1 DEF IInv, NeverTorn, Whole, Content
<1>3. \A k \in 1 .. Len(past) : [x \in Paths |-> Content(past[k][x])] = past[k]
  BY <1>1, <1>2
<1>4. ContentsPast = [k \in 1 .. Len(past) |-> past[k]]
  BY <1>3 DEF ContentsPast
<1> QED BY <1>1, <1>4

LEMMA StepSimulation ==
    ASSUME IInv, IInv', [Next]_vars
    PROVE  [AsCells!Next]_ContentsPast
<1>1. ContentsPast = past /\ ContentsPast' = past'
  <2>1. IInv' => (ContentsPast = past)'
    BY ContentsAreFiles, PTL
  <2> QED BY <2>1, ContentsAreFiles
<1>2. AsCells!Now = Now
  BY <1>1 DEF AsCells!Now, Now
<1>3. ASSUME NEW p \in Procs, Rename(p) PROVE AsCells!Next
  <2>1. /\ temp[p] \in Files /\ Head(todo[p]).path \in Paths
        /\ past' = Append(past, [Now EXCEPT ![Head(todo[p]).path] = temp[p]])
    <3>1. pc[p] = "rename" /\ todo[p] # <<>> /\ temp[p] # 0
      BY <1>3 DEF Rename, IInv, TempInv, Writing
    <3>2. temp[p] \in 1 .. made /\ todo[p] \in Seq(Ops)
      BY <3>1, BoundFacts DEF IInv, TypeOK
    <3>3. temp[p] \in Files
      BY <3>2, BoundFacts DEF IInv
    <3> QED BY <1>3, <3>1, <3>2, <3>3, OpFacts DEF Rename
  <2>2. AsCells!Replace(Head(todo[p]).path, temp[p])
    BY <1>1, <1>2, <2>1 DEF AsCells!Replace
  <2> QED BY <2>1, <2>2 DEF AsCells!Next
<1>4. ASSUME NEW p \in Procs, Step(p), ~ Rename(p) PROVE UNCHANGED ContentsPast
  BY <1>1, <1>4
  DEF Step, Start, Open, Read, CreateTemp, WriteSome, WriteRest, Sync, Stop, disk
<1>5. CASE Flush
  BY <1>1, <1>5 DEF Flush
<1>6. CASE Settle
  <2>1. AsCells!Settle
    BY <1>1, <1>6 DEF Settle, AsCells!Settle
  <2> QED BY <2>1 DEF AsCells!Next
<1>7. CASE PowerLoss
  <2>1. AsCells!PowerLoss
    BY <1>1, <1>7 DEF PowerLoss, AsCells!PowerLoss
  <2> QED BY <2>1 DEF AsCells!Next
<1>8. CASE UNCHANGED vars
  BY <1>1, <1>8 DEF vars
<1> QED BY <1>3, <1>4, <1>5, <1>6, <1>7, <1>8 DEF Next

(* Every behaviour of the files is a behaviour of two atomic cells: a save *)
(* happens at its rename or not at all, and a power loss goes back to one  *)
(* earlier moment of both.                                                 *)
THEOREM Refinement == Spec => ImplementsFileCells
<1>1. Init => AsCells!Init
  <2> SUFFICES ASSUME Init PROVE AsCells!Init
    OBVIOUS
  <2>1. ContentsPast = past /\ past = <<NoFiles>>
    BY TypeInit, ContentsAreFiles DEF Init
  <2> QED BY <2>1 DEF AsCells!Init, NoFiles
<1>2. IInv /\ IInv' /\ [Next]_vars => [AsCells!Next]_ContentsPast
  BY StepSimulation
<1> QED BY <1>1, <1>2, IInvHolds, PTL DEF Spec, ImplementsFileCells, AsCells!Spec

-----------------------------------------------------------------------------
(* LastSyncedRev and the vault.  With one command at a time that saves,    *)
(* the state is not ahead of the vault if that command's saves are         *)
(* orderly: a file that is saved as it was loaded, and any vault, was      *)
(* loaded before, with no save of it since; and a state with the server's  *)
(* revision is saved right after the vault with the server's rows.         *)

SaveOf(o, x) == o.op = "save" /\ o.path = x

LoadedBefore(s, k) ==
    \E j \in 1 .. k - 1 :
        /\ s[j].op = "load" /\ s[j].path = s[k].path
        /\ \A m \in j + 1 .. k - 1 : ~ SaveOf(s[m], s[k].path)

Unsaved(s, k) == \A m \in 1 .. k - 1 : ~ SaveOf(s[m], s[k].path)

FromLoad(o) == o.rev = "kept" \/ o.path = "vault"
FromAnswer(o) == o.rev = "answer" /\ o.path = "state"
VaultAnswer(o) == SaveOf(o, "vault") /\ o.rev = "answer"

Orderly(s) ==
    \A k \in 1 .. Len(s) : s[k].op = "save" =>
        /\ s[k].rev # "zero"
        /\ FromLoad(s[k]) => LoadedBefore(s, k)
        /\ FromAnswer(s[k]) => k > 1 /\ VaultAnswer(s[k - 1])

(* The same of what is left of a command, that knows some revisions and    *)
(* the answer n, when the files present are of some revisions: what it is  *)
(* to save from a load it has made is still what the file holds, and the   *)
(* vault has the answer when the state is next.                            *)
ReadyFor(s, known, n, present) ==
    \A k \in 1 .. Len(s) : s[k].op = "save" =>
        /\ s[k].rev # "zero"
        /\ FromLoad(s[k]) =>
            \/ LoadedBefore(s, k)
            \/ Unsaved(s, k) /\ known[s[k].path] = present[s[k].path]
        /\ FromAnswer(s[k]) =>
            \/ k = 1 /\ n =< present["vault"]
            \/ k > 1 /\ VaultAnswer(s[k - 1])

SavesIn(s) == \E k \in 1 .. Len(s) : s[k].op = "save"
Saves(p) == \E script \in Scripts[p] : SavesIn(script)

Present == [x \in Paths |-> RevOf(Now[x])]

WriterFits(p) ==
    /\ SavesIn(todo[p]) => Saves(p)
    /\ Saves(p) => ReadyFor(todo[p], seen[p], answer[p], Present)
    /\ pc[p] = "read" => Head(todo[p]).op = "load"
    /\ pc[p] = "read" /\ Saves(p) => opened[p] = Now[Head(todo[p]).path]
    /\ pc[p] \in Writing => Head(todo[p]).op = "save" /\ rev[temp[p]] = SavedRev(p)

(* One process at a time saves, and its commands are orderly.              *)
OneWriter == \A p, q \in Procs : Saves(p) /\ Saves(q) => p = q
OrderlyScripts == \A p \in Procs : \A script \in Scripts[p] : Orderly(script)

AheadInv == IInv /\ StateNotAhead /\ \A p \in Procs : WriterFits(p)

LEMMA TailFacts ==
    ASSUME NEW s \in Seq(Ops), s # <<>>
    PROVE  /\ Len(s) \in Nat /\ Len(s) > 0 /\ Head(s) = s[1] /\ Tail(s) \in Seq(Ops)
           /\ Len(Tail(s)) = Len(s) - 1
           /\ \A k \in 1 .. Len(s) - 1 : Tail(s)[k] = s[k + 1]
           /\ \A k \in 1 .. Len(s) : s[k] \in Ops /\ s[k].path \in Paths
<1>1. /\ Len(s) \in Nat /\ Len(s) > 0 /\ Head(s) = s[1] /\ Tail(s) \in Seq(Ops)
      /\ Len(Tail(s)) = Len(s) - 1
  OBVIOUS
<1>2. \A k \in 1 .. Len(s) - 1 : Tail(s)[k] = s[k + 1]
  OBVIOUS
<1>3. \A k \in 1 .. Len(s) : s[k] \in Ops
  OBVIOUS
<1>4. \A k \in 1 .. Len(s) : s[k].path \in Paths
  BY <1>3 DEF Ops
<1> QED BY <1>1, <1>2, <1>3, <1>4

(* What was unsaved before an operation is so after it, unless it saved it. *)
LEMMA TailUnsaved ==
    ASSUME NEW s \in Seq(Ops), s # <<>>, NEW k \in 1 .. Len(s) - 1, Unsaved(s, k + 1)
    PROVE  Unsaved(Tail(s), k) /\ ~ SaveOf(s[1], s[k + 1].path)
<1>1. Len(s) \in Nat /\ k \in Nat /\ k >= 1 /\ k =< Len(s) - 1
  BY TailFacts
<1>2. Tail(s)[k].path = s[k + 1].path
  BY TailFacts
<1>3. ASSUME NEW m \in 1 .. k - 1 PROVE ~ SaveOf(Tail(s)[m], s[k + 1].path)
  <2>1. m \in 1 .. Len(s) - 1 /\ m + 1 \in 1 .. (k + 1) - 1
    BY <1>1
  <2> QED BY <2>1, TailFacts DEF Unsaved
<1>4. 1 \in 1 .. (k + 1) - 1
  BY <1>1
<1> QED BY <1>2, <1>3, <1>4 DEF Unsaved

(* A load that comes before a save either is still to come or was the      *)
(* operation that is now over.                                             *)
LEMMA TailLoaded ==
    ASSUME NEW s \in Seq(Ops), s # <<>>, NEW k \in 1 .. Len(s) - 1, LoadedBefore(s, k + 1)
    PROVE  \/ LoadedBefore(Tail(s), k)
           \/ s[1].op = "load" /\ s[1].path = s[k + 1].path /\ Unsaved(Tail(s), k)
<1>1. Len(s) \in Nat /\ k \in Nat /\ k >= 1 /\ k =< Len(s) - 1
  BY TailFacts
<1>2. Tail(s)[k].path = s[k + 1].path
  BY TailFacts
<1>3. PICK j \in 1 .. (k + 1) - 1 :
        /\ s[j].op = "load" /\ s[j].path = s[k + 1].path
        /\ \A m \in j + 1 .. (k + 1) - 1 : ~ SaveOf(s[m], s[k + 1].path)
  BY DEF LoadedBefore
<1>4. ASSUME NEW m \in j .. k - 1, m >= 1 PROVE ~ SaveOf(Tail(s)[m], s[k + 1].path)
  <2>1. m \in 1 .. Len(s) - 1 /\ m + 1 \in j + 1 .. (k + 1) - 1
    BY <1>1, <1>4
  <2> QED BY <1>3, <2>1, TailFacts
<1>5. CASE j = 1
  BY <1>2, <1>3, <1>4, <1>5 DEF Unsaved
<1>6. CASE j # 1
  <2>1. j - 1 \in 1 .. k - 1 /\ (j - 1) + 1 = j /\ j - 1 \in 1 .. Len(s) - 1
    BY <1>1, <1>6
  <2>2. Tail(s)[j - 1] = s[j]
    BY <2>1, TailFacts
  <2>3. \A m \in (j - 1) + 1 .. k - 1 : ~ SaveOf(Tail(s)[m], Tail(s)[k].path)
    BY <1>2, <1>4, <2>1
  <2> QED BY <1>2, <1>3, <2>1, <2>2, <2>3 DEF LoadedBefore
<1> QED BY <1>5, <1>6

LEMMA OrderlyStarts ==
    ASSUME NEW s, Orderly(s), NEW known, NEW n, NEW present
    PROVE  ReadyFor(s, known, n, present)
BY DEF Orderly, ReadyFor

(* A load makes what is known of its file what is there.                   *)
LEMMA AfterLoad ==
    ASSUME NEW s \in Seq(Ops), s # <<>>, NEW known \in [Paths -> Nat], NEW n, NEW m, NEW present,
           ReadyFor(s, known, n, present), Head(s).op = "load"
    PROVE  ReadyFor(Tail(s), [known EXCEPT ![Head(s).path] = present[Head(s).path]], m, present)
<1> DEFINE new == [known EXCEPT ![Head(s).path] = present[Head(s).path]]
<1>0. Len(s) \in Nat /\ Head(s) = s[1] /\ Len(Tail(s)) = Len(s) - 1
  BY TailFacts
<1> SUFFICES ASSUME NEW k \in 1 .. Len(s) - 1, Tail(s)[k].op = "save"
             PROVE  /\ Tail(s)[k].rev # "zero"
                    /\ FromLoad(Tail(s)[k]) =>
                        \/ LoadedBefore(Tail(s), k)
                        \/ Unsaved(Tail(s), k) /\ new[Tail(s)[k].path] = present[Tail(s)[k].path]
                    /\ FromAnswer(Tail(s)[k]) =>
                        \/ k = 1 /\ m =< present["vault"]
                        \/ k > 1 /\ VaultAnswer(Tail(s)[k - 1])
  BY <1>0 DEF ReadyFor
<1>1. Tail(s)[k] = s[k + 1] /\ k + 1 \in 1 .. Len(s) /\ k \in Nat /\ k >= 1
  BY <1>0, TailFacts
<1>2. s[k + 1].path \in Paths
  BY <1>1, TailFacts
<1>3. ASSUME FromLoad(s[k + 1])
      PROVE  \/ LoadedBefore(Tail(s), k)
             \/ Unsaved(Tail(s), k) /\ new[s[k + 1].path] = present[s[k + 1].path]
  <2>1. CASE LoadedBefore(s, k + 1)
    BY <1>0, <1>2, <2>1, TailLoaded
  <2>2. CASE Unsaved(s, k + 1) /\ known[s[k + 1].path] = present[s[k + 1].path]
    BY <1>2, <2>2, TailUnsaved
  <2> QED BY <1>1, <1>3, <2>1, <2>2 DEF ReadyFor
<1>4. ASSUME FromAnswer(s[k + 1]) PROVE k > 1 /\ VaultAnswer(Tail(s)[k - 1])
  <2>1. VaultAnswer(s[k])
    BY <1>1, <1>4 DEF ReadyFor
  <2>2. k # 1
    BY <1>0, <2>1 DEF VaultAnswer, SaveOf
  <2>3. k > 1 /\ k - 1 \in 1 .. Len(s) - 1 /\ (k - 1) + 1 = k
    BY <1>0, <1>1, <2>2
  <2> QED BY <2>1, <2>3, TailFacts
<1> QED BY <1>1, <1>3, <1>4 DEF ReadyFor

(* A save changes one file; after the vault with the answer's rows the     *)
(* vault has the answer.                                                   *)
LEMMA AfterSave ==
    ASSUME NEW s \in Seq(Ops), s # <<>>, NEW known, NEW n, NEW present, NEW new,
           ReadyFor(s, known, n, present), Head(s).op = "save",
           \A x \in Paths : x # Head(s).path => new[x] = present[x],
           VaultAnswer(Head(s)) => n =< new["vault"]
    PROVE  ReadyFor(Tail(s), known, n, new)
<1>0. Len(s) \in Nat /\ Head(s) = s[1] /\ Len(Tail(s)) = Len(s) - 1
  BY TailFacts
<1> SUFFICES ASSUME NEW k \in 1 .. Len(s) - 1, Tail(s)[k].op = "save"
             PROVE  /\ Tail(s)[k].rev # "zero"
                    /\ FromLoad(Tail(s)[k]) =>
                        \/ LoadedBefore(Tail(s), k)
                        \/ Unsaved(Tail(s), k) /\ known[Tail(s)[k].path] = new[Tail(s)[k].path]
                    /\ FromAnswer(Tail(s)[k]) =>
                        \/ k = 1 /\ n =< new["vault"]
                        \/ k > 1 /\ VaultAnswer(Tail(s)[k - 1])
  BY <1>0 DEF ReadyFor
<1>1. Tail(s)[k] = s[k + 1] /\ k + 1 \in 1 .. Len(s) /\ k \in Nat /\ k >= 1
  BY <1>0, TailFacts
<1>2. s[k + 1].path \in Paths
  BY <1>1, TailFacts
<1>3. ASSUME FromLoad(s[k + 1])
      PROVE  \/ LoadedBefore(Tail(s), k)
             \/ Unsaved(Tail(s), k) /\ known[s[k + 1].path] = new[s[k + 1].path]
  <2>1. CASE LoadedBefore(s, k + 1)
    BY <1>0, <2>1, TailLoaded
  <2>2. CASE Unsaved(s, k + 1) /\ known[s[k + 1].path] = present[s[k + 1].path]
    <3>1. Unsaved(Tail(s), k) /\ s[k + 1].path # Head(s).path
      BY <1>0, <2>2, TailUnsaved DEF SaveOf
    <3> QED BY <1>2, <2>2, <3>1
  <2> QED BY <1>1, <1>3, <2>1, <2>2 DEF ReadyFor
<1>4. ASSUME FromAnswer(s[k + 1])
      PROVE  \/ k = 1 /\ n =< new["vault"]
             \/ k > 1 /\ VaultAnswer(Tail(s)[k - 1])
  <2>1. VaultAnswer(s[k])
    BY <1>1, <1>4 DEF ReadyFor
  <2>2. CASE k = 1
    BY <1>0, <2>1, <2>2
  <2>3. CASE k # 1
    <3>1. k > 1 /\ k - 1 \in 1 .. Len(s) - 1 /\ (k - 1) + 1 = k
      BY <1>0, <1>1, <2>3
    <3> QED BY <2>1, <3>1, TailFacts
  <2> QED BY <2>2, <2>3
<1> QED BY <1>1, <1>3, <1>4 DEF ReadyFor

(* What the save that is due can count on.                                 *)
LEMMA SaveDue ==
    ASSUME NEW s \in Seq(Ops), s # <<>>, NEW known, NEW n, NEW present,
           ReadyFor(s, known, n, present), Head(s).op = "save"
    PROVE  /\ Head(s).rev # "zero"
           /\ FromLoad(Head(s)) => known[Head(s).path] = present[Head(s).path]
           /\ FromAnswer(Head(s)) => n =< present["vault"]
<1>1. 1 \in 1 .. Len(s) /\ Head(s) = s[1]
  BY TailFacts
<1>2. ~ LoadedBefore(s, 1)
  BY DEF LoadedBefore
<1> QED BY <1>1, <1>2 DEF ReadyFor

-----------------------------------------------------------------------------
(* Steps.                                                                  *)

LEMMA WriterFacts ==
    ASSUME IInv, NEW p \in Procs
    PROVE  /\ todo[p] \in Seq(Ops) /\ seen[p] \in [Paths -> Nat] /\ answer[p] \in Nat
           /\ pc[p] # "idle" => todo[p] # <<>>
           /\ opened[p] \in 0 .. made
           /\ pc[p] \in Writing => temp[p] \in 1 .. made
           /\ \A x \in Paths : Present[x] = RevOf(Now[x])
<1>1. seen[p] \in [Paths -> 0 .. MaxRev] /\ answer[p] \in 0 .. MaxRev /\ MaxRev \in Nat
  BY BoundFacts DEF IInv, TypeOK
<1>2. seen[p] \in [Paths -> Nat] /\ answer[p] \in Nat
  BY <1>1
<1>3. pc[p] \in Writing => temp[p] \in 1 .. made
  BY BoundFacts DEF IInv, TypeOK, TempInv
<1> QED BY <1>2, <1>3 DEF IInv, TypeOK, TempInv, Present

LEMMA NowFacts ==
    ASSUME IInv
    PROVE  /\ past \in Seq([Paths -> 0 .. made]) /\ past # <<>>
           /\ Len(past) \in 1 .. Len(past) /\ 1 \in 1 .. Len(past) /\ Now = past[Len(past)]
           /\ "state" \in Paths /\ "vault" \in Paths
<1>1. past \in Seq([Paths -> 0 .. made]) /\ past # <<>>
  BY DEF IInv, TypeOK
<1>2. Len(past) \in Nat /\ Len(past) > 0
  BY <1>1, PastFacts
<1> QED BY <1>1, <1>2 DEF Now, Paths

(* Revisions of files that exist do not change; then neither do those of   *)
(* the files present.                                                      *)
LEMMA RevsStay ==
    ASSUME IInv, \A f \in 1 .. made : rev'[f] = rev[f]
    PROVE  /\ \A f \in 0 .. made : RevOf(f)' = RevOf(f)
           /\ Now' = Now => Present' = Present
           /\ past' = past /\ StateNotAhead => StateNotAhead'
<1>1. \A f \in 0 .. made : RevOf(f)' = RevOf(f)
  BY BoundFacts DEF IInv, RevOf
<1>2. Now' = Now => Present' = Present
  BY <1>1, BoundFacts DEF IInv, Present, RevOf
<1>3. past' = past /\ StateNotAhead => StateNotAhead'
  BY <1>1, BoundFacts, NowFacts DEF IInv, StateNotAhead, RevOf
<1> QED BY <1>1, <1>2, <1>3

LEMMA OtherFits ==
    ASSUME IInv, NEW q \in Procs, WriterFits(q), \A f \in 1 .. made : rev'[f] = rev[f],
           Saves(q) => Now' = Now,
           pc'[q] = pc[q], todo'[q] = todo[q], temp'[q] = temp[q], opened'[q] = opened[q],
           seen'[q] = seen[q], answer'[q] = answer[q]
    PROVE  WriterFits(q)'
<1>1. Saves(q) => Present' = Present
  BY RevsStay
<1>2. pc[q] \in Writing => rev'[temp[q]] = rev[temp[q]]
  BY WriterFacts
<1>3. SavedRev(q)' = SavedRev(q)
  BY DEF SavedRev
<1> QED BY <1>1, <1>2, <1>3 DEF WriterFits

LEMMA NoOps ==
    ASSUME NEW s, Len(s) = 0
    PROVE  /\ ~ SavesIn(s)
           /\ \A known, n, present : ReadyFor(s, known, n, present)
BY DEF SavesIn, ReadyFor

LEMMA TailSaves ==
    ASSUME NEW s \in Seq(Ops), s # <<>>
    PROVE  /\ SavesIn(Tail(s)) => SavesIn(s)
           /\ Head(s).op = "save" => SavesIn(s)
<1>1. ASSUME NEW k \in 1 .. Len(s) - 1, Tail(s)[k].op = "save" PROVE SavesIn(s)
  <2>1. k + 1 \in 1 .. Len(s) /\ s[k + 1].op = "save"
    BY <1>1, TailFacts
  <2> QED BY <2>1 DEF SavesIn
<1>2. SavesIn(Tail(s)) => SavesIn(s)
  BY <1>1, TailFacts DEF SavesIn
<1>3. Head(s).op = "save" => SavesIn(s)
  <2>1. 1 \in 1 .. Len(s) /\ Head(s) = s[1]
    BY TailFacts
  <2> QED BY <2>1 DEF SavesIn
<1> QED BY <1>2, <1>3

(* An operation of p is over: what is left, and what p knows then.         *)
LEMMA LeftOver ==
    ASSUME IInv, NEW p \in Procs, todo[p] # <<>>, Done(p),
           NEW known \in [Paths -> 0 .. MaxRev], NEW n \in 0 .. MaxRev, Learn(p, known, n),
           NEW present, ReadyFor(Tail(todo[p]), known, n, present)
    PROVE  /\ todo'[p] = Tail(todo[p]) /\ pc'[p] \in {"idle", "ready"}
           /\ ReadyFor(todo'[p], seen'[p], answer'[p], present)
           /\ \A q \in Procs \ {p} : /\ pc'[q] = pc[q] /\ todo'[q] = todo[q]
                                     /\ seen'[q] = seen[q] /\ answer'[q] = answer[q]
<1>1. /\ todo \in [Procs -> Seq(Ops)] /\ seen \in [Procs -> [Paths -> 0 .. MaxRev]]
      /\ answer \in [Procs -> 0 .. MaxRev]
  BY DEF IInv, TypeOK
<1>2. todo'[p] = Tail(todo[p]) /\ \A q \in Procs \ {p} : pc'[q] = pc[q] /\ todo'[q] = todo[q]
  BY <1>1, DoneFacts DEF Done
<1>3. pc'[p] \in {"idle", "ready"}
  BY DoneFacts
<1>4. CASE Len(todo[p]) = 1
  <2>1. Len(Tail(todo[p])) = 0
    BY <1>1, <1>4, TailFacts
  <2>2. seen' = [seen EXCEPT ![p] = NoFiles] /\ answer' = [answer EXCEPT ![p] = 0]
    BY <1>4 DEF Learn
  <2>3. \A q \in Procs \ {p} : seen'[q] = seen[q] /\ answer'[q] = answer[q]
    BY <1>1, <2>2
  <2> QED BY <1>2, <1>3, <2>1, <2>3, NoOps
<1>5. CASE Len(todo[p]) # 1
  <2>1. seen' = [seen EXCEPT ![p] = known] /\ answer' = [answer EXCEPT ![p] = n]
    BY <1>5 DEF Learn
  <2>2. seen'[p] = known /\ answer'[p] = n
    BY <1>1, <2>1
  <2>3. \A q \in Procs \ {p} : seen'[q] = seen[q] /\ answer'[q] = answer[q]
    BY <1>1, <2>1
  <2> QED BY <1>2, <1>3, <2>2, <2>3
<1> QED BY <1>4, <1>5

LEMMA StartFits ==
    ASSUME AheadInv, OrderlyScripts, NEW p \in Procs, Start(p)
    PROVE  StateNotAhead' /\ \A q \in Procs : WriterFits(q)'
<1> USE DEF AheadInv
<1>1. PICK script \in Scripts[p] : todo' = [todo EXCEPT ![p] = script]
  BY DEF Start
<1>2. /\ pc[p] = "idle" /\ pc' = [pc EXCEPT ![p] = "ready"]
      /\ UNCHANGED <<made, cached, stored, rev, past, temp, opened, seen, answer>>
  BY DEF Start, Go, disk, memory
<1>3. Now' = Now /\ StateNotAhead'
  BY <1>2, RevsStay DEF Now
<1>4. ASSUME NEW q \in Procs, q # p PROVE WriterFits(q)'
  BY <1>1, <1>2, <1>3, <1>4, OtherFits DEF IInv, TypeOK
<1>5. WriterFits(p)'
  <2>1. todo'[p] = script /\ pc'[p] = "ready"
    BY <1>1, <1>2 DEF IInv, TypeOK
  <2>2. Orderly(script)
    BY DEF OrderlyScripts
  <2> QED BY <2>1, <2>2, OrderlyStarts DEF WriterFits, Writing, Saves
<1> QED BY <1>3, <1>4, <1>5

LEMMA OpenFits ==
    ASSUME AheadInv, NEW p \in Procs, Open(p)
    PROVE  StateNotAhead' /\ \A q \in Procs : WriterFits(q)'
<1> USE DEF AheadInv
<1>1. /\ pc[p] = "ready" /\ Head(todo[p]).op = "load"
      /\ opened' = [opened EXCEPT ![p] = Now[Head(todo[p]).path]]
      /\ pc' = [pc EXCEPT ![p] = "read"]
      /\ UNCHANGED <<made, cached, stored, rev, past, todo, temp, seen, answer>>
  BY DEF Open, Go, disk
<1>2. Now' = Now /\ Present' = Present /\ StateNotAhead'
  BY <1>1, RevsStay DEF Now
<1>3. ASSUME NEW q \in Procs, q # p PROVE WriterFits(q)'
  BY <1>1, <1>2, <1>3, OtherFits DEF IInv, TypeOK
<1>4. WriterFits(p)'
  <2>1. opened'[p] = Now[Head(todo[p]).path] /\ pc'[p] = "read"
    BY <1>1 DEF IInv, TypeOK
  <2> QED BY <1>1, <1>2, <2>1 DEF WriterFits, Writing
<1> QED BY <1>2, <1>3, <1>4

LEMMA ReadFits ==
    ASSUME AheadInv, NEW p \in Procs, Read(p)
    PROVE  StateNotAhead' /\ \A q \in Procs : WriterFits(q)'
<1> USE DEF AheadInv
<1> DEFINE x == Head(todo[p]).path
           known == [seen[p] EXCEPT ![x] = RevOf(opened[p])]
<1>1. /\ pc[p] = "read" /\ Done(p) /\ opened' = [opened EXCEPT ![p] = 0]
      /\ UNCHANGED <<made, cached, stored, rev, past, temp>>
  BY DEF Read, disk
<1>2. PICK m \in 0 .. MaxRev : Learn(p, known, m)
  BY DEF Read
<1>3. Now' = Now /\ Present' = Present /\ StateNotAhead'
  BY <1>1, RevsStay DEF Now
<1>4. /\ todo[p] \in Seq(Ops) /\ todo[p] # <<>> /\ x \in Paths /\ Head(todo[p]).op = "load"
      /\ opened[p] \in 0 .. made
  BY <1>1, WriterFacts, OpFacts DEF WriterFits
<1>5. known \in [Paths -> 0 .. MaxRev]
  BY <1>4, BoundFacts DEF IInv, TypeOK
<1>6. ASSUME Saves(p) PROVE ReadyFor(Tail(todo[p]), known, m, Present)
  <2>1. RevOf(opened[p]) = Present[x]
    BY <1>1, <1>4, <1>6, WriterFacts DEF WriterFits
  <2>2. ReadyFor(todo[p], seen[p], answer[p], Present)
    BY <1>6 DEF WriterFits
  <2> QED BY <1>4, <2>1, <2>2, WriterFacts, AfterLoad
<1>7. /\ todo'[p] = Tail(todo[p]) /\ pc'[p] \in {"idle", "ready"}
      /\ \A q \in Procs \ {p} : pc'[q] = pc[q] /\ todo'[q] = todo[q]
  BY <1>1, <1>4, DoneFacts DEF Done, IInv, TypeOK
<1>8. \A q \in Procs \ {p} : seen'[q] = seen[q] /\ answer'[q] = answer[q]
  BY <1>2 DEF Learn, IInv, TypeOK
<1> HIDE DEF known
<1>9. WriterFits(p)'
  <2>1. Saves(p) => ReadyFor(todo'[p], seen'[p], answer'[p], Present)
    BY <1>1, <1>2, <1>4, <1>5, <1>6, LeftOver
  <2>2. SavesIn(todo'[p]) => Saves(p)
    BY <1>4, <1>7, TailSaves DEF WriterFits
  <2> QED BY <1>3, <1>7, <2>1, <2>2 DEF WriterFits, Writing
<1>10. ASSUME NEW q \in Procs, q # p PROVE WriterFits(q)'
  <2>1. opened'[q] = opened[q] /\ temp'[q] = temp[q]
    BY <1>1, <1>10 DEF IInv, TypeOK
  <2> QED BY <1>1, <1>3, <1>7, <1>8, <1>10, <2>1, OtherFits
<1> QED BY <1>3, <1>9, <1>10

LEMMA CreateFits ==
    ASSUME AheadInv, NEW p \in Procs, CreateTemp(p)
    PROVE  StateNotAhead' /\ \A q \in Procs : WriterFits(q)'
<1> USE DEF AheadInv
<1> DEFINE f == made + 1
<1>1. /\ pc[p] = "ready" /\ Head(todo[p]).op = "save" /\ f =< MaxFiles
      /\ rev' = [rev EXCEPT ![f] = SavedRev(p)] /\ temp' = [temp EXCEPT ![p] = f]
      /\ pc' = [pc EXCEPT ![p] = "write"]
      /\ UNCHANGED <<past, todo, opened, seen, answer>>
  BY DEF CreateTemp, Go
<1>2. made \in Nat /\ f \in Files
  BY <1>1, BoundFacts DEF IInv, Files
<1>3. rev'[f] = SavedRev(p) /\ \A g \in 1 .. made : rev'[g] = rev[g]
  BY <1>1, <1>2, BoundFacts DEF IInv, TypeOK
<1>4. Now' = Now /\ Present' = Present /\ StateNotAhead'
  BY <1>1, <1>3, RevsStay DEF Now
<1>5. WriterFits(p)'
  <2>1. pc'[p] = "write" /\ temp'[p] = f /\ SavedRev(p)' = SavedRev(p)
    BY <1>1 DEF IInv, TypeOK, SavedRev
  <2> QED BY <1>1, <1>3, <1>4, <2>1 DEF WriterFits, Writing
<1>6. ASSUME NEW q \in Procs, q # p PROVE WriterFits(q)'
  <2>1. pc'[q] = pc[q] /\ temp'[q] = temp[q]
    BY <1>1, <1>6 DEF IInv, TypeOK
  <2> QED BY <1>1, <1>3, <1>4, <2>1, OtherFits
<1> QED BY <1>4, <1>5, <1>6

LEMMA WriteFits ==
    ASSUME AheadInv, NEW p \in Procs, WriteSome(p) \/ WriteRest(p) \/ Sync(p)
    PROVE  StateNotAhead' /\ \A q \in Procs : WriterFits(q)'
<1> USE DEF AheadInv
<1>1. /\ pc[p] \in Writing /\ \E step \in Writing : pc' = [pc EXCEPT ![p] = step]
      /\ UNCHANGED <<rev, past, todo, temp, opened, seen, answer>>
  BY DEF WriteSome, WriteRest, Sync, Go, Writing, memory
<1>2. Now' = Now /\ Present' = Present /\ StateNotAhead'
  BY <1>1, RevsStay DEF Now
<1>3. WriterFits(p)'
  <2>1. pc'[p] \in Writing /\ SavedRev(p)' = SavedRev(p)
    BY <1>1 DEF IInv, TypeOK, SavedRev
  <2> QED BY <1>1, <1>2, <2>1 DEF WriterFits, Writing
<1>4. ASSUME NEW q \in Procs, q # p PROVE WriterFits(q)'
  <2>1. pc'[q] = pc[q]
    BY <1>1, <1>4 DEF IInv, TypeOK
  <2> QED BY <1>1, <1>2, <2>1, OtherFits
<1> QED BY <1>2, <1>3, <1>4

(* What a save that is due puts under its name keeps the order of the two  *)
(* revisions, and after the vault with the answer's rows the vault has the *)
(* answer.                                                                 *)
LEMMA SavedFits ==
    ASSUME AheadInv, NEW p \in Procs, pc[p] \in Writing, Saves(p)
    PROVE  LET x == Head(todo[p]).path
               new == [Present EXCEPT ![x] = rev[temp[p]]]
           IN  /\ x \in Paths
               /\ new["state"] =< new["vault"]
               /\ VaultAnswer(Head(todo[p])) => answer[p] =< new["vault"]
<1> USE DEF AheadInv
<1> DEFINE o == Head(todo[p])
           n == answer[p]
<1>1. /\ todo[p] \in Seq(Ops) /\ todo[p] # <<>> /\ o.op = "save" /\ rev[temp[p]] = SavedRev(p)
      /\ ReadyFor(todo[p], seen[p], n, Present)
  BY WriterFacts DEF WriterFits, Writing
<1>2. o.path \in Paths /\ o.rev \in Sources
  BY <1>1, OpFacts
<1>3. /\ o.rev # "zero"
      /\ FromLoad(o) => seen[p][o.path] = Present[o.path]
      /\ FromAnswer(o) => n =< Present["vault"]
  BY <1>1, SaveDue
<1>4. Present \in [Paths -> Nat] /\ Present["state"] =< Present["vault"]
  <2>1. \A y \in Paths : RevOf(Now[y]) \in Nat
    BY BoundFacts DEF IInv
  <2>2. RevOf(Now["state"]) =< RevOf(Now["vault"])
    BY NowFacts DEF StateNotAhead
  <2> QED BY <2>1, <2>2, NowFacts DEF Present
<1>5. n \in Nat /\ "state" \in Paths /\ "vault" \in Paths
  BY WriterFacts, NowFacts
<1> HIDE DEF o, n
<1>6. CASE o.rev = "kept"
  <2>1. SavedRev(p) = Present[o.path]
    BY <1>3, <1>6 DEF SavedRev, FromLoad, o
  <2> QED BY <1>1, <1>2, <1>4, <1>5, <1>6, <2>1 DEF VaultAnswer, o
<1>7. CASE o.rev = "answer" /\ o.path = "vault"
  <2>1. SavedRev(p) = IF Present["vault"] > n THEN Present["vault"] ELSE n
    BY <1>3, <1>7 DEF SavedRev, FromLoad, o, n
  <2> QED BY <1>1, <1>4, <1>5, <1>7, <2>1 DEF o, n
<1>8. CASE o.rev = "answer" /\ o.path = "state"
  <2>1. SavedRev(p) = n /\ n =< Present["vault"]
    BY <1>3, <1>8 DEF SavedRev, FromAnswer, o, n
  <2> QED BY <1>1, <1>4, <1>5, <1>8, <2>1 DEF VaultAnswer, SaveOf, o
<1> QED BY <1>2, <1>3, <1>6, <1>7, <1>8 DEF Sources, Paths

LEMMA RenameFits ==
    ASSUME AheadInv, OneWriter, NEW p \in Procs, Rename(p)
    PROVE  StateNotAhead' /\ \A q \in Procs : WriterFits(q)'
<1> USE DEF AheadInv
<1> DEFINE x == Head(todo[p]).path
           dir == [Now EXCEPT ![x] = temp[p]]
           new == [Present EXCEPT ![x] = rev[temp[p]]]
<1>1. /\ pc[p] = "rename" /\ past' = Append(past, dir) /\ temp' = [temp EXCEPT ![p] = 0]
      /\ Learn(p, seen[p], answer[p]) /\ Done(p)
      /\ UNCHANGED <<made, cached, stored, rev, opened>>
  BY DEF Rename
<1>2. /\ todo[p] \in Seq(Ops) /\ todo[p] # <<>> /\ Head(todo[p]).op = "save"
      /\ temp[p] \in 1 .. made /\ pc[p] \in Writing
  BY <1>1, WriterFacts DEF WriterFits, Writing
<1>3. Saves(p)
  BY <1>2, TailSaves DEF WriterFits
<1>4. /\ x \in Paths /\ new["state"] =< new["vault"]
      /\ VaultAnswer(Head(todo[p])) => answer[p] =< new["vault"]
  BY <1>2, <1>3, SavedFits
<1>a. Now \in [Paths -> 0 .. made] /\ made \in Nat
  BY BoundFacts DEF IInv
<1>b. temp[p] \in 0 .. made
  BY <1>2, <1>a
<1>5. Now \in [Paths -> 0 .. made] /\ dir \in [Paths -> 0 .. made] /\ made \in Nat
  BY <1>a, <1>b
<1>6. Now' = dir
  <2>1. past' \in Seq([Paths -> 0 .. made]) /\ Len(past') = Len(past) + 1 /\ past'[Len(past) + 1] = dir
    BY <1>1, <1>5, NowFacts
  <2> QED BY <2>1 DEF Now
<1>7. \A y \in Paths : Present'[y] = new[y] /\ (RevOf(dir[y]) = new[y])
  BY <1>1, <1>2, <1>4, <1>5, <1>6, BoundFacts DEF Present, RevOf, IInv
<1>8. StateNotAhead'
  <2>1. \A k \in 1 .. Len(past') : (k \in 1 .. Len(past) /\ past'[k] = past[k]) \/ past'[k] = dir
    BY <1>1, <1>5, NowFacts, PastFacts
  <2>2. RevOf(dir["state"]) =< RevOf(dir["vault"])
    BY <1>4, <1>7, NowFacts
  <2>3. \A f : RevOf(f)' = RevOf(f)
    BY <1>1 DEF RevOf
  <2> QED BY <2>1, <2>2, <2>3 DEF StateNotAhead, RevOf
<1>9. ReadyFor(Tail(todo[p]), seen[p], answer[p], Present')
  <2>1. ReadyFor(todo[p], seen[p], answer[p], Present)
    BY <1>3 DEF WriterFits
  <2>2. \A y \in Paths : y # x => Present'[y] = Present[y]
    BY <1>7 DEF Present
  <2>3. VaultAnswer(Head(todo[p])) => answer[p] =< Present'["vault"]
    BY <1>4, <1>7, NowFacts
  <2> QED BY <1>2, <2>1, <2>2, <2>3, AfterSave
<1>10. seen[p] \in [Paths -> 0 .. MaxRev] /\ answer[p] \in 0 .. MaxRev
  BY DEF IInv, TypeOK
<1>11. /\ todo'[p] = Tail(todo[p]) /\ pc'[p] \in {"idle", "ready"}
       /\ ReadyFor(todo'[p], seen'[p], answer'[p], Present')
       /\ \A q \in Procs \ {p} : /\ pc'[q] = pc[q] /\ todo'[q] = todo[q]
                                 /\ seen'[q] = seen[q] /\ answer'[q] = answer[q]
  BY <1>1, <1>2, <1>9, <1>10, LeftOver
<1>12. WriterFits(p)'
  BY <1>3, <1>11 DEF WriterFits, Writing
<1>13. ASSUME NEW q \in Procs, q # p PROVE WriterFits(q)'
  <2>1. ~ Saves(q)
    BY <1>3, <1>13 DEF OneWriter
  <2>2. temp'[q] = temp[q] /\ opened'[q] = opened[q] /\ \A f \in 1 .. made : rev'[f] = rev[f]
    BY <1>1, <1>13 DEF IInv, TypeOK
  <2> QED BY <1>11, <1>13, <2>1, <2>2, OtherFits
<1> QED BY <1>8, <1>12, <1>13

LEMMA StopFits ==
    ASSUME AheadInv, NEW p \in Procs, Stop(p)
    PROVE  StateNotAhead' /\ \A q \in Procs : WriterFits(q)'
<1> USE DEF AheadInv
<1>1. /\ pc' = [pc EXCEPT ![p] = "idle"] /\ todo' = [todo EXCEPT ![p] = <<>>]
      /\ temp' = [temp EXCEPT ![p] = 0] /\ opened' = [opened EXCEPT ![p] = 0]
      /\ seen' = [seen EXCEPT ![p] = NoFiles] /\ answer' = [answer EXCEPT ![p] = 0]
      /\ UNCHANGED <<made, cached, stored, rev, past>>
  BY DEF Stop, Go, disk
<1>2. Now' = Now /\ StateNotAhead'
  BY <1>1, RevsStay DEF Now
<1>3. WriterFits(p)'
  <2>1. pc'[p] = "idle" /\ todo'[p] = <<>> /\ Len(<<>>) = 0
    BY <1>1 DEF IInv, TypeOK
  <2>2. ~ SavesIn(todo'[p]) /\ \A known, n, present : ReadyFor(todo'[p], known, n, present)
    BY <2>1, NoOps
  <2> QED BY <2>1, <2>2 DEF WriterFits, Writing
<1>4. ASSUME NEW q \in Procs, q # p PROVE WriterFits(q)'
  <2>1. /\ pc'[q] = pc[q] /\ todo'[q] = todo[q] /\ temp'[q] = temp[q] /\ opened'[q] = opened[q]
        /\ seen'[q] = seen[q] /\ answer'[q] = answer[q]
    BY <1>1, <1>4 DEF IInv, TypeOK
  <2> QED BY <1>1, <1>2, <2>1, OtherFits
<1> QED BY <1>2, <1>3, <1>4

(* Writing back changes nothing a process sees.                            *)
LEMMA KernelFits ==
    ASSUME AheadInv, Flush \/ Settle \/ UNCHANGED vars
    PROVE  StateNotAhead' /\ \A q \in Procs : WriterFits(q)'
<1> USE DEF AheadInv
<1>1. UNCHANGED <<rev, pc, todo, temp, opened, seen, answer>>
  BY DEF Flush, Settle, vars, memory
<1>2. Now' = Now /\ StateNotAhead'
  <2>1. CASE UNCHANGED past
    BY <1>1, <2>1, RevsStay DEF Now
  <2>2. CASE Settle
    <3>1. /\ Len(past) > 1 /\ past' = Tail(past)
          /\ past \in Seq([Paths -> 0 .. made]) /\ past # <<>>
      BY <2>2, NowFacts DEF Settle
    <3>2. \A k \in 1 .. Len(past') : k + 1 \in 1 .. Len(past) /\ past'[k] = past[k + 1]
      BY <3>1, PastFacts
    <3>3. Len(past') = Len(past) - 1 /\ Len(past') \in 1 .. Len(past') /\ Len(past) \in Nat
      BY <3>1
    <3>4. Now' = Now
      BY <3>2, <3>3 DEF Now
    <3>5. \A f : RevOf(f)' = RevOf(f)
      BY <1>1 DEF RevOf
    <3> QED BY <3>2, <3>4, <3>5 DEF StateNotAhead, RevOf
  <2> QED BY <2>1, <2>2 DEF Flush, vars
<1>3. ASSUME NEW q \in Procs PROVE WriterFits(q)'
  BY <1>1, <1>2, OtherFits
<1> QED BY <1>2, <1>3

LEMMA PowerFits ==
    ASSUME AheadInv, PowerLoss
    PROVE  StateNotAhead' /\ \A q \in Procs : WriterFits(q)'
<1> USE DEF AheadInv
<1>1. /\ past' = <<Head(past)>> /\ rev' = rev
      /\ pc' = [q \in Procs |-> "idle"] /\ todo' = [q \in Procs |-> <<>>]
  BY DEF PowerLoss
<1>2. StateNotAhead'
  <2>1. 1 \in 1 .. Len(past) /\ \A k \in 1 .. Len(past') : past'[k] = past[1]
    BY <1>1, NowFacts, PastFacts
  <2> QED BY <1>1, <2>1 DEF StateNotAhead, RevOf
<1>3. ASSUME NEW q \in Procs PROVE WriterFits(q)'
  <2>1. pc'[q] = "idle" /\ todo'[q] = <<>> /\ Len(<<>>) = 0
    BY <1>1
  <2>2. ~ SavesIn(todo'[q]) /\ \A known, n, present : ReadyFor(todo'[q], known, n, present)
    BY <2>1, NoOps
  <2> QED BY <2>1, <2>2 DEF WriterFits, Writing
<1> QED BY <1>2, <1>3

LEMMA AheadInit == Init => AheadInv
<1> SUFFICES ASSUME Init PROVE AheadInv
  OBVIOUS
<1>1. IInv
  BY TypeInit
<1>2. StateNotAhead
  BY DEF Init, StateNotAhead, NoFiles, RevOf, Paths
<1>3. ASSUME NEW q \in Procs PROVE WriterFits(q)
  <2>1. pc[q] = "idle" /\ todo[q] = <<>> /\ Len(<<>>) = 0
    BY DEF Init
  <2>2. ~ SavesIn(todo[q]) /\ \A known, n, present : ReadyFor(todo[q], known, n, present)
    BY <2>1, NoOps
  <2> QED BY <2>1, <2>2 DEF WriterFits, Writing
<1> QED BY <1>1, <1>2, <1>3 DEF AheadInv

LEMMA AheadStep == OneWriter /\ OrderlyScripts /\ AheadInv /\ [Next]_vars => AheadInv'
<1> SUFFICES ASSUME OneWriter, OrderlyScripts, AheadInv, [Next]_vars PROVE AheadInv'
  OBVIOUS
<1>1. IInv'
  BY InvStep DEF AheadInv
<1>2. StateNotAhead' /\ \A q \in Procs : WriterFits(q)'
  BY StartFits, OpenFits, ReadFits, CreateFits, WriteFits, RenameFits, StopFits,
     KernelFits, PowerFits
  DEF Next, Step
<1> QED BY <1>1, <1>2 DEF AheadInv

(* If one process at a time saves, and its commands are orderly,           *)
(* LastSyncedRev is never ahead of the vault, now or after a power loss,   *)
(* wherever commands are killed.                                           *)
THEOREM OrderKept == OneWriter /\ OrderlyScripts => (Spec => []StateNotAhead)
<1> SUFFICES ASSUME OneWriter, OrderlyScripts PROVE Spec => []StateNotAhead
  OBVIOUS
<1>1. AheadInv /\ [Next]_vars => AheadInv'
  BY AheadStep
<1>2. AheadInv => StateNotAhead
  BY DEF AheadInv
<1> QED BY <1>1, <1>2, AheadInit, PTL DEF Spec

(* The commands of one account are orderly: all but a login as another     *)
(* user.                                                                   *)
LEMMA ReadersOrderly == Orderly(ListScript) /\ Orderly(GetScript)
BY DEF Orderly, ListScript, GetScript, Load

(* A script whose only saves are its last operation, of the vault as it    *)
(* was loaded just before.                                                 *)
LEMMA KeptOrderly ==
    ASSUME NEW s \in Seq(Ops), Len(s) > 1,
           \A k \in 1 .. Len(s) - 1 : s[k].op = "load",
           s[Len(s) - 1] = Load("vault"), s[Len(s)] = Save("vault", "kept")
    PROVE  Orderly(s)
<1>1. Len(s) \in Nat /\ Len(s) - 1 \in 1 .. Len(s) - 1
  OBVIOUS
<1>2. LoadedBefore(s, Len(s))
  BY <1>1 DEF LoadedBefore, SaveOf, Load, Save
<1>3. ASSUME NEW k \in 1 .. Len(s), s[k].op = "save" PROVE k = Len(s)
  BY <1>1, <1>3
<1> QED BY <1>2, <1>3 DEF Orderly, Save, FromAnswer

LEMMA SetDeleteOrderly == Orderly(SetScript) /\ Orderly(DeleteScript)
<1>1. Load("state") \in Ops /\ Load("vault") \in Ops /\ Save("vault", "kept") \in Ops
  BY DEF Load, Save, Ops, Paths, Sources
<1>2. SetScript \in Seq(Ops) /\ DeleteScript \in Seq(Ops)
  BY <1>1 DEF SetScript, DeleteScript
<1>3. Orderly(SetScript)
  <2>1. Len(SetScript) = 4
    BY DEF SetScript
  <2>2. /\ SetScript[3] = Load("vault") /\ SetScript[4] = Save("vault", "kept")
        /\ \A k \in 1 .. 3 : SetScript[k].op = "load"
    BY DEF SetScript, Load
  <2>3. Len(SetScript) > 1 /\ Len(SetScript) - 1 = 3
    BY <2>1
  <2>4. /\ SetScript[Len(SetScript) - 1] = Load("vault")
        /\ SetScript[Len(SetScript)] = Save("vault", "kept")
        /\ \A k \in 1 .. Len(SetScript) - 1 : SetScript[k].op = "load"
    BY ONLY <2>1, <2>2, <2>3
  <2> QED BY <1>2, <2>3, <2>4, KeptOrderly
<1>4. Orderly(DeleteScript)
  <2>1. Len(DeleteScript) = 3
    BY DEF DeleteScript
  <2>2. /\ DeleteScript[2] = Load("vault") /\ DeleteScript[3] = Save("vault", "kept")
        /\ \A k \in 1 .. 2 : DeleteScript[k].op = "load"
    BY DEF DeleteScript, Load
  <2>3. Len(DeleteScript) > 1 /\ Len(DeleteScript) - 1 = 2
    BY <2>1
  <2>4. /\ DeleteScript[Len(DeleteScript) - 1] = Load("vault")
        /\ DeleteScript[Len(DeleteScript)] = Save("vault", "kept")
        /\ \A k \in 1 .. Len(DeleteScript) - 1 : DeleteScript[k].op = "load"
    BY ONLY <2>1, <2>2, <2>3
  <2> QED BY <1>2, <2>3, <2>4, KeptOrderly
<1> QED BY <1>3, <1>4

(* Some loads and saves, and then a sync.                                  *)
LEMMA ThenSync ==
    ASSUME NEW a \in Seq(Ops)
    PROVE  LET s == a \o SyncPart
               n == Len(a)
           IN  /\ n \in Nat /\ Len(s) = n + 4
               /\ \A k \in 1 .. n : s[k] = a[k]
               /\ s[n + 1] = Load("state") /\ s[n + 2] = Load("vault")
               /\ s[n + 3] = Save("vault", "answer") /\ s[n + 4] = Save("state", "answer")
<1>1. /\ Load("state") \in Ops /\ Load("vault") \in Ops
      /\ Save("vault", "answer") \in Ops /\ Save("state", "answer") \in Ops
  BY DEF Load, Save, Ops, Paths, Sources
<1>2. /\ SyncPart \in Seq(Ops) /\ Len(SyncPart) = 4
      /\ SyncPart[1] = Load("state") /\ SyncPart[2] = Load("vault")
      /\ SyncPart[3] = Save("vault", "answer") /\ SyncPart[4] = Save("state", "answer")
  BY <1>1 DEF SyncPart
<1>3. ASSUME NEW b \in Seq(Ops)
      PROVE  /\ Len(a) \in Nat /\ Len(a \o b) = Len(a) + Len(b)
             /\ \A k \in 1 .. Len(a) : (a \o b)[k] = a[k]
             /\ \A k \in 1 .. Len(b) : (a \o b)[Len(a) + k] = b[k]
  OBVIOUS
<1>4. 1 \in 1 .. 4 /\ 2 \in 1 .. 4 /\ 3 \in 1 .. 4 /\ 4 \in 1 .. 4
  OBVIOUS
<1> QED BY <1>2, <1>3, <1>4

LEMMA SyncOrderly == Orderly(SyncScript)
<1> DEFINE s == SyncScript
           a == <<Load("state")>>
<1>1. a \in Seq(Ops) /\ Len(a) = 1 /\ a[1] = Load("state")
  BY DEF Load, Ops, Paths, Sources
<1> HIDE DEF a
<1>2. /\ Len(s) = 5 /\ s[1] = Load("state") /\ s[2] = Load("state") /\ s[3] = Load("vault")
      /\ s[4] = Save("vault", "answer") /\ s[5] = Save("state", "answer")
  <2>1. s = a \o SyncPart
    BY DEF SyncScript, a
  <2> HIDE DEF s
  <2>2. /\ Len(s) = Len(a) + 4 /\ \A k \in 1 .. Len(a) : s[k] = a[k]
        /\ s[Len(a) + 1] = Load("state") /\ s[Len(a) + 2] = Load("vault")
        /\ s[Len(a) + 3] = Save("vault", "answer") /\ s[Len(a) + 4] = Save("state", "answer")
    BY <1>1, <2>1, ThenSync
  <2>3. 1 + 1 = 2 /\ 1 + 2 = 3 /\ 1 + 3 = 4 /\ 1 + 4 = 5 /\ 1 \in 1 .. 1
    OBVIOUS
  <2> QED BY <1>1, <2>2, <2>3
<1> HIDE DEF s
<1>3. LoadedBefore(s, 4)
  <2>1. 3 \in 1 .. 4 - 1 /\ \A m \in 3 + 1 .. 4 - 1 : FALSE
    OBVIOUS
  <2> QED BY <1>2, <2>1 DEF LoadedBefore, Load, Save
<1>4. \A k \in 1 .. Len(s) : s[k].op = "save" => k = 4 \/ k = 5
  BY <1>2 DEF Load
<1>5. ~ FromLoad(s[5]) /\ VaultAnswer(s[4]) /\ ~ FromAnswer(s[4]) /\ s[4].rev # "zero" /\ s[5].rev # "zero"
  BY <1>2 DEF FromLoad, FromAnswer, VaultAnswer, SaveOf, Save
<1>6. 5 - 1 = 4 /\ 5 > 1
  OBVIOUS
<1>7. Orderly(s)
  BY <1>3, <1>4, <1>5, <1>6 DEF Orderly
<1> QED BY <1>7 DEF s

LEMMA AgainOrderly == Orderly(AgainScript)
<1> DEFINE s == AgainScript
           a == <<Load("state"), Load("state"), Save("state", "kept")>>
<1>1. /\ a \in Seq(Ops) /\ Len(a) = 3
      /\ a[1] = Load("state") /\ a[2] = Load("state") /\ a[3] = Save("state", "kept")
  <2>1. Load("state") \in Ops /\ Save("state", "kept") \in Ops
    BY DEF Load, Save, Ops, Paths, Sources
  <2> QED BY <2>1
<1> HIDE DEF a
<1>2. /\ Len(s) = 7 /\ s[1] = Load("state") /\ s[2] = Load("state") /\ s[3] = Save("state", "kept")
      /\ s[4] = Load("state") /\ s[5] = Load("vault")
      /\ s[6] = Save("vault", "answer") /\ s[7] = Save("state", "answer")
  <2>1. s = a \o SyncPart
    BY DEF AgainScript, a
  <2> HIDE DEF s
  <2>2. /\ Len(s) = Len(a) + 4 /\ \A k \in 1 .. Len(a) : s[k] = a[k]
        /\ s[Len(a) + 1] = Load("state") /\ s[Len(a) + 2] = Load("vault")
        /\ s[Len(a) + 3] = Save("vault", "answer") /\ s[Len(a) + 4] = Save("state", "answer")
    BY <1>1, <2>1, ThenSync
  <2>3. 3 + 1 = 4 /\ 3 + 2 = 5 /\ 3 + 3 = 6 /\ 3 + 4 = 7 /\ \A k \in {1, 2, 3} : k \in 1 .. 3
    OBVIOUS
  <2> QED BY <1>1, <2>2, <2>3
<1> HIDE DEF s
<1>3. LoadedBefore(s, 3)
  <2>1. 2 \in 1 .. 3 - 1 /\ \A m \in 2 + 1 .. 3 - 1 : FALSE
    OBVIOUS
  <2> QED BY <1>2, <2>1 DEF LoadedBefore, Load, Save
<1>4. LoadedBefore(s, 6)
  <2>1. 5 \in 1 .. 6 - 1 /\ \A m \in 5 + 1 .. 6 - 1 : FALSE
    OBVIOUS
  <2> QED BY <1>2, <2>1 DEF LoadedBefore, Load, Save
<1>5. \A k \in 1 .. Len(s) : s[k].op = "save" => k = 3 \/ k = 6 \/ k = 7
  BY <1>2 DEF Load
<1>6. /\ ~ FromLoad(s[7]) /\ VaultAnswer(s[6]) /\ ~ FromAnswer(s[6]) /\ ~ FromAnswer(s[3])
      /\ s[3].rev # "zero" /\ s[6].rev # "zero" /\ s[7].rev # "zero"
  BY <1>2 DEF FromLoad, FromAnswer, VaultAnswer, SaveOf, Save
<1>7. 7 - 1 = 6 /\ 7 > 1
  OBVIOUS
<1>8. Orderly(s)
  BY <1>3, <1>4, <1>5, <1>6, <1>7 DEF Orderly
<1> QED BY <1>8 DEF s

(* The commands of one account are orderly; so the theorem holds of them,  *)
(* one writing at a time and any number reading.                           *)
OneAccount ==
    \A p \in Procs :
        Scripts[p] \subseteq {ListScript, GetScript, SetScript, DeleteScript, SyncScript, AgainScript}

THEOREM StateNeverAhead == OneWriter /\ OneAccount => (Spec => []StateNotAhead)
<1>1. OneAccount => OrderlyScripts
  BY ReadersOrderly, SetDeleteOrderly, SyncOrderly, AgainOrderly DEF OneAccount, OrderlyScripts
<1> QED BY <1>1, OrderKept
=============================================================================
