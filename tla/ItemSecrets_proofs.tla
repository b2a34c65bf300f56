-------------------------- MODULE ItemSecrets_proofs --------------------------
(***************************************************************************)
(* Theorems about ItemSecrets, for every set of accounts, items, devices,  *)
(* passwords and types: what an item was sealed with stays with its row,   *)
(* on the server, in an answer, in a vault and in a get's hands.           *)
(***************************************************************************)
EXTENDS ItemSecrets, TLAPS

-----------------------------------------------------------------------------
(* The inductive invariant.                                                *)

(* A live row of item i holds what user u was asked to seal for this item, *)
(* under the row's own nonce and type, as the log of requests has it.      *)
Sealed(log, u, i, row) ==
    row # NoRow /\ ~ row.deleted =>
        LET n == row.nonce IN
        /\ n \in 1 .. Len(log)
        /\ log[n].user = u
        /\ log[n].item = i
        /\ log[n].type = row.type
        /\ row.ciphertext = Encrypt(n, DeriveKey(log[n].pw, u), [type |-> row.type, data |-> n],
                                    <<i, row.type>>)

RowsSealed(log, u, rows) == \A i \in Items : Sealed(log, u, i, rows[i])

(* What a get holds: nothing, or a row it loaded.                          *)
Gets == [row : Rows, item : Items, pw : Passwords, toFile : BOOLEAN]
Readings == {<<>>} \cup {<<g>> : g \in Gets}

Typed == TypeOK /\ reader \in [Devices -> Readings]

ServerSealed == \A u \in Users : RowsSealed(asked, u, items[u])

(* The vault and the answer are of the account in the state file, also     *)
(* while a login is about to change that account: until then there is no   *)
(* answer, and the vault has nothing of the old account left.              *)
FilesFit(d) ==
    /\ RowsSealed(asked, state[d].user, vault[d])
    /\ RowsSealed(asked, state[d].user, got[d].rows)
    /\ pc[d] \in {"idle", "wipe", "save_login"} => got[d] = NoAnswer
    /\ pc[d] \in {"wipe", "save_login"} => who[d] \in Users
    /\ pc[d] = "save_login" => RowsSealed(asked, who[d], vault[d])
    /\ pc[d] = "ask" => state[d].user \in Users

(* A get's row is some account's, not always the present one's.            *)
ReadingFits(d) ==
    reader[d] # <<>> =>
        LET g == Head(reader[d]) IN
        /\ RowCheck(g.row) = "ok"
        /\ \E u \in Users : Sealed(asked, u, g.item, g.row)

ShownFits(d) ==
    shown[d].result = "ok" =>
        /\ shown[d].data \in 1 .. Len(asked)
        /\ asked[shown[d].data].user = shown[d].as

DevicesFit == \A d \in Devices : FilesFit(d) /\ ReadingFits(d) /\ ShownFits(d)

IInv == Typed /\ ServerSealed /\ DevicesFit

-----------------------------------------------------------------------------
(* Rows.                                                                   *)

LEMMA NoRowFacts ==
    /\ NoRow \in Rows /\ NoRows \in [Items -> Rows]
    /\ NoAnswer \in [latest : 0 .. MaxRev, rows : [Items -> Rows]]
    /\ NoState \in [user : Users \cup {Nobody}, rev : 0 .. MaxRev]
<1>1. NoRow \in Rows
  BY BinaryAssumption, BoundsAssumption DEF NoRow, NoNonce, Rows, DummyNonce
<1> QED BY <1>1, BoundsAssumption DEF NoRows, NoAnswer, NoState

LEMMA NothingSealed ==
    ASSUME NEW log, NEW u
    PROVE  /\ \A i : Sealed(log, u, i, NoRow)
           /\ RowsSealed(log, u, NoRows) /\ RowsSealed(log, u, NoAnswer.rows)
BY DEF Sealed, RowsSealed, NoRows, NoAnswer

(* What a row was sealed with is in every longer log.                      *)
LEMMA LongerLog ==
    ASSUME NEW log, NEW longer, Len(log) \in Nat, Len(longer) \in Nat,
           Len(log) =< Len(longer), \A n \in 1 .. Len(log) : longer[n] = log[n]
    PROVE  /\ \A u, i, row : Sealed(log, u, i, row) => Sealed(longer, u, i, row)
           /\ \A u, rows : RowsSealed(log, u, rows) => RowsSealed(longer, u, rows)
<1>1. ASSUME NEW u, NEW i, NEW row, Sealed(log, u, i, row)
      PROVE  Sealed(longer, u, i, row)
  <2> SUFFICES ASSUME row # NoRow, ~ row.deleted PROVE Sealed(longer, u, i, row)
    BY DEF Sealed
  <2>1. row.nonce \in 1 .. Len(log) /\ longer[row.nonce] = log[row.nonce]
    BY <1>1 DEF Sealed
  <2>2. row.nonce \in 1 .. Len(longer)
    BY <2>1
  <2> QED BY <1>1, <2>1, <2>2 DEF Sealed
<1> QED BY <1>1 DEF RowsSealed

(* A tombstone holds nothing to open.                                      *)
LEMMA DeadSealed ==
    ASSUME NEW log, NEW u, NEW i, NEW row, row.deleted
    PROVE  Sealed(log, u, i, row)
BY DEF Sealed

LEMMA SanitizedFacts ==
    ASSUME NEW row \in Rows
    PROVE  /\ Sanitized(row) \in Rows
           /\ \A log, u, i : Sealed(log, u, i, row) => Sealed(log, u, i, Sanitized(row))
<1>1. CASE row.deleted
  <2>1. /\ Sanitized(row) = [row EXCEPT !.ciphertext = NoBox, !.nonce = NoNonce]
        /\ Sanitized(row).deleted
    BY <1>1 DEF Sanitized, Rows
  <2>2. NoBox \in Boxes \cup {NoBox} /\ NoNonce \in 0 .. DummyNonce
    BY BoundsAssumption DEF NoNonce, DummyNonce
  <2>3. Sanitized(row) \in Rows
    BY <2>1, <2>2 DEF Rows
  <2> QED BY <2>1, <2>3, DeadSealed
<1>2. CASE ~ row.deleted
  BY <1>2 DEF Sanitized
<1> QED BY <1>1, <1>2

(* What the log holds.                                                     *)
Requests == [user : Users, item : Items, pw : Passwords, type : Types]

LEMMA LogFacts ==
    ASSUME Typed
    PROVE  /\ asked \in Seq(Requests) /\ Len(asked) \in Nat /\ Len(asked) =< MaxSealed
           /\ \A n \in 1 .. Len(asked) : /\ asked[n] \in Requests
                                        /\ asked[n].user \in Users /\ asked[n].pw \in Passwords
<1>1. asked \in Seq(Requests) /\ Len(asked) =< MaxSealed
  BY DEF Typed, TypeOK, Requests
<1>2. Len(asked) \in Nat /\ \A n \in 1 .. Len(asked) : asked[n] \in Requests
  BY <1>1
<1> QED BY <1>1, <1>2 DEF Requests

(* What a reading is, as the type invariant has it.                        *)
LEMMA ReadingTypes ==
    ASSUME NEW r \in Readings, r # <<>>
    PROVE  Head(r) \in [row : Rows, item : Items, pw : Passwords, toFile : BOOLEAN]
BY DEF Readings, Gets

(* A row no account's user sealed is absent or a tombstone, which fit any  *)
(* account.                                                                *)
LEMMA NobodysRows ==
    ASSUME Typed, NEW u, NEW rows, RowsSealed(asked, Nobody, rows)
    PROVE  RowsSealed(asked, u, rows)
<1>1. \A n \in 1 .. Len(asked) : asked[n].user # Nobody
  BY NobodyAssumption, LogFacts
<1> QED BY <1>1 DEF RowsSealed, Sealed

-----------------------------------------------------------------------------
(* What a step leaves alone.                                               *)

LogGrows ==
    /\ Len(asked) \in Nat /\ Len(asked') \in Nat /\ Len(asked) =< Len(asked')
    /\ \A n \in 1 .. Len(asked) : asked'[n] = asked[n]

LEMMA SealsStay ==
    ASSUME LogGrows
    PROVE  /\ \A u, i, row : Sealed(asked, u, i, row) => Sealed(asked', u, i, row)
           /\ \A u, rows : RowsSealed(asked, u, rows) => RowsSealed(asked', u, rows)
BY LongerLog DEF LogGrows

LEMMA ServerStays ==
    ASSUME ServerSealed, LogGrows, items' = items
    PROVE  ServerSealed'
BY SealsStay DEF ServerSealed

LEMMA FilesStay ==
    ASSUME NEW d \in Devices, FilesFit(d), LogGrows, state'[d].user = state[d].user,
           vault'[d] = vault[d], pc'[d] = pc[d], who'[d] = who[d], got'[d] = got[d]
    PROVE  FilesFit(d)'
BY SealsStay DEF FilesFit

LEMMA ReadingStays ==
    ASSUME NEW d \in Devices, ReadingFits(d), LogGrows, reader'[d] = reader[d]
    PROVE  ReadingFits(d)'
BY SealsStay DEF ReadingFits

LEMMA ShownStays ==
    ASSUME NEW d \in Devices, ShownFits(d), LogGrows, shown'[d] = shown[d]
    PROVE  ShownFits(d)'
<1>1. shown[d].result = "ok" => shown[d].data \in 1 .. Len(asked')
  BY DEF ShownFits, LogGrows
<1> QED BY <1>1 DEF ShownFits, LogGrows

(* A command's step changes only its own device's files and memory.        *)
LEMMA WriterStep ==
    ASSUME IInv, NEW d \in Devices, LogGrows, UNCHANGED gets,
           FilesFit(d)', Typed', ServerSealed',
           \A e \in Devices \ {d} :
                /\ state'[e] = state[e] /\ vault'[e] = vault[e]
                /\ pc'[e] = pc[e] /\ who'[e] = who[e] /\ got'[e] = got[e]
    PROVE  IInv'
<1>1. ASSUME NEW e \in Devices
      PROVE  FilesFit(e)' /\ ReadingFits(e)' /\ ShownFits(e)'
  <2>1. FilesFit(e)'
    BY FilesStay DEF IInv, DevicesFit
  <2> QED BY <2>1, ReadingStays, ShownStays DEF IInv, DevicesFit, gets
<1> QED BY <1>1 DEF IInv, DevicesFit

(* A get's step changes only its own device's reading and outcome.         *)
LEMMA GetStep ==
    ASSUME IInv, NEW d \in Devices, UNCHANGED <<server, files, writer, asked>>,
           ReadingFits(d)', ShownFits(d)', Typed',
           \A e \in Devices \ {d} : reader'[e] = reader[e] /\ shown'[e] = shown[e]
    PROVE  IInv'
<1>0. LogGrows
  BY LogFacts DEF LogGrows, IInv
<1>1. ASSUME NEW e \in Devices
      PROVE  FilesFit(e)' /\ ReadingFits(e)' /\ ShownFits(e)'
  BY <1>0, FilesStay, ReadingStays, ShownStays DEF IInv, DevicesFit, files, writer
<1> QED BY <1>0, <1>1, ServerStays DEF IInv, DevicesFit, server

-----------------------------------------------------------------------------
(* Commands that change files.                                             *)

LEMMA ExitFacts ==
    ASSUME IInv, NEW d \in Devices, Exit(d)
    PROVE  /\ pc' \in [Devices -> Steps] /\ who' \in [Devices -> Users \cup {Nobody}]
           /\ got' \in [Devices -> [latest : 0 .. MaxRev, rows : [Items -> Rows]]]
           /\ pc'[d] = "idle" /\ got'[d] = NoAnswer
           /\ \A e \in Devices \ {d} : pc'[e] = pc[e] /\ who'[e] = who[e] /\ got'[e] = got[e]
BY NoRowFacts DEF Exit, Go, IInv, Typed, TypeOK, Steps

LEMMA SameLog == ASSUME IInv, UNCHANGED asked PROVE LogGrows
BY LogFacts DEF LogGrows, IInv

(* Steps that leave the server and the gets alone.                         *)
LEMMA QuietType ==
    ASSUME IInv, UNCHANGED <<server, gets, asked>>,
           state' \in [Devices -> [user : Users \cup {Nobody}, rev : 0 .. MaxRev]],
           vault' \in [Devices -> [Items -> Rows]],
           pc' \in [Devices -> Steps], who' \in [Devices -> Users \cup {Nobody}],
           got' \in [Devices -> [latest : 0 .. MaxRev, rows : [Items -> Rows]]]
    PROVE  Typed' /\ ServerSealed'
<1>1. Typed'
  BY DEF IInv, Typed, TypeOK, server, gets
<1>2. ServerSealed'
  BY SameLog, ServerStays DEF IInv, server
<1> QED BY <1>1, <1>2

LEMMA FileTypes ==
    ASSUME IInv
    PROVE  /\ state \in [Devices -> [user : Users \cup {Nobody}, rev : 0 .. MaxRev]]
           /\ vault \in [Devices -> [Items -> Rows]]
           /\ pc \in [Devices -> Steps] /\ who \in [Devices -> Users \cup {Nobody}]
           /\ got \in [Devices -> [latest : 0 .. MaxRev, rows : [Items -> Rows]]]
BY DEF IInv, Typed, TypeOK

LEMMA LoginStep ==
    ASSUME IInv, NEW d \in Devices, Login(d)
    PROVE  IInv'
<1>1. PICK u \in Users :
        /\ who' = [who EXCEPT ![d] = u]
        /\ pc' = [pc EXCEPT ![d] = IF state[d].user \notin {Nobody, u} THEN "wipe" ELSE "save_login"]
  BY DEF Login, Go
<1>2. pc[d] = "idle" /\ UNCHANGED <<server, files, got, gets, asked>>
  BY DEF Login
<1>3. FilesFit(d)
  BY DEF IInv, DevicesFit
<1>4. pc'[d] = "save_login" => RowsSealed(asked, u, vault[d])
  BY <1>1, <1>3, FileTypes, NobodysRows DEF FilesFit, IInv
<1>5. FilesFit(d)'
  BY <1>1, <1>2, <1>3, <1>4, FileTypes DEF FilesFit, files
<1>6. pc' \in [Devices -> Steps] /\ who' \in [Devices -> Users \cup {Nobody}]
  BY <1>1, FileTypes DEF Steps
<1> QED BY <1>1, <1>2, <1>5, <1>6, FileTypes, QuietType, SameLog, WriterStep DEF files

LEMMA WipeStep ==
    ASSUME IInv, NEW d \in Devices, WipeVault(d)
    PROVE  IInv'
<1>1. /\ pc[d] = "wipe" /\ vault' = [vault EXCEPT ![d] = NoRows]
      /\ pc' = [pc EXCEPT ![d] = "save_login"]
      /\ UNCHANGED <<server, state, who, got, gets, asked>>
  BY DEF WipeVault, Go
<1>2. FilesFit(d)
  BY DEF IInv, DevicesFit
<1>3. FilesFit(d)'
  BY <1>1, <1>2, FileTypes, NothingSealed DEF FilesFit
<1>4. vault' \in [Devices -> [Items -> Rows]] /\ pc' \in [Devices -> Steps]
  BY <1>1, FileTypes, NoRowFacts DEF Steps
<1> QED BY <1>1, <1>3, <1>4, FileTypes, QuietType, SameLog, WriterStep

LEMMA SaveLoginStep ==
    ASSUME IInv, NEW d \in Devices, SaveLogin(d)
    PROVE  IInv'
<1>1. /\ pc[d] = "save_login"
      /\ state' = [state EXCEPT ![d] =
                    [user |-> who[d], rev |-> IF @.user = who[d] THEN @.rev ELSE 0]]
      /\ pc' = [pc EXCEPT ![d] = "ask"]
      /\ UNCHANGED <<server, vault, who, got, gets, asked>>
  BY DEF SaveLogin, Go
<1>2. FilesFit(d)
  BY DEF IInv, DevicesFit
<1>3. state'[d].user = who[d] /\ pc'[d] = "ask"
  BY <1>1, FileTypes
<1>4. FilesFit(d)'
  BY <1>1, <1>2, <1>3, NothingSealed DEF FilesFit
<1>5. state' \in [Devices -> [user : Users \cup {Nobody}, rev : 0 .. MaxRev]]
  BY <1>1, FileTypes, BoundsAssumption
<1>6. pc' \in [Devices -> Steps]
  BY <1>1, FileTypes DEF Steps
<1> QED BY <1>1, <1>4, <1>5, <1>6, FileTypes, QuietType, SameLog, WriterStep

LEMMA SyncStep ==
    ASSUME IInv, NEW d \in Devices, Sync(d)
    PROVE  IInv'
<1>1. /\ state[d].user # Nobody /\ pc' = [pc EXCEPT ![d] = "ask"]
      /\ UNCHANGED <<server, files, who, got, gets, asked>>
  BY DEF Sync, Go
<1>2. FilesFit(d)
  BY DEF IInv, DevicesFit
<1>3. FilesFit(d)'
  BY <1>1, <1>2, FileTypes DEF FilesFit, files
<1>4. pc' \in [Devices -> Steps]
  BY <1>1, FileTypes DEF Steps
<1> QED BY <1>1, <1>3, <1>4, FileTypes, QuietType, SameLog, WriterStep DEF files

LEMMA AskStep ==
    ASSUME IInv, NEW d \in Devices, Ask(d)
    PROVE  IInv'
<1> DEFINE u == state[d].user
           rows == [i \in Items |-> IF items[u][i].rev > state[d].rev THEN items[u][i] ELSE NoRow]
<1>1. /\ pc[d] = "ask"
      /\ got' = [got EXCEPT ![d] = [latest |-> currentRev[u], rows |-> rows]]
      /\ pc' = [pc EXCEPT ![d] = "apply"]
      /\ UNCHANGED <<server, files, who, gets, asked>>
  BY DEF Ask, Go
<1>2. FilesFit(d) /\ u \in Users
  BY <1>1 DEF IInv, DevicesFit, FilesFit
<1>3. currentRev[u] \in 0 .. MaxRev /\ items[u] \in [Items -> Rows]
  BY <1>2 DEF IInv, Typed, TypeOK
<1>4. rows \in [Items -> Rows]
  BY <1>3, NoRowFacts
<1>5. RowsSealed(asked, u, rows)
  BY <1>2, NothingSealed DEF IInv, ServerSealed, RowsSealed
<1>6. got'[d].rows = rows /\ pc'[d] = "apply"
  BY <1>1, FileTypes
<1>7. FilesFit(d)'
  BY <1>1, <1>2, <1>5, <1>6 DEF FilesFit, files
<1>8. /\ got' \in [Devices -> [latest : 0 .. MaxRev, rows : [Items -> Rows]]]
      /\ pc' \in [Devices -> Steps]
  BY <1>1, <1>3, <1>4, FileTypes DEF Steps
<1> QED BY <1>1, <1>7, <1>8, FileTypes, QuietType, SameLog, WriterStep DEF files

(* The rows of an answer put over those of the vault: both are the account's. *)
LEMMA PutOver ==
    ASSUME NEW log, NEW u, NEW old \in [Items -> Rows], NEW new \in [Items -> Rows],
           RowsSealed(log, u, old), RowsSealed(log, u, new),
           NEW put, put = [i \in Items |-> IF new[i] = NoRow THEN old[i] ELSE Sanitized(new[i])]
    PROVE  put \in [Items -> Rows] /\ RowsSealed(log, u, put)
BY SanitizedFacts DEF RowsSealed

LEMMA ApplyStep ==
    ASSUME IInv, NEW d \in Devices, ApplyChanges(d) \/ StoreItem(d)
    PROVE  IInv'
<1> DEFINE put == [i \in Items |-> IF got[d].rows[i] = NoRow THEN vault[d][i]
                                   ELSE Sanitized(got[d].rows[i])]
<1>1. vault' = [vault EXCEPT ![d] = put] /\ UNCHANGED <<server, state, gets, asked>>
  BY DEF ApplyChanges, StoreItem, Stored
<1>2. FilesFit(d)
  BY DEF IInv, DevicesFit
<1>3. vault[d] \in [Items -> Rows] /\ got[d].rows \in [Items -> Rows]
  BY FileTypes
<1>4. put \in [Items -> Rows] /\ RowsSealed(asked, state[d].user, put)
  BY <1>2, <1>3, PutOver DEF FilesFit
<1>5. /\ pc' \in [Devices -> Steps] /\ who' \in [Devices -> Users \cup {Nobody}]
      /\ got' \in [Devices -> [latest : 0 .. MaxRev, rows : [Items -> Rows]]]
      /\ \A e \in Devices \ {d} : pc'[e] = pc[e] /\ who'[e] = who[e] /\ got'[e] = got[e]
      /\ \/ pc'[d] = "save_rev" /\ got'[d] = got[d]
         \/ pc'[d] = "idle" /\ got'[d] = NoAnswer
  <2>1. CASE ApplyChanges(d)
    BY <2>1, FileTypes DEF ApplyChanges, Go, Steps
  <2>2. CASE StoreItem(d)
    BY <2>2, ExitFacts DEF StoreItem
  <2> QED BY <2>1, <2>2
<1>6. vault' \in [Devices -> [Items -> Rows]] /\ vault'[d] = put
  BY <1>1, <1>4, FileTypes
<1>7. FilesFit(d)'
  BY <1>1, <1>2, <1>4, <1>5, <1>6, NothingSealed DEF FilesFit
<1>8. \A e \in Devices \ {d} : vault'[e] = vault[e]
  BY <1>1, FileTypes
<1> QED BY <1>1, <1>5, <1>6, <1>7, <1>8, FileTypes, QuietType, SameLog, WriterStep

LEMMA SaveRevStep ==
    ASSUME IInv, NEW d \in Devices, SaveRev(d)
    PROVE  IInv'
<1>1. /\ state' = [state EXCEPT ![d].rev = got[d].latest] /\ Exit(d)
      /\ UNCHANGED <<server, vault, gets, asked>>
  BY DEF SaveRev
<1>2. state' \in [Devices -> [user : Users \cup {Nobody}, rev : 0 .. MaxRev]]
  BY <1>1, FileTypes
<1>3. state'[d].user = state[d].user /\ \A e \in Devices \ {d} : state'[e] = state[e]
  BY <1>1, FileTypes
<1>4. FilesFit(d)'
  BY <1>1, <1>3, ExitFacts, NothingSealed DEF FilesFit, IInv, DevicesFit
<1> QED BY <1>1, <1>2, <1>3, <1>4, ExitFacts, FileTypes, QuietType, SameLog, WriterStep

LEMMA StopStep ==
    ASSUME IInv, NEW d \in Devices, Stop(d)
    PROVE  IInv'
<1>1. Exit(d) /\ UNCHANGED <<server, files, gets, asked>>
  BY DEF Stop
<1>2. FilesFit(d)'
  BY <1>1, ExitFacts, NothingSealed DEF FilesFit, IInv, DevicesFit, files
<1> QED BY <1>1, <1>2, ExitFacts, FileTypes, QuietType, SameLog, WriterStep DEF files

(* The server accepts a row for item i of the account d is logged in to,   *)
(* and the command hears of it or not.                                     *)
LEMMA AcceptStep ==
    ASSUME IInv, NEW d \in Devices, NEW i \in Items, NEW row \in Rows,
           Accept(d, i, row), Hear(d, i, row), UNCHANGED <<files, gets>>,
           LogGrows, asked' \in Seq(Requests), Len(asked') =< MaxSealed,
           Sealed(asked', state[d].user, i, row)
    PROVE  IInv'
<1> DEFINE u == state[d].user
<1>1. /\ pc[d] = "idle" /\ u \in Users /\ currentRev[u] < MaxRev
      /\ currentRev' = [currentRev EXCEPT ![u] = @ + 1]
      /\ items' = [items EXCEPT ![u][i] = row]
  BY FileTypes DEF Accept
<1>2. currentRev' \in [Users -> 0 .. MaxRev] /\ items' \in [Users -> [Items -> Rows]]
  BY <1>1, BoundsAssumption DEF IInv, Typed, TypeOK
<1>3. ServerSealed'
  <2>1. ASSUME NEW v \in Users, NEW j \in Items
        PROVE  Sealed(asked', v, j, items'[v][j])
    <3>1. \/ v = u /\ j = i /\ items'[v][j] = row
          \/ items'[v][j] = items[v][j]
      BY <1>1 DEF IInv, Typed, TypeOK
    <3> QED BY <3>1, SealsStay DEF IInv, ServerSealed, RowsSealed
  <2> QED BY <2>1 DEF ServerSealed, RowsSealed
<1> DEFINE answer == [NoAnswer EXCEPT !.rows[i] = row]
<1>4. answer \in [latest : 0 .. MaxRev, rows : [Items -> Rows]]
  BY NoRowFacts
<1>5. RowsSealed(asked', u, answer.rows)
  <2>1. \A j \in Items : answer.rows[j] = IF j = i THEN row ELSE NoRow
    BY DEF NoAnswer, NoRows
  <2> QED BY <2>1, NothingSealed DEF RowsSealed
<1>6. /\ pc' \in [Devices -> Steps] /\ who' \in [Devices -> Users \cup {Nobody}]
      /\ got' \in [Devices -> [latest : 0 .. MaxRev, rows : [Items -> Rows]]]
      /\ \A e \in Devices \ {d} : pc'[e] = pc[e] /\ who'[e] = who[e] /\ got'[e] = got[e]
      /\ \/ pc'[d] = "store" /\ got'[d] = answer
         \/ pc'[d] = "idle" /\ got'[d] = NoAnswer
  <2>1. CASE Exit(d)
    BY <2>1, ExitFacts
  <2>2. CASE ~ Exit(d)
    <3>1. got' = [got EXCEPT ![d] = answer] /\ pc' = [pc EXCEPT ![d] = "store"] /\ who' = who
      BY <2>2 DEF Hear, Go
    <3> QED BY <1>4, <3>1, FileTypes DEF Steps
  <2> QED BY <2>1, <2>2
<1>7. FilesFit(d)'
  <2>1. RowsSealed(asked', u, vault[d])
    BY SealsStay DEF IInv, DevicesFit, FilesFit
  <2>2. state' = state /\ vault' = vault
    BY DEF files
  <2> QED BY <1>5, <1>6, <2>1, <2>2, NothingSealed DEF FilesFit
<1>8. Typed'
  BY <1>2, <1>6 DEF IInv, Typed, TypeOK, files, gets, Requests
<1> QED BY <1>3, <1>6, <1>7, <1>8, WriterStep DEF files

LEMMA SetStep ==
    ASSUME IInv, NEW d \in Devices, NEW i \in Items, NEW pw \in Passwords, NEW t \in Types,
           Set(d, i, pw, t)
    PROVE  IInv'
<1> DEFINE u == state[d].user
           n == Len(asked) + 1
           box == Encrypt(n, DeriveKey(pw, u), [type |-> t, data |-> n], <<i, t>>)
           row == [rev |-> currentRev[u] + 1, deleted |-> FALSE, type |-> t,
                   ciphertext |-> box, nonce |-> box.nonce]
           request == [user |-> u, item |-> i, pw |-> pw, type |-> t]
<1>1. /\ n =< MaxSealed /\ Accept(d, i, row) /\ Hear(d, i, row)
      /\ asked' = Append(asked, request) /\ UNCHANGED <<files, gets>>
  BY DEF Set
<1>2. u \in Users /\ currentRev[u] \in 0 .. MaxRev /\ currentRev[u] < MaxRev
  BY <1>1, FileTypes DEF Accept, IInv, Typed, TypeOK
<1>3. Len(asked) \in Nat /\ asked \in Seq(Requests) /\ request \in Requests
  BY <1>2, LogFacts DEF IInv, Requests
<1>4. /\ asked' \in Seq(Requests) /\ Len(asked') = n /\ asked'[n] = request
      /\ \A k \in 1 .. Len(asked) : asked'[k] = asked[k]
  BY <1>1, <1>3
<1>5. n \in Numbers /\ n \in 1 .. Len(asked') /\ n \in 0 .. DummyNonce
  BY <1>1, <1>3, <1>4, BoundsAssumption DEF Numbers, DummyNonce
<1>6. box \in Boxes
  BY <1>2, <1>5 DEF Encrypt, DeriveKey, Boxes, Keys, Envelopes
<1>7. row \in Rows
  <2>1. currentRev[u] + 1 \in 0 .. MaxRev
    BY <1>2, BoundsAssumption
  <2>2. box.nonce \in 0 .. DummyNonce
    BY <1>5 DEF Encrypt
  <2>3. box \in Boxes \cup {NoBox}
    BY <1>6
  <2> HIDE DEF box
  <2> QED BY <2>1, <2>2, <2>3 DEF Rows
<1>8. LogGrows
  BY <1>3, <1>4 DEF LogGrows
<1>9. Sealed(asked', u, i, row)
  <2>1. /\ request.user = u /\ request.item = i /\ request.pw = pw /\ request.type = t
        /\ row.nonce = n /\ row.type = t
    BY DEF Encrypt
  <2>2. row.ciphertext = Encrypt(n, DeriveKey(pw, u), [type |-> t, data |-> n], <<i, t>>)
    OBVIOUS
  <2> HIDE DEF n, box, row, request
  <2> QED BY <1>4, <1>5, <2>1, <2>2 DEF Sealed
<1> HIDE DEF row
<1> QED BY <1>1, <1>4, <1>7, <1>8, <1>9, AcceptStep

LEMMA DeleteStep ==
    ASSUME IInv, NEW d \in Devices, NEW i \in Items, Delete(d, i)
    PROVE  IInv'
<1> DEFINE u == state[d].user
           row == [items[u][i] EXCEPT !.rev = currentRev[u] + 1, !.deleted = TRUE,
                                      !.ciphertext = NoBox, !.nonce = DummyNonce]
<1>1. /\ Accept(d, i, row) /\ Hear(d, i, row) /\ UNCHANGED <<files, gets, asked>>
  BY DEF Delete
<1>2. /\ u \in Users /\ currentRev[u] \in 0 .. MaxRev /\ currentRev[u] < MaxRev
      /\ items[u][i] \in Rows
  BY <1>1, FileTypes DEF Accept, IInv, Typed, TypeOK
<1>3. row \in Rows /\ row.deleted
  <2>1. /\ currentRev[u] + 1 \in 0 .. MaxRev /\ DummyNonce \in 0 .. DummyNonce
        /\ NoBox \in Boxes \cup {NoBox}
    BY <1>2, BoundsAssumption DEF DummyNonce
  <2> QED BY <1>2, <2>1 DEF Rows
<1>4. Sealed(asked', u, i, row)
  BY <1>3, DeadSealed
<1>5. LogGrows /\ asked' \in Seq(Requests) /\ Len(asked') =< MaxSealed
  BY <1>1, SameLog, LogFacts DEF IInv
<1> HIDE DEF row
<1> QED BY <1>1, <1>3, <1>4, <1>5, AcceptStep

-----------------------------------------------------------------------------
(* get.                                                                    *)

(* A row get goes on with is live.                                         *)
LEMMA RowCheckFacts ==
    ASSUME NEW row \in Rows
    PROVE  /\ RowCheck(row) = "ok" => row # NoRow /\ ~ row.deleted
           /\ RowCheck(row) = "deleted" <=> row # NoRow /\ row.deleted
           /\ RowCheck(row) \in Results
BY DEF RowCheck, Results

LEMMA RefusedFacts ==
    ASSUME NEW why \in Results
    PROVE  /\ Refused(why) \in [result : Results, as : Users \cup {Nobody}, data : 0 .. MaxSealed]
           /\ Refused(why).result = why
BY BoundsAssumption DEF Refused, NoOutcome, Results

LEMMA GetRowStep ==
    ASSUME IInv, NEW d \in Devices, NEW i \in Items, NEW pw \in Passwords, NEW toFile \in BOOLEAN,
           GetRow(d, i, pw, toFile)
    PROVE  IInv'
<1> DEFINE row == vault[d][i]
           g == [row |-> row, item |-> i, pw |-> pw, toFile |-> toFile]
<1>1. row \in Rows /\ UNCHANGED <<server, files, writer, asked>>
  BY FileTypes DEF GetRow
<1>2. /\ shown \in [Devices -> [result : Results, as : Users \cup {Nobody}, data : 0 .. MaxSealed]]
      /\ reader \in [Devices -> Readings]
  BY DEF IInv, Typed, TypeOK
<1>3. ReadingFits(d)
  BY DEF IInv, DevicesFit
<1>4. CASE RowCheck(row) = "ok"
  <2>1. reader' = [reader EXCEPT ![d] = <<g>>] /\ shown' = [shown EXCEPT ![d] = NoOutcome]
    BY <1>4 DEF GetRow
  <2>a. g \in Gets
    BY <1>1 DEF Gets
  <2>b. g.row = row /\ g.item = i
    OBVIOUS
  <2> HIDE DEF g
  <2>2. Head(<<g>>) = g /\ <<g>> \in Readings
    BY <2>a DEF Readings
  <2>3. NoOutcome \in [result : Results, as : Users \cup {Nobody}, data : 0 .. MaxSealed]
    BY BoundsAssumption DEF NoOutcome, Results
  <2>4. reader' \in [Devices -> Readings] /\ reader'[d] = <<g>> /\ shown'[d] = NoOutcome
    BY <1>2, <2>1, <2>2
  <2>5. \E u \in Users : Sealed(asked, u, i, row)
    <3>1. row # NoRow /\ ~ row.deleted
      BY <1>1, <1>4, RowCheckFacts
    <3>2. Sealed(asked, state[d].user, i, row)
      BY DEF IInv, DevicesFit, FilesFit, RowsSealed
    <3>3. state[d].user \in Users
      BY <3>1, <3>2, LogFacts DEF Sealed, IInv
    <3> QED BY <3>2, <3>3
  <2>6. ReadingFits(d)'
    BY <1>1, <1>4, <2>b, <2>2, <2>4, <2>5 DEF ReadingFits
  <2>7. ShownFits(d)'
    BY <2>4 DEF ShownFits, NoOutcome
  <2>8. shown' \in [Devices -> [result : Results, as : Users \cup {Nobody}, data : 0 .. MaxSealed]]
    BY <1>2, <2>1, <2>3
  <2>9. Typed'
    BY <1>1, <2>4, <2>8, ReadingTypes DEF IInv, Typed, TypeOK, server, files, writer
  <2> QED BY <1>1, <1>2, <2>1, <2>6, <2>7, <2>9, GetStep
<1>5. CASE RowCheck(row) # "ok"
  <2>1. reader' = reader /\ shown' = [shown EXCEPT ![d] = Refused(RowCheck(row))]
    BY <1>5 DEF GetRow
  <2>2. /\ shown' \in [Devices -> [result : Results, as : Users \cup {Nobody}, data : 0 .. MaxSealed]]
        /\ shown'[d].result # "ok"
    BY <1>1, <1>2, <1>5, <2>1, RowCheckFacts, RefusedFacts
  <2>3. ReadingFits(d)' /\ ShownFits(d)'
    BY <1>1, <1>3, <2>1, <2>2 DEF ReadingFits, ShownFits
  <2>4. Typed'
    BY <1>1, <2>1, <2>2 DEF IInv, Typed, TypeOK, server, files, writer
  <2> QED BY <1>1, <1>2, <2>1, <2>3, <2>4, GetStep
<1> QED BY <1>4, <1>5

LEMMA OutcomeFacts ==
    ASSUME Typed, NEW u \in Users, NEW i, NEW row \in Rows, NEW pw,
           NEW user \in Users \cup {Nobody}, NEW toFile,
           row # NoRow, ~ row.deleted, Sealed(asked, u, i, row)
    PROVE  LET n == row.nonce
               outcome == Outcome(i, row, pw, user, toFile)
           IN  /\ outcome \in [result : Results, as : Users \cup {Nobody}, data : 0 .. MaxSealed]
               /\ outcome.result = "ok" =>
                    outcome.as = u /\ outcome.data = n
<1> DEFINE n == row.nonce
           box == row.ciphertext
           outcome == Outcome(i, row, pw, user, toFile)
<1>1. /\ n \in 1 .. Len(asked)
      /\ box = Encrypt(n, DeriveKey(asked[n].pw, u), [type |-> row.type, data |-> n], <<i, row.type>>)
  BY DEF Sealed
<1>2. /\ box.key = <<asked[n].pw, u>> /\ box.nonce = n /\ box.aad = <<i, row.type>>
      /\ box.plain.type = row.type /\ box.plain.data = n
  BY <1>1 DEF Encrypt, DeriveKey
<1>3. Opens(DeriveKey(pw, user), box, n, <<i, row.type>>) <=> user = u /\ pw = asked[n].pw
  BY <1>2 DEF Opens, DeriveKey
<1>4. outcome = IF user = Nobody THEN Refused("no_key")
                ELSE IF ~ (user = u /\ pw = asked[n].pw) THEN Refused("decrypt_error")
                ELSE IF row.type = Binary /\ ~ toFile THEN Refused("needs_out")
                ELSE [result |-> "ok", as |-> user, data |-> n]
  BY <1>2, <1>3 DEF Outcome
<1>5. n \in 0 .. MaxSealed
  BY <1>1, LogFacts, BoundsAssumption
<1>6. /\ "no_key" \in Results /\ "decrypt_error" \in Results
      /\ "needs_out" \in Results /\ "ok" \in Results
  BY DEF Results
<1>7. outcome \in [result : Results, as : Users \cup {Nobody}, data : 0 .. MaxSealed]
  BY <1>4, <1>5, <1>6, RefusedFacts
<1>8. outcome.result = "ok" => outcome.as = u /\ outcome.data = n
  BY <1>4, <1>6, RefusedFacts
<1> QED BY <1>7, <1>8

(* As the user the row is of, with a file to write to.                     *)
LEMMA OwnOutcome ==
    ASSUME NEW u \in Users, NEW i, NEW row, NEW pw,
           row # NoRow, ~ row.deleted, Sealed(asked, u, i, row)
    PROVE  LET n == row.nonce IN
           Outcome(i, row, pw, u, TRUE) =
               IF pw = asked[n].pw THEN [result |-> "ok", as |-> u, data |-> n]
               ELSE Refused("decrypt_error")
<1> DEFINE n == row.nonce
           box == row.ciphertext
<1>1. box = Encrypt(n, DeriveKey(asked[n].pw, u), [type |-> row.type, data |-> n], <<i, row.type>>)
  BY DEF Sealed
<1>2. /\ box.plain.type = row.type /\ box.plain.data = n
      /\ Opens(DeriveKey(pw, u), box, n, <<i, row.type>>) <=> pw = asked[n].pw
  BY <1>1 DEF Opens, Encrypt, DeriveKey
<1> QED BY <1>2, NobodyAssumption DEF Outcome

LEMMA GetShowStep ==
    ASSUME IInv, NEW d \in Devices, GetShow(d)
    PROVE  IInv'
<1> DEFINE g == Head(reader[d])
           outcome == Outcome(g.item, g.row, g.pw, state[d].user, g.toFile)
<1>1. /\ reader[d] # <<>> /\ shown' = [shown EXCEPT ![d] = outcome]
      /\ reader' = [reader EXCEPT ![d] = <<>>]
      /\ UNCHANGED <<server, files, writer, asked>>
  BY DEF GetShow
<1>2. /\ shown \in [Devices -> [result : Results, as : Users \cup {Nobody}, data : 0 .. MaxSealed]]
      /\ reader \in [Devices -> Readings]
  BY DEF IInv, Typed, TypeOK
<1>3. g \in Gets
  BY <1>1, <1>2 DEF Readings
<1>4. g.row \in Rows
  BY <1>3 DEF Gets
<1>5. RowCheck(g.row) = "ok" /\ \E u \in Users : Sealed(asked, u, g.item, g.row)
  BY <1>1 DEF IInv, DevicesFit, ReadingFits
<1>6. PICK u \in Users : Sealed(asked, u, g.item, g.row)
  BY <1>5
<1>7. g.row # NoRow /\ ~ g.row.deleted
  BY <1>4, <1>5, RowCheckFacts
<1>8. /\ outcome \in [result : Results, as : Users \cup {Nobody}, data : 0 .. MaxSealed]
      /\ outcome.result = "ok" => outcome.as = u /\ outcome.data = g.row.nonce
  BY <1>4, <1>6, <1>7, FileTypes, OutcomeFacts DEF IInv
<1>9. g.row.nonce \in 1 .. Len(asked) /\ asked[g.row.nonce].user = u
  BY <1>6, <1>7 DEF Sealed
<1> HIDE DEF outcome
<1>10. shown'[d] = outcome /\ reader'[d] = <<>>
  BY <1>1, <1>2
<1>11. ShownFits(d)' /\ ReadingFits(d)'
  BY <1>1, <1>8, <1>9, <1>10 DEF ShownFits, ReadingFits
<1>12. /\ shown' \in [Devices -> [result : Results, as : Users \cup {Nobody}, data : 0 .. MaxSealed]]
       /\ reader' \in [Devices -> Readings]
  BY <1>1, <1>2, <1>8 DEF Readings
<1>13. Typed'
  BY <1>1, <1>12, ReadingTypes DEF IInv, Typed, TypeOK, server, files, writer
<1> QED BY <1>1, <1>2, <1>11, <1>13, GetStep

-----------------------------------------------------------------------------

LEMMA InvInit == Init => IInv
<1> SUFFICES ASSUME Init PROVE IInv
  OBVIOUS
<1>1. Len(asked) = 0 /\ asked \in Seq(Requests)
  BY DEF Init
<1>2. NoOutcome \in [result : Results, as : Users \cup {Nobody}, data : 0 .. MaxSealed]
  BY BoundsAssumption DEF NoOutcome, Results
<1>3. Typed
  BY <1>1, <1>2, NoRowFacts, BoundsAssumption DEF Init, Typed, TypeOK, Steps, Readings, Requests
<1>4. ServerSealed
  BY NothingSealed DEF Init, ServerSealed
<1>5. DevicesFit
  BY NothingSealed DEF Init, DevicesFit, FilesFit, ReadingFits, ShownFits, NoOutcome
<1> QED BY <1>3, <1>4, <1>5 DEF IInv

LEMMA InvStep == IInv /\ [Next]_vars => IInv'
<1> SUFFICES ASSUME IInv, [Next]_vars PROVE IInv'
  OBVIOUS
<1>1. CASE UNCHANGED vars
  BY <1>1 DEF vars, IInv, Typed, TypeOK, ServerSealed, DevicesFit, FilesFit, ReadingFits, ShownFits
<1>2. CASE Next
  BY <1>2, LoginStep, WipeStep, SaveLoginStep, SyncStep, AskStep, ApplyStep, SaveRevStep,
     SetStep, DeleteStep, StopStep, GetRowStep, GetShowStep
  DEF Next
<1> QED BY <1>1, <1>2

LEMMA IInvHolds == Spec => []IInv
BY InvInit, InvStep, PTL DEF Spec

-----------------------------------------------------------------------------
(* The theorems.                                                           *)

(* Every reachable state is typed.                                         *)
THEOREM TypeCorrect == Spec => []TypeOK
<1>1. IInv => TypeOK
  BY DEF IInv, Typed
<1> QED BY <1>1, IInvHolds, PTL

LEMMA VaultOpens == IInv => RightPasswordOpens
<1> SUFFICES ASSUME IInv, NEW d \in Devices, NEW i \in Items, RowCheck(vault[d][i]) = "ok"
             PROVE  LET row == vault[d][i]
                        n == row.ciphertext.plain.data
                    IN  /\ asked[n].user = state[d].user
                        /\ asked[n].item = i
                        /\ asked[n].type = row.type
                        /\ \A pw \in Passwords :
                            Got(d, i, pw, TRUE) =
                                IF pw = asked[n].pw
                                THEN [result |-> "ok", as |-> state[d].user, data |-> n]
                                ELSE Refused("decrypt_error")
  BY DEF RightPasswordOpens
<1> DEFINE row == vault[d][i]
           u == state[d].user
<1>1. row \in Rows
  BY FileTypes
<1>2. row # NoRow /\ ~ row.deleted /\ Sealed(asked, u, i, row)
  BY <1>1, RowCheckFacts DEF IInv, DevicesFit, FilesFit, RowsSealed
<1>3. /\ row.nonce \in 1 .. Len(asked) /\ asked[row.nonce].user = u
      /\ asked[row.nonce].item = i /\ asked[row.nonce].type = row.type
      /\ row.ciphertext.plain.data = row.nonce
  BY <1>2 DEF Sealed, Encrypt
<1>4. u \in Users
  BY <1>3, LogFacts DEF IInv
<1>5. \A pw \in Passwords :
        Outcome(i, row, pw, u, TRUE) =
            IF pw = asked[row.nonce].pw THEN [result |-> "ok", as |-> u, data |-> row.nonce]
            ELSE Refused("decrypt_error")
  BY <1>2, <1>4, OwnOutcome
<1>6. \A pw \in Passwords : Got(d, i, pw, TRUE) = Outcome(i, row, pw, u, TRUE)
  BY DEF Got
<1> QED BY <1>3, <1>5, <1>6

(* Every live item in a vault opens with exactly the password it was last  *)
(* set with, and shows what was set then, by this user, for this item and  *)
(* under this type: however the row got there.                             *)
THEOREM VaultsOpen == Spec => []RightPasswordOpens
BY VaultOpens, IInvHolds, PTL

(* A get that another user's login overtakes shows no content: what is     *)
(* shown is shown to the user who stored it.                               *)
THEOREM NothingForeign == Spec => []NothingForeignShown
<1>1. IInv => NothingForeignShown
  BY DEF IInv, DevicesFit, ShownFits, NothingForeignShown
<1> QED BY <1>1, IInvHolds, PTL

LEMMA LiveIsReadable ==
    ASSUME IInv, NEW d \in Devices, NEW i \in Items
    PROVE  LET row == vault[d][i] IN
           RowCheck(row) = "ok" <=> row # NoRow /\ ~ row.deleted
<1> DEFINE row == vault[d][i]
<1>1. row \in Rows /\ Sealed(asked, state[d].user, i, row)
  BY FileTypes DEF IInv, DevicesFit, FilesFit, RowsSealed
<1>2. ASSUME row # NoRow, ~ row.deleted
      PROVE  row.nonce # NoNonce /\ row.ciphertext # NoBox
  <2>1. row.nonce \in 1 .. Len(asked) /\ row.ciphertext.nonce = row.nonce
    BY <1>1, <1>2 DEF Sealed, Encrypt
  <2>2. Len(asked) \in Nat
    BY LogFacts DEF IInv
  <2> QED BY <2>1, <2>2 DEF NoNonce, NoBox
<1> QED BY <1>1, <1>2, RowCheckFacts DEF RowCheck

(* What list names without flags is what get can read, what it names with  *)
(* --deleted is what get calls deleted, and of each type the two make up   *)
(* what --all names.                                                       *)
THEOREM ListsAreReadable == Spec => []ListedAreReadable
<1>1. ASSUME IInv PROVE ListedAreReadable
  <2>1. ASSUME NEW d \in Devices, NEW i \in Items
        PROVE  /\ i \in Listed(vault[d], FALSE, {}, FALSE) <=> RowCheck(vault[d][i]) = "ok"
               /\ i \in Listed(vault[d], FALSE, {}, TRUE) <=> RowCheck(vault[d][i]) = "deleted"
    <3>1. vault[d][i] \in Rows /\ vault[d][i].deleted \in BOOLEAN
      BY <1>1, FileTypes DEF Rows
    <3> QED BY <1>1, <3>1, LiveIsReadable, RowCheckFacts DEF Listed
  <2>2. ASSUME NEW d \in Devices, NEW t \in Types
        PROVE  /\ Listed(vault[d], TRUE, {t}, FALSE) =
                    Listed(vault[d], FALSE, {t}, FALSE) \cup Listed(vault[d], FALSE, {t}, TRUE)
               /\ Listed(vault[d], FALSE, {t}, FALSE) \cap Listed(vault[d], FALSE, {t}, TRUE) = {}
    <3>1. \A i \in Items : vault[d][i].deleted \in BOOLEAN
      BY <1>1, FileTypes DEF Rows
    <3> QED BY <3>1 DEF Listed
  <2> QED BY <2>1, <2>2 DEF ListedAreReadable
<1> QED BY <1>1, IInvHolds, PTL
=============================================================================
