--------------------------- MODULE VaultSync_proofs ---------------------------
(***************************************************************************)
(* Theorems about VaultSync, for every set of users, items and devices.    *)
(*                                                                         *)
(* Typing and VaultFaithful hold for any number of commands at a time; the *)
(* rest is about devices that run one command after another (Sequential).  *)
(* Completeness is also about logins that do not stop between wiping the   *)
(* vault and saving the state (SwitchRuns; with one account, OneAccount,   *)
(* there are none that wipe): the run vault_switch_stopped shows what one  *)
(* leaves behind.  With two commands at a time, neither completeness nor   *)
(* KeyMatchesAccount holds.                                                *)
(***************************************************************************)
EXTENDS VaultSync, TLAPS

Sequential == \A s, t \in Slots : s = t
OneAccount == \A u, v \in Users : u = v

-----------------------------------------------------------------------------
(* Typing.                                                                 *)

AuthOps == {"register", "login"}
SyncOps == {"register", "login", "sync"}

(* Steps of a command that runs for a user.                                *)
UserSteps == {"since", "latest", "changes", "vault", "save_vault", "save_rev", "salt", "send"}

(* Where a command is fits what it is, and whoever it runs for is somebody.*)
Fits(p) ==
    /\ pc[p] = "auth" => cmd[p].op \in AuthOps
    /\ pc[p] \in {"who", "wipe", "login_state"} =>
        cmd[p].op \in AuthOps /\ token[p] = cmd[p].user
    /\ pc[p] \in {"since", "latest", "changes", "save_rev"} => cmd[p].op \in SyncOps
    /\ pc[p] = "salt" => cmd[p].op = "set"
    /\ pc[p] = "send" => cmd[p].op \in {"set", "delete"}
    /\ pc[p] \in UserSteps => token[p] \in Users /\ state[Dev(p)].user \in Users
    /\ pc[p] = "send" /\ cmd[p].op = "set" => loaded[p].user \in Users
    /\ pc[p] \in {"latest", "changes", "save_rev"} => loaded[p].user \in Users
    /\ pc[p] \in {"vault", "save_vault"} /\ cmd[p].op \notin {"set", "delete"} =>
        loaded[p].user \in Users /\ cmd[p].op \in SyncOps

(* A state file names a user and that user's salt, or neither.             *)
SaltsFit ==
    /\ \A d \in Devices : state[d].salt = state[d].user
    /\ \A p \in Procs : loaded[p].salt = loaded[p].user

Typed == TypeOK /\ SaltsFit /\ \A p \in Procs : Fits(p)

LEMMA RowTypes ==
    /\ NoRow \in Rows /\ NoRows \in [Items -> Rows]
    /\ \A row \in Rows : Sanitized(row) \in Rows
    /\ NoState \in States /\ NoAnswer \in Answers
    /\ NoState.salt = NoState.user /\ NoState.user = Nobody
    /\ NoAnswer.rows = NoRows /\ NoCmd.op = "none"
<1>1. NoRow \in Rows /\ NoRows \in [Items -> Rows]
  BY DEF NoRow, NoRows, Rows, Payloads
<1>2. \A row \in Rows : Sanitized(row) \in Rows
  BY DEF Sanitized, Rows, Payloads
<1> QED BY <1>1, <1>2 DEF NoState, States, NoAnswer, Answers, NoCmd

LEMMA CommandFacts ==
    ASSUME NEW c \in Commands
    PROVE  /\ c.op \in {"register", "login", "set", "delete", "sync"}
           /\ c.op \in AuthOps => c.user \in Users
           /\ c.op \in {"set", "delete"} => c.item \in Items
BY DEF Commands, AuthOps

LEMMA MergedTypes ==
    ASSUME NEW table \in [Items -> Rows], NEW rows \in [Items -> Rows]
    PROVE  Merged(table, rows) \in [Items -> Rows]
BY RowTypes DEF Merged

LEMMA RowsSinceTypes ==
    ASSUME NEW table \in [Items -> Rows], NEW since
    PROVE  RowsSince(table, since) \in [Items -> Rows]
BY RowTypes DEF RowsSince

LEMMA TypedInit == Init => Typed
BY RowTypes, MaxRevAssumption
DEF Init, Typed, TypeOK, SaltsFit, Fits, Steps, UserSteps

(* What is known of a process before its step.                             *)
LEMMA ProcFacts ==
    ASSUME Typed, NEW p \in Procs
    PROVE  /\ Dev(p) \in Devices
           /\ state[Dev(p)] \in States /\ loaded[p] \in States
           /\ vault[Dev(p)] \in [Items -> Rows] /\ copy[p] \in [Items -> Rows]
           /\ got[p] \in Answers /\ got[p].rows \in [Items -> Rows] /\ got[p].latest \in Nat
           /\ state[Dev(p)].rev \in Nat /\ loaded[p].rev \in Nat
           /\ state[Dev(p)].user \in Users \cup {Nobody}
           /\ loaded[p].user \in Users \cup {Nobody}
           /\ pc[p] # "idle" /\ cmd[p] # NoCmd => cmd[p] \in Commands
           /\ cmd[p].op \in AuthOps => cmd[p].user \in Users
           /\ cmd[p].op \in {"set", "delete"} => cmd[p].item \in Items
           /\ token[p] \in Users => items[token[p]] \in [Items -> Rows] /\ currentRev[token[p]] \in Nat
<1>1. Dev(p) \in Devices
  BY DEF Procs, Dev
<1>2. cmd[p] = NoCmd \/ cmd[p] \in Commands
  BY DEF Typed, TypeOK
<1>3. /\ cmd[p].op \in AuthOps => cmd[p].user \in Users
      /\ cmd[p].op \in {"set", "delete"} => cmd[p].item \in Items
  BY <1>2, CommandFacts DEF NoCmd, AuthOps
<1> QED BY <1>1, <1>2, <1>3, MaxRevAssumption DEF Typed, TypeOK, States, Answers

(* Ending a command keeps the types.                                       *)
LEMMA TypedExit ==
    ASSUME Typed, NEW p \in Procs, Exit(p),
           registered' \subseteq Users,
           currentRev' \in [Users -> 0 .. MaxRev],
           items' \in [Users -> [Items -> Rows]],
           state' \in [Devices -> States], vault' \in [Devices -> [Items -> Rows]],
           \A d \in Devices :
                /\ state'[d].salt = state'[d].user
                /\ state[d].user \in Users => state'[d].user \in Users
    PROVE  Typed'
<1>1. TypeOK'
  BY RowTypes DEF Exit, Go, Typed, TypeOK, Steps
<1>2. SaltsFit'
  BY RowTypes DEF Exit, Typed, SaltsFit, TypeOK
<1>3. ASSUME NEW q \in Procs PROVE Fits(q)'
  <2>0. Dev(q) \in Devices
    BY DEF Procs, Dev
  <2>1. CASE q = p
    BY <2>1, <2>0 DEF Exit, Go, Typed, TypeOK, Fits, UserSteps
  <2>2. CASE q # p
    <3>1. /\ pc'[q] = pc[q] /\ cmd'[q] = cmd[q] /\ token'[q] = token[q] /\ loaded'[q] = loaded[q]
          /\ state[Dev(q)].user \in Users => state'[Dev(q)].user \in Users
      BY <2>0, <2>2 DEF Exit, Go, Typed, TypeOK
    <3> QED BY <3>1 DEF Typed, Fits
  <2> QED BY <2>1, <2>2
<1> QED BY <1>1, <1>2, <1>3 DEF Typed

(* So does moving it on, if the new place fits.                            *)
LEMMA TypedGo ==
    ASSUME Typed, NEW p \in Procs, NEW s \in Steps, Go(p, s),
           TypeOK',
           SaltsFit',
           \A q \in Procs \ {p} :
                cmd'[q] = cmd[q] /\ token'[q] = token[q] /\ loaded'[q] = loaded[q],
           \A d \in Devices : state[d].user \in Users => state'[d].user \in Users,
           Fits(p)'
    PROVE  Typed'
<1>1. ASSUME NEW q \in Procs, q # p PROVE Fits(q)'
  <2>1. pc'[q] = pc[q] /\ Dev(q) \in Devices
    BY <1>1 DEF Go, Typed, TypeOK, Procs, Dev
  <2> QED BY <1>1, <2>1 DEF Typed, Fits
<1> QED BY <1>1 DEF Typed

LEMMA NewRowType ==
    ASSUME Typed, NEW p \in Procs, pc[p] = "send"
    PROVE  NewRow(p) \in Rows
<1>1. token[p] \in Users /\ currentRev[token[p]] \in Nat
  BY ProcFacts DEF Typed, Fits, UserSteps
<1>2. cmd[p].op # "delete" => loaded[p].salt \in Users
  BY DEF Typed, Fits, SaltsFit
<1> QED BY <1>1, <1>2 DEF NewRow, Rows, Payloads

LEMMA WriteTypes ==
    ASSUME Typed, NEW p \in Procs, pc[p] = "send", CanWrite(p), Write(p)
    PROVE  /\ currentRev' \in [Users -> 0 .. MaxRev]
           /\ items' \in [Users -> [Items -> Rows]]
<1>1. token[p] \in Users /\ cmd[p].item \in Items
  BY ProcFacts DEF Typed, Fits, UserSteps
<1>2. NewRow(p) \in Rows
  BY NewRowType
<1> QED BY <1>1, <1>2, MaxRevAssumption DEF CanWrite, Write, Typed, TypeOK

LEMMA TypedNext == Typed /\ [Next]_vars => Typed'
<1> SUFFICES ASSUME Typed, [Next]_vars PROVE Typed'
  OBVIOUS
<1> USE DEF server, files, locals
<1>a. ASSUME NEW p \in Procs, Start(p) PROVE Typed'
  <2>1. PICK c \in Commands :
          /\ c.op \in AuthOps \/ state[Dev(p)].user # Nobody
          /\ cmd' = [cmd EXCEPT ![p] = c]
          /\ Go(p, FirstStep(c.op))
    BY <1>a DEF Start, AuthOps
  <2>2. /\ token' = [token EXCEPT ![p] = state[Dev(p)].user]
        /\ UNCHANGED <<registered, currentRev, items, state, vault, loaded, got, copy>>
    BY <1>a DEF Start
  <2>3. FirstStep(c.op) \in Steps /\ c.op \in {"register", "login", "set", "delete", "sync"}
    BY CommandFacts DEF FirstStep, Steps
  <2>4. TypeOK' /\ SaltsFit'
    BY <2>1, <2>2, <2>3, ProcFacts DEF Go, Typed, TypeOK, SaltsFit
  <2>5. pc'[p] = FirstStep(c.op) /\ cmd'[p] = c /\ token'[p] = state[Dev(p)].user
    BY <2>1, <2>2 DEF Go, Typed, TypeOK
  <2>6. Fits(p)'
    BY <2>1, <2>2, <2>3, <2>5, ProcFacts DEF Fits, FirstStep, UserSteps, AuthOps, SyncOps
  <2> QED BY <2>1, <2>2, <2>3, <2>4, <2>6, TypedGo DEF Typed, TypeOK
<1>b. ASSUME NEW p \in Procs, Authenticate(p) PROVE Typed'
  <2>1. cmd[p].op \in AuthOps /\ cmd[p].user \in Users
    BY <1>b, ProcFacts DEF Authenticate, AuthOps
  <2>2. TypeOK' /\ SaltsFit'
    BY <1>b, <2>1 DEF Authenticate, Go, Typed, TypeOK, SaltsFit, Steps
  <2>3. Fits(p)'
    BY <1>b, <2>1 DEF Authenticate, Go, Typed, TypeOK, Fits, UserSteps
  <2> QED BY <1>b, <2>2, <2>3, TypedGo DEF Authenticate, Steps, Typed, TypeOK
<1>c. ASSUME NEW p \in Procs, RegisterUnheard(p) PROVE Typed'
  <2>1. cmd[p].user \in Users
    BY <1>c, ProcFacts DEF RegisterUnheard, AuthOps
  <2> QED BY <1>c, <2>1, TypedExit DEF RegisterUnheard, Typed, TypeOK, SaltsFit
<1>d. ASSUME NEW p \in Procs, LoadOldState(p) PROVE Typed'
  <2>1. TypeOK' /\ SaltsFit'
    BY <1>d, ProcFacts DEF LoadOldState, Go, Typed, TypeOK, SaltsFit, Steps
  <2>2. Fits(p)'
    BY <1>d DEF LoadOldState, Go, Typed, TypeOK, Fits, UserSteps
  <2> QED BY <1>d, <2>1, <2>2, TypedGo DEF LoadOldState, Steps, Typed, TypeOK
<1>e. ASSUME NEW p \in Procs, WipeVault(p) PROVE Typed'
  <2>1. TypeOK' /\ SaltsFit'
    BY <1>e, ProcFacts, RowTypes DEF WipeVault, Go, Typed, TypeOK, SaltsFit, Steps
  <2>2. Fits(p)'
    BY <1>e DEF WipeVault, Go, Typed, TypeOK, Fits, UserSteps
  <2> QED BY <1>e, <2>1, <2>2, TypedGo DEF WipeVault, Steps, Typed, TypeOK
<1>f. ASSUME NEW p \in Procs, SaveLogin(p) PROVE Typed'
  <2>1. cmd[p].op \in AuthOps /\ cmd[p].user \in Users /\ token[p] = cmd[p].user
    BY <1>f, ProcFacts DEF SaveLogin, Typed, Fits
  <2>2. StartRev(p) \in Nat
    BY ProcFacts DEF StartRev
  <2>3. [user |-> cmd[p].user, salt |-> cmd[p].user, rev |-> StartRev(p)] \in States
    BY <2>1, <2>2 DEF States
  <2>4. TypeOK' /\ SaltsFit'
    BY <1>f, <2>3, ProcFacts DEF SaveLogin, Go, Typed, TypeOK, SaltsFit, Steps
  <2>5. Fits(p)'
    BY <1>f, <2>1, ProcFacts DEF SaveLogin, Go, Typed, TypeOK, Fits, UserSteps, AuthOps, SyncOps
  <2>6. \A d \in Devices : state[d].user \in Users => state'[d].user \in Users
    BY <1>f, <2>1 DEF SaveLogin, Typed, TypeOK
  <2> QED BY <1>f, <2>4, <2>5, <2>6, TypedGo DEF SaveLogin, Steps
<1>g. ASSUME NEW p \in Procs, LoadSince(p) PROVE Typed'
  <2>1. TypeOK' /\ SaltsFit'
    BY <1>g, ProcFacts DEF LoadSince, Go, Typed, TypeOK, SaltsFit, Steps
  <2>2. Fits(p)'
    BY <1>g DEF LoadSince, Go, Typed, TypeOK, Fits, UserSteps
  <2> QED BY <1>g, <2>1, <2>2, TypedGo DEF LoadSince, Steps, Typed, TypeOK
<1>h. ASSUME NEW p \in Procs, ReadLatest(p) PROVE Typed'
  <2>1. token[p] \in Users /\ currentRev[token[p]] \in Nat
    BY <1>h, ProcFacts DEF ReadLatest, Typed, Fits, UserSteps
  <2>2. [latest |-> currentRev[token[p]], rows |-> NoRows] \in Answers
    BY <2>1, RowTypes DEF Answers
  <2>3. TypeOK' /\ SaltsFit'
    BY <1>h, <2>2 DEF ReadLatest, Go, Typed, TypeOK, SaltsFit, Steps
  <2>4. Fits(p)'
    BY <1>h DEF ReadLatest, Go, Typed, TypeOK, Fits, UserSteps
  <2>5. PICK s \in {"vault", "changes"} : Go(p, s)
    BY <1>h DEF ReadLatest
  <2> QED BY <1>h, <2>3, <2>4, <2>5, TypedGo DEF ReadLatest, Steps, Typed, TypeOK
<1>i. ASSUME NEW p \in Procs, ReadChanges(p) PROVE Typed'
  <2>1. token[p] \in Users /\ items[token[p]] \in [Items -> Rows]
    BY <1>i, ProcFacts DEF ReadChanges, Typed, Fits, UserSteps
  <2>2. RowsSince(items[token[p]], loaded[p].rev) \in [Items -> Rows]
    BY <2>1, RowsSinceTypes
  <2>3. TypeOK' /\ SaltsFit'
    BY <1>i, <2>2 DEF ReadChanges, Go, Typed, TypeOK, SaltsFit, Steps, Answers
  <2>4. Fits(p)'
    BY <1>i DEF ReadChanges, Go, Typed, TypeOK, Fits, UserSteps
  <2> QED BY <1>i, <2>3, <2>4, TypedGo DEF ReadChanges, Steps, Typed, TypeOK
<1>j. ASSUME NEW p \in Procs, LoadVault(p) PROVE Typed'
  <2>1. TypeOK' /\ SaltsFit'
    BY <1>j, ProcFacts DEF LoadVault, Go, Typed, TypeOK, SaltsFit, Steps
  <2>2. Fits(p)'
    BY <1>j DEF LoadVault, Go, Typed, TypeOK, Fits, UserSteps
  <2> QED BY <1>j, <2>1, <2>2, TypedGo DEF LoadVault, Steps, Typed, TypeOK
<1>k. ASSUME NEW p \in Procs, SaveVault(p) PROVE Typed'
  <2>1. Merged(copy[p], got[p].rows) \in [Items -> Rows]
    BY ProcFacts, MergedTypes
  <2>2. /\ vault' = [vault EXCEPT ![Dev(p)] = Merged(copy[p], got[p].rows)]
        /\ UNCHANGED <<registered, currentRev, items, state>>
    BY <1>k DEF SaveVault
  <2>3. vault' \in [Devices -> [Items -> Rows]]
    BY <2>1, <2>2, ProcFacts DEF Typed, TypeOK
  <2>4. CASE Exit(p)
    BY <2>2, <2>3, <2>4, TypedExit DEF Typed, TypeOK, SaltsFit
  <2>5. CASE Go(p, "save_rev") /\ UNCHANGED locals /\ cmd[p].op \notin {"set", "delete"}
    <3>1. TypeOK' /\ SaltsFit'
      BY <2>2, <2>3, <2>5 DEF Go, Typed, TypeOK, SaltsFit, Steps
    <3>2. Fits(p)'
      BY <1>k, <2>2, <2>5 DEF SaveVault, Go, Typed, TypeOK, Fits, UserSteps
    <3> QED BY <2>2, <2>5, <3>1, <3>2, TypedGo DEF Steps
  <2> QED BY <1>k, <2>4, <2>5 DEF SaveVault
<1>l. ASSUME NEW p \in Procs, SaveRev(p) PROVE Typed'
  <2>1. loaded[p].user \in Users /\ loaded[p] \in States /\ got[p].latest \in Nat
        /\ loaded[p].salt = loaded[p].user
    BY <1>l, ProcFacts DEF SaveRev, Typed, Fits, SaltsFit
  <2>2. [loaded[p] EXCEPT !.rev = got[p].latest] \in States
    BY <2>1 DEF States
  <2>3. /\ [loaded[p] EXCEPT !.rev = got[p].latest].user = loaded[p].user
        /\ [loaded[p] EXCEPT !.rev = got[p].latest].salt = loaded[p].salt
    BY <2>1 DEF States
  <2>4. /\ state' \in [Devices -> States]
        /\ \A d \in Devices :
            /\ state'[d].salt = state'[d].user
            /\ state[d].user \in Users => state'[d].user \in Users
    BY <1>l, <2>1, <2>2, <2>3, ProcFacts DEF SaveRev, Typed, TypeOK, SaltsFit
  <2> QED BY <1>l, <2>4, TypedExit DEF SaveRev, Typed, TypeOK
<1>m. ASSUME NEW p \in Procs, LoadSalt(p) PROVE Typed'
  <2>1. TypeOK' /\ SaltsFit'
    BY <1>m, ProcFacts DEF LoadSalt, Go, Typed, TypeOK, SaltsFit, Steps
  <2>2. Fits(p)'
    BY <1>m DEF LoadSalt, Go, Typed, TypeOK, Fits, UserSteps
  <2> QED BY <1>m, <2>1, <2>2, TypedGo DEF LoadSalt, Steps, Typed, TypeOK
<1>n. ASSUME NEW p \in Procs, Send(p) PROVE Typed'
  <2>1. currentRev' \in [Users -> 0 .. MaxRev] /\ items' \in [Users -> [Items -> Rows]]
    BY <1>n, WriteTypes DEF Send
  <2>2. NewRow(p) \in Rows /\ cmd[p].item \in Items
    BY <1>n, NewRowType, ProcFacts DEF Send, Typed, Fits
  <2>3. got' \in [Procs -> Answers]
    BY <1>n, <2>2 DEF Send, Typed, TypeOK, Answers
  <2>4. TypeOK' /\ SaltsFit'
    BY <1>n, <2>1, <2>3 DEF Send, Go, Typed, TypeOK, SaltsFit, Steps
  <2>5. Fits(p)'
    BY <1>n DEF Send, Go, Typed, TypeOK, Fits, UserSteps
  <2> QED BY <1>n, <2>4, <2>5, TypedGo DEF Send, Steps, Typed, TypeOK
<1>o. ASSUME NEW p \in Procs, SendUnheard(p) PROVE Typed'
  BY <1>o, WriteTypes, TypedExit DEF SendUnheard, Typed, TypeOK, SaltsFit
<1>p. ASSUME NEW p \in Procs, Stop(p) PROVE Typed'
  BY <1>p, TypedExit DEF Stop, Typed, TypeOK, SaltsFit
<1>q. CASE UNCHANGED vars
  BY <1>q DEF vars, Typed, TypeOK, SaltsFit, Fits
<1> QED BY <1>a, <1>b, <1>c, <1>d, <1>e, <1>f, <1>g, <1>h, <1>i, <1>j, <1>k, <1>l,
           <1>m, <1>n, <1>o, <1>p, <1>q DEF Next

(* Every reachable state of the client and the server is typed, with any   *)
(* number of commands at a time: no command sends a request without a      *)
(* user, and no row is written without a salt.                             *)
THEOREM TypeCorrect == Spec => []TypeOK
<1>1. Typed => TypeOK
  BY DEF Typed
<1> QED BY <1>1, TypedInit, TypedNext, PTL DEF Spec

-----------------------------------------------------------------------------
(* Who writes what.                                                        *)

LEMMA ServerWriters ==
    ASSUME [Next]_vars
    PROVE  \/ UNCHANGED <<currentRev, items>>
           \/ \E p \in Procs : pc[p] = "send" /\ CanWrite(p) /\ Write(p)
<1> USE DEF server, files, locals
<1>1. ASSUME NEW p \in Procs,
             \/ Start(p) \/ Authenticate(p) \/ RegisterUnheard(p) \/ LoadOldState(p)
             \/ WipeVault(p) \/ SaveLogin(p) \/ LoadSince(p) \/ ReadLatest(p)
             \/ ReadChanges(p) \/ LoadVault(p) \/ SaveVault(p) \/ SaveRev(p)
             \/ LoadSalt(p) \/ Stop(p)
      PROVE  UNCHANGED <<currentRev, items>>
  BY <1>1 DEF Start, Authenticate, RegisterUnheard, LoadOldState, WipeVault, SaveLogin,
     LoadSince, ReadLatest, ReadChanges, LoadVault, SaveVault, SaveRev, LoadSalt, Stop
<1>2. ASSUME NEW p \in Procs, Send(p) \/ SendUnheard(p)
      PROVE  pc[p] = "send" /\ CanWrite(p) /\ Write(p)
  BY <1>2 DEF Send, SendUnheard
<1>3. UNCHANGED vars => UNCHANGED <<currentRev, items>>
  BY DEF vars
<1> QED BY <1>1, <1>2, <1>3 DEF Next

LEMMA VaultWriters ==
    ASSUME [Next]_vars
    PROVE  \/ vault' = vault
           \/ \E p \in Procs : WipeVault(p) \/ SaveVault(p)
<1> USE DEF server, files, locals
<1>1. ASSUME NEW p \in Procs,
             \/ Start(p) \/ Authenticate(p) \/ RegisterUnheard(p) \/ LoadOldState(p)
             \/ SaveLogin(p) \/ LoadSince(p) \/ ReadLatest(p)
             \/ ReadChanges(p) \/ LoadVault(p) \/ SaveRev(p)
             \/ LoadSalt(p) \/ Send(p) \/ SendUnheard(p) \/ Stop(p)
      PROVE  vault' = vault
  BY <1>1 DEF Start, Authenticate, RegisterUnheard, LoadOldState, SaveLogin,
     LoadSince, ReadLatest, ReadChanges, LoadVault, SaveRev, LoadSalt, Send, SendUnheard, Stop
<1>2. UNCHANGED vars => vault' = vault
  BY DEF vars
<1> QED BY <1>1, <1>2 DEF Next

LEMMA StateWriters ==
    ASSUME [Next]_vars
    PROVE  \/ state' = state
           \/ \E p \in Procs : SaveLogin(p) \/ SaveRev(p)
<1> USE DEF server, files, locals
<1>1. ASSUME NEW p \in Procs,
             \/ Start(p) \/ Authenticate(p) \/ RegisterUnheard(p) \/ LoadOldState(p)
             \/ WipeVault(p) \/ LoadSince(p) \/ ReadLatest(p)
             \/ ReadChanges(p) \/ LoadVault(p) \/ SaveVault(p)
             \/ LoadSalt(p) \/ Send(p) \/ SendUnheard(p) \/ Stop(p)
      PROVE  state' = state
  BY <1>1 DEF Start, Authenticate, RegisterUnheard, LoadOldState, WipeVault,
     LoadSince, ReadLatest, ReadChanges, LoadVault, SaveVault, LoadSalt, Send, SendUnheard, Stop
<1>2. UNCHANGED vars => state' = state
  BY DEF vars
<1> QED BY <1>1, <1>2 DEF Next

(* A command's memory is written by itself.                                *)
LEMMA MemoryWriters ==
    ASSUME Typed, [Next]_vars, NEW q \in Procs
    PROVE  /\ \/ copy'[q] = copy[q] \/ copy'[q] = NoRows \/ copy'[q] = vault[Dev(q)]
           /\ \/ got'[q].rows = got[q].rows \/ got'[q].rows = NoRows
              \/ ReadChanges(q) \/ Send(q)
<1> USE DEF Typed, TypeOK, server, files, locals
<1> DEFINE Goal == /\ \/ copy'[q] = copy[q] \/ copy'[q] = NoRows \/ copy'[q] = vault[Dev(q)]
                   /\ \/ got'[q].rows = got[q].rows \/ got'[q].rows = NoRows
                      \/ ReadChanges(q) \/ Send(q)
<1>1. ASSUME NEW p \in Procs,
             \/ Start(p) \/ Authenticate(p) \/ LoadOldState(p)
             \/ WipeVault(p) \/ SaveLogin(p) \/ LoadSince(p) \/ LoadSalt(p)
      PROVE  Goal
  BY <1>1 DEF Start, Authenticate, LoadOldState, WipeVault, SaveLogin, LoadSince, LoadSalt
<1>2. ASSUME NEW p \in Procs, Exit(p) PROVE Goal
  BY <1>2, RowTypes DEF Exit
<1>3. ASSUME NEW p \in Procs, RegisterUnheard(p) \/ SaveRev(p) \/ SendUnheard(p) \/ Stop(p)
      PROVE  Goal
  BY <1>2, <1>3 DEF RegisterUnheard, SaveRev, SendUnheard, Stop
<1>4. ASSUME NEW p \in Procs, SaveVault(p) PROVE Goal
  BY <1>2, <1>4 DEF SaveVault
<1>5. ASSUME NEW p \in Procs, ReadLatest(p) PROVE Goal
  BY <1>5, RowTypes DEF ReadLatest
<1>6. ASSUME NEW p \in Procs, LoadVault(p) PROVE Goal
  BY <1>6 DEF LoadVault
<1>7. ASSUME NEW p \in Procs, ReadChanges(p) PROVE Goal
  BY <1>7 DEF ReadChanges
<1>8. ASSUME NEW p \in Procs, Send(p) PROVE Goal
  BY <1>8 DEF Send
<1>9. UNCHANGED vars => Goal
  BY DEF vars
<1> QED BY <1>1, <1>3, <1>4, <1>5, <1>6, <1>7, <1>8, <1>9 DEF Next

-----------------------------------------------------------------------------
(* Rows and their copies.                                                  *)

(* The server's rows carry the revisions that were given out.              *)
ServerRows ==
    \A u \in Users, i \in Items :
        /\ items[u][i].rev =< currentRev[u]
        /\ items[u][i].rev = 0 => items[u][i] = NoRow
        /\ items[u][i].rev > 0 => items[u][i].owner = u

LEMMA WriteEffect ==
    ASSUME Typed, NEW p \in Procs, pc[p] = "send", CanWrite(p), Write(p)
    PROVE  LET u == token[p]
               i == cmd[p].item
           IN  /\ u \in Users /\ i \in Items
               /\ currentRev[u] \in Nat /\ currentRev'[u] = currentRev[u] + 1
               /\ items'[u][i] = NewRow(p)
               /\ NewRow(p) \in Rows
               /\ NewRow(p).rev = currentRev[u] + 1 /\ NewRow(p).owner = u
               /\ \A j \in Items \ {i} : items'[u][j] = items[u][j]
               /\ \A v \in Users \ {u} : items'[v] = items[v] /\ currentRev'[v] = currentRev[v]
<1>1. token[p] \in Users /\ cmd[p].item \in Items /\ currentRev[token[p]] \in Nat
  BY ProcFacts DEF Typed, Fits, UserSteps
<1>2. NewRow(p) \in Rows
  BY NewRowType
<1> QED BY <1>1, <1>2 DEF Write, NewRow, Typed, TypeOK

(* Revisions only grow.                                                    *)
LEMMA ServerGrows ==
    ASSUME Typed, ServerRows, [Next]_vars, NEW u \in Users
    PROVE  /\ currentRev[u] \in Nat /\ currentRev'[u] \in Nat /\ currentRev'[u] >= currentRev[u]
           /\ \A i \in Items :
                \/ items'[u][i] = items[u][i]
                \/ /\ items'[u][i].rev = currentRev[u] + 1
                   /\ currentRev'[u] = currentRev[u] + 1
                   /\ items'[u][i].owner = u
<1>0. currentRev[u] \in Nat
  BY MaxRevAssumption DEF Typed, TypeOK
<1>1. CASE UNCHANGED <<currentRev, items>>
  BY <1>0, <1>1
<1>2. ASSUME NEW p \in Procs, pc[p] = "send", CanWrite(p), Write(p)
      PROVE  /\ currentRev'[u] \in Nat /\ currentRev'[u] >= currentRev[u]
             /\ \A i \in Items :
                \/ items'[u][i] = items[u][i]
                \/ /\ items'[u][i].rev = currentRev[u] + 1
                   /\ currentRev'[u] = currentRev[u] + 1
                   /\ items'[u][i].owner = u
  <2>1. CASE u = token[p]
    BY <1>0, <1>2, <2>1, WriteEffect
  <2>2. CASE u # token[p]
    BY <1>0, <1>2, <2>2, WriteEffect
  <2> QED BY <2>1, <2>2
<1> QED BY <1>0, <1>1, <1>2, ServerWriters

LEMMA ServerRowsStep == Typed /\ ServerRows /\ [Next]_vars => ServerRows'
<1> SUFFICES ASSUME Typed, ServerRows, [Next]_vars, NEW u \in Users, NEW i \in Items
             PROVE  /\ items'[u][i].rev =< currentRev'[u]
                    /\ items'[u][i].rev = 0 => items'[u][i] = NoRow
                    /\ items'[u][i].rev > 0 => items'[u][i].owner = u
  BY DEF ServerRows
<1>1. items[u][i].rev \in Nat
  BY DEF Typed, TypeOK, Rows
<1>2. CASE items'[u][i] = items[u][i]
  BY <1>1, <1>2, ServerGrows DEF ServerRows
<1>3. CASE items'[u][i] # items[u][i]
  BY <1>1, <1>3, ServerGrows DEF ServerRows
<1> QED BY <1>2, <1>3

(* row is, or once was, the server's row of item i, apart from the payload *)
(* of a tombstone.                                                         *)
Like(row, table, i) ==
    /\ row.rev = 0 => row = NoRow
    /\ row.rev > 0 =>
        LET theirs == table[row.owner][i] IN
        /\ row.owner \in Users
        /\ row.rev =< theirs.rev
        /\ row.rev = theirs.rev => Sanitized(row) = Sanitized(theirs)

Clean(row) == Sanitized(row) = row

RowsFaithful ==
    /\ \A d \in Devices, i \in Items : Like(vault[d][i], items, i) /\ Clean(vault[d][i])
    /\ \A p \in Procs, i \in Items : Like(copy[p][i], items, i) /\ Clean(copy[p][i])
    /\ \A p \in Procs, i \in Items : Like(got[p].rows[i], items, i)

LEMMA LikeStays ==
    ASSUME Typed, ServerRows, [Next]_vars, NEW row \in Rows, NEW i \in Items, Like(row, items, i)
    PROVE  Like(row, items', i)
<1>1. CASE row.rev = 0
  BY <1>1 DEF Like
<1>2. CASE row.rev # 0
  <2>1. row.rev > 0 /\ row.owner \in Users /\ row.rev \in Nat
    BY <1>2 DEF Like, Rows
  <2>2. items[row.owner][i].rev \in Nat /\ items[row.owner][i].rev =< currentRev[row.owner]
    BY <2>1 DEF Typed, TypeOK, ServerRows, Rows
  <2> QED BY <2>1, <2>2, ServerGrows DEF Like
<1> QED BY <1>1, <1>2

LEMMA CleanFacts ==
    /\ Clean(NoRow) /\ \A table, i : Like(NoRow, table, i)
    /\ \A row \in Rows : Clean(Sanitized(row))
    /\ \A row \in Rows : \A table, i : row # NoRow /\ Like(row, table, i) => Like(Sanitized(row), table, i)
    /\ \A row \in Rows :
        Sanitized(row).rev = row.rev /\ Sanitized(row).owner = row.owner
            /\ Sanitized(row).deleted = row.deleted
<1>1. \A row \in Rows :
        /\ Sanitized(row).rev = row.rev /\ Sanitized(row).owner = row.owner
        /\ Sanitized(row).deleted = row.deleted
        /\ Sanitized(row).payload = IF row.deleted THEN "empty" ELSE row.payload
        /\ Sanitized(row) \in Rows
  BY DEF Sanitized, Rows, Payloads
<1>2. \A row \in Rows : Sanitized(Sanitized(row)) = Sanitized(row)
  BY <1>1 DEF Sanitized, Rows
<1>3. Clean(NoRow) /\ \A table, i : Like(NoRow, table, i)
  <2>1. NoRow.rev = 0 /\ NoRow.deleted = FALSE /\ NoRow.payload = "empty"
    BY DEF NoRow
  <2>2. Clean(NoRow)
    BY DEF Clean, Sanitized, NoRow
  <2>3. \A table, i : Like(NoRow, table, i)
    BY <2>1 DEF Like
  <2> QED BY <2>2, <2>3
<1>4. \A row \in Rows : row.rev \in Nat
  BY DEF Rows
<1>5. \A row \in Rows : \A table, i : row # NoRow /\ Like(row, table, i) => Like(Sanitized(row), table, i)
  BY <1>1, <1>2, <1>4 DEF Like
<1>6. \A row \in Rows : Clean(Sanitized(row))
  BY <1>2 DEF Clean
<1>7. \A row \in Rows :
        Sanitized(row).rev = row.rev /\ Sanitized(row).owner = row.owner
            /\ Sanitized(row).deleted = row.deleted
  BY <1>1
<1> QED BY <1>3, <1>5, <1>6, <1>7

LEMMA MergedLike ==
    ASSUME NEW table \in [Items -> Rows], NEW rows \in [Items -> Rows], NEW server0, NEW i \in Items,
           Like(table[i], server0, i), Clean(table[i]), Like(rows[i], server0, i)
    PROVE  Like(Merged(table, rows)[i], server0, i) /\ Clean(Merged(table, rows)[i])
BY CleanFacts DEF Merged

LEMMA RowsFaithfulStep == Typed /\ ServerRows /\ RowsFaithful /\ [Next]_vars => RowsFaithful'
<1> SUFFICES ASSUME Typed, ServerRows, RowsFaithful, [Next]_vars PROVE RowsFaithful'
  OBVIOUS
<1>0. \A i \in Items : NoRows[i] = NoRow
  BY DEF NoRows
<1>1. ASSUME NEW d \in Devices, NEW i \in Items
      PROVE  Like(vault'[d][i], items', i) /\ Clean(vault'[d][i])
  <2>0. vault[d][i] \in Rows
    BY DEF Typed, TypeOK
  <2>1. CASE vault'[d] = vault[d]
    BY <2>0, <2>1, LikeStays DEF RowsFaithful
  <2>2. ASSUME NEW p \in Procs, WipeVault(p), d = Dev(p)
        PROVE  Like(vault'[d][i], items', i) /\ Clean(vault'[d][i])
    BY <1>0, <2>2, CleanFacts DEF WipeVault, Typed, TypeOK
  <2>3. ASSUME NEW p \in Procs, SaveVault(p), d = Dev(p)
        PROVE  Like(vault'[d][i], items', i) /\ Clean(vault'[d][i])
    <3>1. vault'[d] = Merged(copy[p], got[p].rows) /\ items' = items
      BY <2>3 DEF SaveVault, server, Typed, TypeOK
    <3>2. copy[p] \in [Items -> Rows] /\ got[p].rows \in [Items -> Rows]
      BY ProcFacts
    <3> QED BY <3>1, <3>2, MergedLike DEF RowsFaithful
  <2>4. ASSUME NEW p \in Procs, WipeVault(p) \/ SaveVault(p), d # Dev(p)
        PROVE  vault'[d] = vault[d]
    BY <2>4 DEF WipeVault, SaveVault, Typed, TypeOK
  <2> QED BY <2>1, <2>2, <2>3, <2>4, VaultWriters
<1>2. ASSUME NEW q \in Procs, NEW i \in Items
      PROVE  Like(copy'[q][i], items', i) /\ Clean(copy'[q][i])
  <2>0. copy[q][i] \in Rows /\ Dev(q) \in Devices /\ vault[Dev(q)][i] \in Rows
    BY ProcFacts DEF Typed, TypeOK
  <2>1. CASE copy'[q] = NoRows
    BY <1>0, <2>1, CleanFacts
  <2>2. CASE copy'[q] = copy[q]
    BY <2>0, <2>2, LikeStays DEF RowsFaithful
  <2>3. CASE copy'[q] = vault[Dev(q)]
    BY <2>0, <2>3, LikeStays DEF RowsFaithful
  <2> QED BY <2>1, <2>2, <2>3, MemoryWriters
<1>3. ASSUME NEW q \in Procs, NEW i \in Items PROVE Like(got'[q].rows[i], items', i)
  <2>0. got[q].rows[i] \in Rows
    BY ProcFacts
  <2>1. CASE got'[q].rows = NoRows
    BY <1>0, <2>1, CleanFacts
  <2>2. CASE got'[q].rows = got[q].rows
    BY <2>0, <2>2, LikeStays DEF RowsFaithful
  <2>3. CASE ReadChanges(q)
    <3>1. got'[q].rows[i] = items[token[q]][i] \/ got'[q].rows[i] = NoRow
      BY <2>3 DEF ReadChanges, RowsSince, Typed, TypeOK, Answers
    <3>2. token[q] \in Users /\ items' = items
      BY <2>3, ProcFacts DEF ReadChanges, Typed, Fits, UserSteps, server
    <3>3. items[token[q]][i] \in Rows
      BY <3>2 DEF Typed, TypeOK
    <3>4. Like(items[token[q]][i], items, i)
      BY <3>2, <3>3 DEF Like, ServerRows, Rows
    <3> QED BY <3>1, <3>2, <3>4, CleanFacts
  <2>4. CASE Send(q)
    <3>1. pc[q] = "send" /\ CanWrite(q) /\ Write(q)
      BY <2>4 DEF Send
    <3>2. cmd[q].item \in Items /\ token[q] \in Users
      BY <3>1, WriteEffect
    <3>3. got'[q].rows = [got[q].rows EXCEPT ![cmd[q].item] = NewRow(q)]
      BY <2>4 DEF Send, Typed, TypeOK, Answers
    <3>4. CASE i = cmd[q].item
      <4>1. got'[q].rows[i] = NewRow(q)
        BY <3>3, <3>4, ProcFacts
      <4>2. items'[token[q]][i] = NewRow(q) /\ NewRow(q).rev > 0 /\ NewRow(q).rev # 0
            /\ NewRow(q).owner = token[q]
        BY <3>1, <3>4, WriteEffect
      <4>3. NewRow(q).rev =< NewRow(q).rev
        BY <3>1, WriteEffect
      <4> QED BY <3>2, <4>1, <4>2, <4>3 DEF Like
    <3>5. CASE i # cmd[q].item
      <4>1. got'[q].rows[i] = got[q].rows[i]
        BY <3>3, <3>5, ProcFacts
      <4> QED BY <2>0, <4>1, LikeStays DEF RowsFaithful
    <3> QED BY <3>4, <3>5
  <2> QED BY <2>1, <2>2, <2>3, <2>4, MemoryWriters
<1> QED BY <1>1, <1>2, <1>3 DEF RowsFaithful

FInv == Typed /\ ServerRows /\ RowsFaithful

LEMMA FInvHolds == Spec => []FInv
<1>1. Init => FInv
  <2>1. ASSUME Init PROVE RowsFaithful
    BY <2>1, CleanFacts, RowTypes DEF Init, RowsFaithful, NoRows, NoAnswer
  <2>2. ASSUME Init PROVE ServerRows
    BY <2>2 DEF Init, ServerRows, NoRows, NoRow
  <2> QED BY <2>1, <2>2, TypedInit DEF FInv
<1>2. FInv /\ [Next]_vars => FInv'
  BY TypedNext, ServerRowsStep, RowsFaithfulStep DEF FInv
<1> QED BY <1>1, <1>2, PTL DEF Spec

(* However many commands overlap on a device, its vault never holds a row  *)
(* the server has not had, nor a newer one than the server has.            *)
THEOREM VaultsFaithful == Spec => []VaultFaithful
<1>1. FInv => VaultFaithful
  <2> SUFFICES ASSUME FInv, NEW d \in Devices, NEW i \in Items, vault[d][i].rev > 0
               PROVE  LET mine == vault[d][i]  theirs == items[mine.owner][i] IN
                      /\ mine.rev =< theirs.rev
                      /\ mine.rev = theirs.rev => mine = Sanitized(theirs)
    BY DEF VaultFaithful
  <2> QED BY DEF FInv, RowsFaithful, Like, Clean
<1> QED BY <1>1, FInvHolds, PTL

-----------------------------------------------------------------------------
(* Devices that run one command after another.                             *)

(* The command reads its since from the state file and has not written the *)
(* file yet; once it is answered it knows the server's revision.           *)
Syncing(p) ==
    \/ pc[p] \in {"latest", "changes", "save_rev"}
    \/ pc[p] \in {"vault", "save_vault"} /\ cmd[p].op \notin {"set", "delete"}

Answered(p) == Syncing(p) /\ pc[p] # "latest"

(* What a state file and a vault file may hold between any two steps.      *)
DeviceInv(d) ==
    /\ state[d].user \in registered \cup {Nobody}
    /\ state[d].user = Nobody => state[d].rev = 0
    /\ state[d].user # Nobody => state[d].rev =< currentRev[state[d].user]
    /\ \A i \in Items : vault[d][i].owner \in {Nobody, state[d].user}

(* What a command has in memory is still what the files say ...            *)
LoadedInv(p) ==
    LET d == Dev(p) IN
    /\ pc[p] \in UserSteps => token[p] = state[d].user
    /\ pc[p] \in {"wipe", "login_state"} \/ Syncing(p) => loaded[p] = state[d]
    /\ pc[p] = "send" /\ cmd[p].op = "set" => loaded[p] = state[d]
    /\ pc[p] \in {"who", "wipe", "login_state"} =>
        /\ cmd[p].user \in registered
        /\ cmd[p].op = "register" => state[d].user # cmd[p].user
    /\ pc[p] = "login_state" => loaded[p].user \in {Nobody, cmd[p].user} \/ vault[d] = NoRows
    /\ pc[p] = "save_vault" => copy[p] = vault[d]

(* ... and what the server answered is the same user's, and not older.     *)
FetchedInv(p) ==
    /\ pc[p] \notin {"vault", "save_vault", "save_rev"} => got[p].rows = NoRows
    /\ pc[p] \in {"vault", "save_vault"} =>
        \A i \in Items :
            /\ got[p].rows[i].owner \in {Nobody, token[p]}
            /\ got[p].rows[i].rev = 0 \/ got[p].rows[i].rev >= vault[Dev(p)][i].rev
    /\ Answered(p) => loaded[p].rev =< got[p].latest /\ got[p].latest =< currentRev[token[p]]

SInv ==
    /\ FInv
    /\ KeyMatchesAccount
    /\ \A d \in Devices : DeviceInv(d)
    /\ \A p \in Procs : LoadedInv(p) /\ FetchedInv(p)


StepOf(p) ==
    \/ Start(p) \/ Authenticate(p) \/ RegisterUnheard(p)
    \/ LoadOldState(p) \/ WipeVault(p) \/ SaveLogin(p)
    \/ LoadSince(p) \/ ReadLatest(p) \/ ReadChanges(p)
    \/ LoadVault(p) \/ SaveVault(p) \/ SaveRev(p)
    \/ LoadSalt(p) \/ Send(p) \/ SendUnheard(p) \/ Stop(p)

LEMMA NextSteps == [Next]_vars => UNCHANGED vars \/ \E p \in Procs : StepOf(p)
BY DEF Next, StepOf

(* A command leaves the memory of the others alone ...                     *)
LEMMA OthersMemory ==
    ASSUME Typed, NEW p \in Procs, StepOf(p), NEW q \in Procs, q # p
    PROVE  /\ pc'[q] = pc[q] /\ cmd'[q] = cmd[q] /\ token'[q] = token[q]
           /\ loaded'[q] = loaded[q] /\ got'[q] = got[q] /\ copy'[q] = copy[q]
<1> USE DEF server, files, locals, Go, Exit, Typed, TypeOK
<1>1. CASE \/ Start(p) \/ Authenticate(p) \/ RegisterUnheard(p) \/ LoadOldState(p)
           \/ WipeVault(p) \/ SaveLogin(p)
  BY <1>1 DEF Start, Authenticate, RegisterUnheard, LoadOldState, WipeVault, SaveLogin
<1>2. CASE \/ LoadSince(p) \/ ReadLatest(p) \/ ReadChanges(p) \/ LoadVault(p) \/ LoadSalt(p)
  BY <1>2 DEF LoadSince, ReadLatest, ReadChanges, LoadVault, LoadSalt
<1>3. CASE SaveVault(p) \/ SaveRev(p) \/ Send(p) \/ SendUnheard(p) \/ Stop(p)
  BY <1>3 DEF SaveVault, SaveRev, Send, SendUnheard, Stop
<1> QED BY <1>1, <1>2, <1>3 DEF StepOf

(* ... and the files of the other devices.                                 *)
LEMMA OthersFiles ==
    ASSUME Typed, NEW p \in Procs, StepOf(p), NEW d \in Devices, d # Dev(p)
    PROVE  state'[d] = state[d] /\ vault'[d] = vault[d]
<1> USE DEF server, files, locals, Typed, TypeOK
<1>1. CASE \/ Start(p) \/ Authenticate(p) \/ RegisterUnheard(p) \/ LoadOldState(p)
           \/ WipeVault(p) \/ SaveLogin(p)
  BY <1>1 DEF Start, Authenticate, RegisterUnheard, LoadOldState, WipeVault, SaveLogin
<1>2. CASE \/ LoadSince(p) \/ ReadLatest(p) \/ ReadChanges(p) \/ LoadVault(p) \/ LoadSalt(p)
  BY <1>2 DEF LoadSince, ReadLatest, ReadChanges, LoadVault, LoadSalt
<1>3. CASE SaveVault(p) \/ SaveRev(p) \/ Send(p) \/ SendUnheard(p) \/ Stop(p)
  BY <1>3 DEF SaveVault, SaveRev, Send, SendUnheard, Stop
<1> QED BY <1>1, <1>2, <1>3 DEF StepOf

LEMMA RegisteredGrows == ASSUME [Next]_vars PROVE registered \subseteq registered'
<1> USE DEF server, files, locals
<1>1. ASSUME NEW p \in Procs,
             \/ Start(p) \/ LoadOldState(p) \/ WipeVault(p) \/ SaveLogin(p) \/ LoadSince(p)
             \/ ReadLatest(p) \/ ReadChanges(p) \/ LoadVault(p) \/ SaveVault(p) \/ SaveRev(p)
             \/ LoadSalt(p) \/ Send(p) \/ SendUnheard(p) \/ Stop(p)
      PROVE  registered' = registered
  BY <1>1 DEF Start, LoadOldState, WipeVault, SaveLogin, LoadSince,
     ReadLatest, ReadChanges, LoadVault, SaveVault, SaveRev, LoadSalt, Send, SendUnheard, Stop
<1>2. ASSUME NEW p \in Procs, Authenticate(p) \/ RegisterUnheard(p)
      PROVE  registered \subseteq registered'
  BY <1>2 DEF Authenticate, RegisterUnheard
<1>3. UNCHANGED vars => registered' = registered
  BY DEF vars
<1> QED BY <1>1, <1>2, <1>3 DEF Next

LEMMA OneCommand ==
    ASSUME Sequential, NEW p \in Procs, NEW q \in Procs, q # p
    PROVE  Dev(q) # Dev(p)
BY DEF Sequential, Procs, Dev

(* What the invariant says of a device and of a command that did not step  *)
(* survives, because the server only grows.                                *)
LEMMA DeviceStays ==
    ASSUME SInv, [Next]_vars, NEW d \in Devices, state'[d] = state[d], vault'[d] = vault[d]
    PROVE  DeviceInv(d)'
<1>1. state[d].user \in Users \cup {Nobody} /\ state[d].rev \in Nat
  BY DEF SInv, FInv, Typed, TypeOK, States
<1>2. state[d].user # Nobody =>
        /\ currentRev[state[d].user] \in Nat /\ currentRev'[state[d].user] \in Nat
        /\ currentRev'[state[d].user] >= currentRev[state[d].user]
  BY <1>1, ServerGrows DEF SInv, FInv
<1> QED BY <1>1, <1>2, RegisteredGrows DEF SInv, DeviceInv

LEMMA CommandStays ==
    ASSUME SInv, Sequential, NEW p \in Procs, StepOf(p), NEW q \in Procs, q # p
    PROVE  LoadedInv(q)' /\ FetchedInv(q)'
<1>0. Typed /\ ServerRows /\ LoadedInv(q) /\ FetchedInv(q) /\ [Next]_vars
  BY DEF SInv, FInv, StepOf, Next
<1>1. /\ pc'[q] = pc[q] /\ cmd'[q] = cmd[q] /\ token'[q] = token[q]
      /\ loaded'[q] = loaded[q] /\ got'[q] = got[q] /\ copy'[q] = copy[q]
  BY <1>0, OthersMemory
<1>2. state'[Dev(q)] = state[Dev(q)] /\ vault'[Dev(q)] = vault[Dev(q)]
  BY <1>0, OthersFiles, OneCommand, ProcFacts
<1>3. LoadedInv(q)'
  BY <1>0, <1>1, <1>2, RegisteredGrows DEF LoadedInv, Syncing
<1>4. Answered(q) => token[q] \in Users
  BY <1>0 DEF Typed, Fits, Answered, Syncing, UserSteps
<1>5. Answered(q) => currentRev[token[q]] \in Nat /\ currentRev'[token[q]] \in Nat
                     /\ currentRev'[token[q]] >= currentRev[token[q]]
  BY <1>0, <1>4, ServerGrows
<1>6. got[q].latest \in Nat
  BY <1>0, ProcFacts
<1>7. FetchedInv(q)'
  BY <1>0, <1>1, <1>2, <1>5, <1>6 DEF FetchedInv, Answered, Syncing
<1> QED BY <1>3, <1>7

(* A command that ends knows nothing.                                      *)
LEMMA EndedKnows ==
    ASSUME Typed, NEW p \in Procs, Exit(p)
    PROVE  LoadedInv(p)' /\ FetchedInv(p)'
<1>1. pc'[p] = "idle" /\ got'[p].rows = NoRows
  BY RowTypes DEF Exit, Go, Typed, TypeOK
<1> QED BY <1>1 DEF LoadedInv, FetchedInv, Answered, Syncing, UserSteps

(* The step a command takes keeps what it knows and its device's files.    *)
LEMMA CommandSteps ==
    ASSUME SInv, NEW p \in Procs, StepOf(p)
    PROVE  DeviceInv(Dev(p))' /\ LoadedInv(p)' /\ FetchedInv(p)'
<1> DEFINE d == Dev(p)
<1>0. /\ Typed /\ ServerRows /\ RowsFaithful /\ LoadedInv(p) /\ FetchedInv(p) /\ DeviceInv(d)
      /\ d \in Devices /\ [Next]_vars /\ Fits(p)
  BY ProcFacts DEF SInv, FInv, StepOf, Next, Typed
<1>t. TypeOK
  BY <1>0 DEF Typed
<1> USE DEF server, files, locals
<1>v. \A i \in Items : vault[d][i] \in Rows
  BY <1>0, <1>t, ProcFacts
<1>a. ASSUME Start(p) PROVE DeviceInv(d)' /\ LoadedInv(p)' /\ FetchedInv(p)'
  <2>1. PICK c \in Commands : Go(p, FirstStep(c.op)) /\ cmd' = [cmd EXCEPT ![p] = c]
    BY <1>a DEF Start
  <2>2. /\ pc[p] = "idle"
        /\ pc'[p] \in {"auth", "salt", "send", "since"}
        /\ pc'[p] = "send" => c.op = "delete"
        /\ cmd'[p] = c /\ token'[p] = state[d].user /\ loaded' = loaded /\ got' = got
        /\ copy' = copy /\ state' = state /\ vault' = vault
    BY <1>a, <1>t, <2>1, CommandFacts DEF Start, Go, FirstStep, TypeOK
  <2>3. LoadedInv(p)'
    BY <2>2 DEF LoadedInv, Syncing, UserSteps
  <2>4. FetchedInv(p)'
    BY <1>0, <2>2 DEF FetchedInv, Answered, Syncing
  <2> QED BY <1>0, <2>2, <2>3, <2>4, DeviceStays
<1>b. ASSUME Authenticate(p) PROVE DeviceInv(d)' /\ LoadedInv(p)' /\ FetchedInv(p)'
  <2>1. /\ pc[p] = "auth" /\ pc'[p] = "who" /\ cmd' = cmd /\ loaded' = loaded
        /\ got' = got /\ copy' = copy /\ state' = state /\ vault' = vault
        /\ registered' = registered \cup {cmd[p].user}
        /\ cmd[p].op = "register" => cmd[p].user \notin registered
        /\ cmd[p].user \in Users
    BY <1>b, <1>t, <1>0, ProcFacts DEF Authenticate, Go, TypeOK, Fits
  <2>2. LoadedInv(p)'
    BY <1>0, <2>1, NobodyAssumption DEF LoadedInv, Syncing, UserSteps, DeviceInv
  <2>3. FetchedInv(p)'
    BY <1>0, <2>1 DEF FetchedInv, Answered, Syncing
  <2> QED BY <1>0, <2>1, <2>2, <2>3, DeviceStays
<1>c. ASSUME RegisterUnheard(p) PROVE DeviceInv(d)' /\ LoadedInv(p)' /\ FetchedInv(p)'
  BY <1>c, <1>0, EndedKnows, DeviceStays DEF RegisterUnheard
<1>d. ASSUME LoadOldState(p) PROVE DeviceInv(d)' /\ LoadedInv(p)' /\ FetchedInv(p)'
  <2>1. /\ pc[p] = "who" /\ pc'[p] \in {"wipe", "login_state"} /\ cmd' = cmd /\ token' = token
        /\ loaded'[p] = state[d] /\ registered' = registered
        /\ pc'[p] = "login_state" => state[d].user \in {Nobody, cmd[p].user}
        /\ got' = got /\ copy' = copy /\ state' = state /\ vault' = vault
    BY <1>d, <1>t DEF LoadOldState, Go, TypeOK
  <2>2. LoadedInv(p)'
    BY <1>0, <2>1 DEF LoadedInv, Syncing, UserSteps
  <2>3. FetchedInv(p)'
    BY <1>0, <2>1 DEF FetchedInv, Answered, Syncing
  <2> QED BY <1>0, <2>1, <2>2, <2>3, DeviceStays
<1>e. ASSUME WipeVault(p) PROVE DeviceInv(d)' /\ LoadedInv(p)' /\ FetchedInv(p)'
  <2>1. /\ pc[p] = "wipe" /\ pc'[p] = "login_state" /\ vault'[d] = NoRows
        /\ UNCHANGED <<cmd, token, loaded, got, copy, state, registered, currentRev>>
    BY <1>e, <1>t, <1>0 DEF WipeVault, Go, TypeOK
  <2>2. LoadedInv(p)'
    BY <1>0, <2>1 DEF LoadedInv, Syncing, UserSteps
  <2>3. FetchedInv(p)'
    BY <1>0, <2>1 DEF FetchedInv, Answered, Syncing
  <2>4. DeviceInv(d)'
    BY <1>0, <2>1 DEF DeviceInv, NoRows, NoRow
  <2> QED BY <2>2, <2>3, <2>4
<1>f. ASSUME SaveLogin(p) PROVE DeviceInv(d)' /\ LoadedInv(p)' /\ FetchedInv(p)'
  <2>1. /\ pc[p] = "login_state" /\ pc'[p] = "since"
        /\ state'[d] = [user |-> cmd[p].user, salt |-> cmd[p].user, rev |-> StartRev(p)]
        /\ UNCHANGED <<cmd, token, loaded, got, copy, vault, registered, currentRev>>
    BY <1>f, <1>t, <1>0 DEF SaveLogin, Go, TypeOK
  <2>2. /\ cmd[p].user \in Users /\ token[p] = cmd[p].user /\ cmd[p].user \in registered
        /\ cmd[p].op \in AuthOps
        /\ loaded[p] = state[d]
        /\ loaded[p].user \in {Nobody, cmd[p].user} \/ vault[d] = NoRows
    BY <1>0, <2>1, ProcFacts DEF Fits, LoadedInv
  <2>3. currentRev[cmd[p].user] \in Nat
    BY <1>t, <2>2, MaxRevAssumption DEF TypeOK
  <2>4. StartRev(p) =< currentRev[cmd[p].user]
    BY <1>0, <2>2, <2>3 DEF StartRev, DeviceInv
  <2>5. \A i \in Items : vault[d][i].owner \in {Nobody, cmd[p].user}
    BY <1>0, <2>2 DEF DeviceInv, NoRows, NoRow
  <2>6. DeviceInv(d)'
    BY <2>1, <2>2, <2>4, <2>5, NobodyAssumption DEF DeviceInv
  <2>7. LoadedInv(p)'
    BY <2>1, <2>2 DEF LoadedInv, Syncing, UserSteps
  <2>8. FetchedInv(p)'
    BY <1>0, <2>1 DEF FetchedInv, Answered, Syncing
  <2> QED BY <2>6, <2>7, <2>8
<1>g. ASSUME LoadSince(p) PROVE DeviceInv(d)' /\ LoadedInv(p)' /\ FetchedInv(p)'
  <2>1. /\ pc[p] = "since" /\ pc'[p] = "latest" /\ loaded'[p] = state[d]
        /\ UNCHANGED <<cmd, token, got, copy, state, vault>>
    BY <1>g, <1>t DEF LoadSince, Go, TypeOK
  <2>2. LoadedInv(p)'
    BY <1>0, <2>1 DEF LoadedInv, Syncing, UserSteps
  <2>3. FetchedInv(p)'
    BY <1>0, <2>1 DEF FetchedInv, Answered, Syncing
  <2> QED BY <1>0, <2>1, <2>2, <2>3, DeviceStays
<1>h. ASSUME ReadLatest(p) PROVE DeviceInv(d)' /\ LoadedInv(p)' /\ FetchedInv(p)'
  <2>1. /\ pc[p] = "latest" /\ pc'[p] \in {"vault", "changes"}
        /\ got'[p] = [latest |-> currentRev[token[p]], rows |-> NoRows]
        /\ UNCHANGED <<cmd, token, loaded, copy, state, vault, currentRev>>
    BY <1>h, <1>t DEF ReadLatest, Go, TypeOK
  <2>2. LoadedInv(p)'
    BY <1>0, <2>1 DEF LoadedInv, Syncing, UserSteps, Fits, SyncOps
  <2>3. token[p] \in Users /\ token[p] = state[d].user /\ loaded[p] = state[d]
    BY <1>0, <2>1 DEF Fits, UserSteps, LoadedInv, Syncing
  <2>4. loaded[p].rev =< currentRev[token[p]] /\ currentRev[token[p]] \in Nat
    BY <1>0, <2>3, NobodyAssumption, ProcFacts DEF DeviceInv
  <2>5. FetchedInv(p)'
    BY <2>1, <2>4 DEF FetchedInv, Answered, Syncing, NoRows, NoRow
  <2> QED BY <1>0, <2>1, <2>2, <2>5, DeviceStays
<1>i. ASSUME ReadChanges(p) PROVE DeviceInv(d)' /\ LoadedInv(p)' /\ FetchedInv(p)'
  <2>1. /\ pc[p] = "changes" /\ pc'[p] = "vault"
        /\ got'[p].latest = got[p].latest
        /\ got'[p].rows = RowsSince(items[token[p]], loaded[p].rev)
        /\ UNCHANGED <<cmd, token, loaded, copy, state, vault, currentRev, items>>
    BY <1>i, <1>t DEF ReadChanges, Go, TypeOK, Answers
  <2>2. LoadedInv(p)'
    BY <1>0, <2>1 DEF LoadedInv, Syncing, UserSteps, Fits, SyncOps
  <2>3. token[p] \in Users /\ token[p] = state[d].user
    BY <1>0, <2>1 DEF Fits, UserSteps, LoadedInv
  <2>4. ASSUME NEW i \in Items
        PROVE  /\ got'[p].rows[i].owner \in {Nobody, token[p]}
               /\ got'[p].rows[i].rev = 0 \/ got'[p].rows[i].rev >= vault[d][i].rev
    <3> DEFINE row == items[token[p]][i]
    <3>1. row \in Rows /\ vault[d][i] \in Rows /\ row.rev \in Nat /\ vault[d][i].rev \in Nat
      BY <1>t, <1>v, <2>3 DEF TypeOK, Rows
    <3>2. got'[p].rows[i] = row \/ got'[p].rows[i] = NoRow
      BY <2>1 DEF RowsSince
    <3>3. row.rev = 0 \/ row.owner = token[p]
      BY <1>0, <2>3, <3>1 DEF ServerRows
    <3>4. vault[d][i].rev = 0 \/ vault[d][i].rev =< row.rev
      BY <1>0, <2>3, <3>1, NobodyAssumption DEF RowsFaithful, Like, DeviceInv
    <3>5. row.rev = 0 => row.owner = Nobody
      BY <1>0, <2>3 DEF ServerRows, NoRow
    <3>6. NoRow.rev = 0 /\ NoRow.owner = Nobody
      BY DEF NoRow
    <3> QED BY <3>1, <3>2, <3>3, <3>4, <3>5, <3>6
  <2>5. FetchedInv(p)'
    BY <1>0, <2>1, <2>4 DEF FetchedInv, Answered, Syncing
  <2> QED BY <1>0, <2>1, <2>2, <2>5, DeviceStays
<1>j. ASSUME LoadVault(p) PROVE DeviceInv(d)' /\ LoadedInv(p)' /\ FetchedInv(p)'
  <2>1. /\ pc[p] = "vault" /\ pc'[p] = "save_vault" /\ copy'[p] = vault[d]
        /\ UNCHANGED <<cmd, token, loaded, got, state, vault, currentRev>>
    BY <1>j, <1>t DEF LoadVault, Go, TypeOK
  <2>2. LoadedInv(p)'
    BY <1>0, <2>1 DEF LoadedInv, Syncing, UserSteps
  <2>3. FetchedInv(p)'
    BY <1>0, <2>1 DEF FetchedInv, Answered, Syncing
  <2> QED BY <1>0, <2>1, <2>2, <2>3, DeviceStays
<1>k. ASSUME SaveVault(p) PROVE DeviceInv(d)' /\ LoadedInv(p)' /\ FetchedInv(p)'
  <2>1. /\ pc[p] = "save_vault" /\ vault'[d] = Merged(copy[p], got[p].rows)
        /\ UNCHANGED <<state, registered, currentRev>>
        /\ \/ Exit(p)
           \/ pc'[p] = "save_rev" /\ UNCHANGED locals /\ cmd[p].op \notin {"set", "delete"}
    BY <1>k, <1>t, <1>0 DEF SaveVault, Go, TypeOK
  <2>2. copy[p] = vault[d] /\ token[p] = state[d].user
    BY <1>0, <2>1 DEF LoadedInv, UserSteps
  <2>3. ASSUME NEW i \in Items PROVE vault'[d][i].owner \in {Nobody, state[d].user}
    <3>1. got[p].rows[i] \in Rows /\ got[p].rows[i].owner \in {Nobody, token[p]}
      BY <1>0, <2>1, ProcFacts DEF FetchedInv
    <3>2. vault'[d][i] = vault[d][i] \/ vault'[d][i] = Sanitized(got[p].rows[i])
      BY <2>1, <2>2 DEF Merged
    <3> QED BY <1>0, <2>2, <3>1, <3>2, CleanFacts DEF DeviceInv
  <2>4. DeviceInv(d)'
    BY <1>0, <2>1, <2>3 DEF DeviceInv
  <2>5. CASE Exit(p)
    BY <1>0, <2>4, <2>5, EndedKnows
  <2>6. CASE pc'[p] = "save_rev" /\ UNCHANGED locals /\ cmd[p].op \notin {"set", "delete"}
    <3>1. LoadedInv(p)'
      BY <1>0, <2>1, <2>6 DEF LoadedInv, Syncing, UserSteps
    <3>2. FetchedInv(p)'
      BY <1>0, <2>1, <2>6 DEF FetchedInv, Answered, Syncing
    <3> QED BY <2>4, <3>1, <3>2
  <2> QED BY <2>1, <2>5, <2>6
<1>l. ASSUME SaveRev(p) PROVE DeviceInv(d)' /\ LoadedInv(p)' /\ FetchedInv(p)'
  <2>1. /\ pc[p] = "save_rev" /\ state'[d] = [loaded[p] EXCEPT !.rev = got[p].latest]
        /\ Exit(p) /\ UNCHANGED <<registered, currentRev, vault>>
    BY <1>l, <1>t, <1>0 DEF SaveRev, TypeOK
  <2>2. /\ loaded[p] = state[d] /\ token[p] = state[d].user /\ token[p] \in Users
        /\ got[p].latest =< currentRev[token[p]]
        /\ loaded[p] \in States
    BY <1>0, <2>1, ProcFacts DEF LoadedInv, FetchedInv, Answered, Syncing, UserSteps, Fits
  <2>3. state'[d].user = state[d].user /\ state'[d].rev = got[p].latest
    BY <2>1, <2>2 DEF States
  <2>4. DeviceInv(d)'
    BY <1>0, <2>1, <2>2, <2>3, NobodyAssumption DEF DeviceInv
  <2> QED BY <1>0, <2>1, <2>4, EndedKnows
<1>m. ASSUME LoadSalt(p) PROVE DeviceInv(d)' /\ LoadedInv(p)' /\ FetchedInv(p)'
  <2>1. /\ pc[p] = "salt" /\ pc'[p] = "send" /\ loaded'[p] = state[d]
        /\ UNCHANGED <<cmd, token, got, copy, state, vault>>
    BY <1>m, <1>t DEF LoadSalt, Go, TypeOK
  <2>2. LoadedInv(p)'
    BY <1>0, <2>1 DEF LoadedInv, Syncing, UserSteps
  <2>3. FetchedInv(p)'
    BY <1>0, <2>1 DEF FetchedInv, Answered, Syncing
  <2> QED BY <1>0, <2>1, <2>2, <2>3, DeviceStays
<1>n. ASSUME Send(p) PROVE DeviceInv(d)' /\ LoadedInv(p)' /\ FetchedInv(p)'
  <2> DEFINE u == token[p]
             it == cmd[p].item
  <2>1. /\ pc[p] = "send" /\ pc'[p] = "vault" /\ CanWrite(p) /\ Write(p)
        /\ got'[p].rows = [got[p].rows EXCEPT ![it] = NewRow(p)]
        /\ UNCHANGED <<cmd, token, loaded, copy, state, vault, registered>>
    BY <1>n, <1>t DEF Send, Go, TypeOK, Answers
  <2>2. /\ u \in Users /\ it \in Items /\ u = state[d].user /\ cmd[p].op \in {"set", "delete"}
        /\ got[p].rows = NoRows
    BY <1>0, <2>1, WriteEffect DEF LoadedInv, UserSteps, Fits, FetchedInv
  <2>3. LoadedInv(p)'
    BY <1>0, <2>1, <2>2 DEF LoadedInv, Syncing, UserSteps
  <2>4. ASSUME NEW i \in Items
        PROVE  /\ got'[p].rows[i].owner \in {Nobody, u}
               /\ got'[p].rows[i].rev = 0 \/ got'[p].rows[i].rev >= vault[d][i].rev
    <3>1. CASE i = it
      <4>1. /\ got'[p].rows[i] = NewRow(p) /\ NewRow(p).owner = u
            /\ NewRow(p).rev = currentRev[u] + 1 /\ currentRev[u] \in Nat
        BY <1>0, <2>1, <2>2, <3>1, WriteEffect DEF NoRows
      <4>2. vault[d][i].rev = 0 \/ vault[d][i].rev =< items[u][i].rev
        BY <1>0, <1>v, <2>2, NobodyAssumption DEF RowsFaithful, Like, DeviceInv, Rows
      <4>3. items[u][i].rev =< currentRev[u] /\ items[u][i].rev \in Nat /\ vault[d][i].rev \in Nat
        BY <1>0, <1>t, <1>v, <2>2 DEF ServerRows, TypeOK, Rows
      <4> QED BY <4>1, <4>2, <4>3
    <3>2. CASE i # it
      BY <2>1, <2>2, <3>2 DEF NoRows, NoRow
    <3> QED BY <3>1, <3>2
  <2>5. FetchedInv(p)'
    BY <2>1, <2>2, <2>4 DEF FetchedInv, Answered, Syncing
  <2> QED BY <1>0, <2>1, <2>3, <2>5, DeviceStays
<1>o. ASSUME SendUnheard(p) PROVE DeviceInv(d)' /\ LoadedInv(p)' /\ FetchedInv(p)'
  BY <1>o, <1>0, EndedKnows, DeviceStays DEF SendUnheard
<1>p. ASSUME Stop(p) PROVE DeviceInv(d)' /\ LoadedInv(p)' /\ FetchedInv(p)'
  BY <1>p, <1>0, EndedKnows, DeviceStays DEF Stop
<1> QED BY <1>a, <1>b, <1>c, <1>d, <1>e, <1>f, <1>g, <1>h, <1>i, <1>j, <1>k, <1>l,
           <1>m, <1>n, <1>o, <1>p DEF StepOf

LEMMA KeysStep ==
    ASSUME SInv, [Next]_vars
    PROVE  KeyMatchesAccount'
<1> SUFFICES ASSUME NEW u \in Users, NEW i \in Items,
                    items'[u][i].rev > 0, ~ items'[u][i].deleted
             PROVE  items'[u][i].payload = u
  BY DEF KeyMatchesAccount
<1>0. ~ items'[u][i].deleted
  OBVIOUS
<1>1. Typed /\ KeyMatchesAccount
  BY DEF SInv, FInv
<1>2. CASE items'[u][i] = items[u][i]
  BY <1>1, <1>2 DEF KeyMatchesAccount
<1>3. ASSUME NEW p \in Procs, pc[p] = "send", CanWrite(p), Write(p), items'[u][i] # items[u][i]
      PROVE  items'[u][i].payload = u
  <2>1. u = token[p] /\ i = cmd[p].item /\ items'[u][i] = NewRow(p) /\ NewRow(p) \in Rows
    BY <1>1, <1>3, WriteEffect
  <2>2. cmd[p].op # "delete"
    <3>1. ~ NewRow(p).deleted
      BY <1>0, <2>1
    <3>2. NewRow(p).deleted <=> cmd[p].op = "delete"
      BY Zenon DEF NewRow
    <3> QED BY <3>1, <3>2
  <2>3. loaded[p].salt = loaded[p].user /\ loaded[p].user = state[Dev(p)].user
    BY <1>1, <1>3, <2>2 DEF Typed, Fits, SaltsFit, SInv, LoadedInv
  <2>4. token[p] = state[Dev(p)].user
    BY <1>3 DEF SInv, LoadedInv, UserSteps
  <2> QED BY <2>1, <2>2, <2>3, <2>4 DEF NewRow
<1> QED BY <1>2, <1>3, ServerWriters

LEMMA SInvInit == Init => SInv
<1> SUFFICES ASSUME Init PROVE SInv
  OBVIOUS
<1>1. FInv
  <2>1. RowsFaithful
    BY CleanFacts, RowTypes DEF Init, RowsFaithful, NoRows, NoAnswer
  <2> QED BY <2>1, TypedInit DEF FInv, Init, ServerRows, NoRows, NoRow
<1>2. KeyMatchesAccount
  BY DEF Init, KeyMatchesAccount, NoRows, NoRow
<1>3. ASSUME NEW d \in Devices PROVE DeviceInv(d)
  BY DEF Init, DeviceInv, NoState, NoRows, NoRow
<1>4. ASSUME NEW p \in Procs PROVE LoadedInv(p) /\ FetchedInv(p)
  <2>1. pc[p] = "idle" /\ got[p].rows = NoRows
    BY DEF Init, NoAnswer
  <2> QED BY <2>1 DEF LoadedInv, FetchedInv, Answered, Syncing, UserSteps
<1> QED BY <1>1, <1>2, <1>3, <1>4 DEF SInv

LEMMA SInvStep == Sequential /\ SInv /\ [Next]_vars => SInv'
<1> SUFFICES ASSUME Sequential, SInv, [Next]_vars PROVE SInv'
  OBVIOUS
<1>1. FInv'
  BY TypedNext, ServerRowsStep, RowsFaithfulStep DEF SInv, FInv
<1>2. CASE UNCHANGED vars
  <2>1. ASSUME NEW d \in Devices PROVE DeviceInv(d)'
    BY <1>2, <2>1 DEF vars, SInv, DeviceInv
  <2>2. ASSUME NEW p \in Procs PROVE LoadedInv(p)' /\ FetchedInv(p)'
    BY <1>2, <2>2 DEF vars, SInv, LoadedInv, FetchedInv, Answered, Syncing
  <2> QED BY <1>1, <2>1, <2>2, KeysStep DEF SInv
<1>3. ASSUME NEW p \in Procs, StepOf(p) PROVE SInv'
  <2>1. ASSUME NEW d \in Devices PROVE DeviceInv(d)'
    <3>1. CASE d = Dev(p)
      BY <1>3, <3>1, CommandSteps
    <3>2. CASE d # Dev(p)
      BY <1>3, <3>2, OthersFiles, DeviceStays DEF SInv, FInv
    <3> QED BY <3>1, <3>2
  <2>2. ASSUME NEW q \in Procs PROVE LoadedInv(q)' /\ FetchedInv(q)'
    <3>1. CASE q = p
      BY <1>3, <3>1, CommandSteps
    <3>2. CASE q # p
      BY <1>3, <3>2, CommandStays
    <3> QED BY <3>1, <3>2
  <2> QED BY <1>1, <2>1, <2>2, KeysStep DEF SInv
<1> QED BY <1>2, <1>3, NextSteps

LEMMA SInvHolds == Sequential => (Spec => []SInv)
<1> SUFFICES ASSUME Sequential PROVE Spec => []SInv
  OBVIOUS
<1>1. SInv /\ [Next]_vars => SInv'
  BY SInvStep
<1> QED BY <1>1, SInvInit, PTL DEF Spec

(* A device that runs one command after another never has rows of an       *)
(* account other than the one its state file names, whatever logins it has *)
(* been through and wherever they stopped.                                 *)
THEOREM VaultsOwned == Sequential => (Spec => []VaultOwned)
<1>1. SInv => VaultOwned
  BY DEF SInv, DeviceInv, VaultOwned
<1> QED BY <1>1, SInvHolds, PTL

(* Nor does such a device ever upload an item encrypted under another      *)
(* account's key.                                                          *)
THEOREM KeysMatchAccounts == Sequential => (Spec => []KeyMatchesAccount)
<1>1. SInv => KeyMatchesAccount
  BY DEF SInv
<1> QED BY <1>1, SInvHolds, PTL

(* Its vault never takes back what it has learned of the account, ...      *)
THEOREM VaultsGoForward == Sequential => (Spec => VaultNeverGoesBack)
<1> DEFINE Forward == \A d \in Devices, i \in Items :
                        \/ vault'[d][i].rev >= vault[d][i].rev
                        \/ vault'[d] = NoRows
<1>1. SInv /\ [Next]_vars => [Forward]_vars
  <2> SUFFICES ASSUME SInv, [Next]_vars, NEW d \in Devices, NEW i \in Items
               PROVE  vault'[d][i].rev >= vault[d][i].rev \/ vault'[d] = NoRows
    OBVIOUS
  <2>0. Typed /\ TypeOK /\ vault[d][i] \in Rows /\ vault[d][i].rev \in Nat
    BY DEF SInv, FInv, Typed, TypeOK, Rows
  <2>1. CASE vault' = vault
    BY <2>0, <2>1
  <2>2. ASSUME NEW p \in Procs, WipeVault(p)
        PROVE  vault'[d][i].rev >= vault[d][i].rev \/ vault'[d] = NoRows
    BY <2>0, <2>2 DEF WipeVault, TypeOK
  <2>3. ASSUME NEW p \in Procs, SaveVault(p)
        PROVE  vault'[d][i].rev >= vault[d][i].rev
    <3>1. CASE d # Dev(p)
      BY <2>0, <2>3, <3>1 DEF SaveVault, TypeOK
    <3>2. CASE d = Dev(p)
      <4>1. /\ vault'[d][i] = Merged(copy[p], got[p].rows)[i]
            /\ copy[p] = vault[d] /\ got[p].rows[i] \in Rows
            /\ RowsFaithful
            /\ got[p].rows[i].rev = 0 \/ got[p].rows[i].rev >= vault[d][i].rev
        BY <2>0, <2>3, <3>2, ProcFacts DEF SaveVault, TypeOK, SInv, FInv, LoadedInv, FetchedInv
      <4>2. got[p].rows[i] = NoRow \/ got[p].rows[i].rev >= vault[d][i].rev
        BY <4>1 DEF RowsFaithful, Like
      <4>3. \/ vault'[d][i] = vault[d][i] /\ got[p].rows[i] = NoRow
            \/ vault'[d][i] = Sanitized(got[p].rows[i]) /\ got[p].rows[i] # NoRow
        BY <4>1 DEF Merged
      <4> QED BY <2>0, <4>1, <4>2, <4>3, CleanFacts
    <3> QED BY <3>1, <3>2
  <2> QED BY <2>1, <2>2, <2>3, VaultWriters
<1>2. ASSUME Sequential PROVE Spec => VaultNeverGoesBack
  BY <1>1, <1>2, SInvHolds, PTL DEF Spec, VaultNeverGoesBack
<1> QED BY <1>2

(* ... and while its user stays the same neither does LastSyncedRev.       *)
THEOREM SyncedRevsGoForward == Sequential => (Spec => SyncedRevNeverGoesBack)
<1> DEFINE Forward == \A d \in Devices :
                        state'[d].user = state[d].user => state'[d].rev >= state[d].rev
<1>1. SInv /\ [Next]_vars => [Forward]_vars
  <2> SUFFICES ASSUME SInv, [Next]_vars, NEW d \in Devices, state'[d].user = state[d].user
               PROVE  state'[d].rev >= state[d].rev
    OBVIOUS
  <2>0. Typed /\ TypeOK /\ state[d].rev \in Nat /\ DeviceInv(d)
    BY DEF SInv, FInv, Typed, TypeOK, States
  <2>1. CASE state'[d] = state[d]
    BY <2>0, <2>1
  <2>2. ASSUME NEW p \in Procs, SaveLogin(p), d = Dev(p)
        PROVE  state'[d].rev >= state[d].rev
    <3>1. /\ pc[p] = "login_state"
          /\ state'[d] = [user |-> cmd[p].user, salt |-> cmd[p].user, rev |-> StartRev(p)]
      BY <2>0, <2>2 DEF SaveLogin, TypeOK
    <3>2. /\ cmd[p].user = state[d].user /\ loaded[p] = state[d]
          /\ cmd[p].op = "register" => state[d].user # cmd[p].user
          /\ cmd[p].op \in {"register", "login"}
      BY <2>0, <2>2, <3>1 DEF SInv, LoadedInv, Typed, Fits, AuthOps
    <3> QED BY <2>0, <3>1, <3>2 DEF StartRev
  <2>3. ASSUME NEW p \in Procs, SaveRev(p), d = Dev(p)
        PROVE  state'[d].rev >= state[d].rev
    <3>1. pc[p] = "save_rev" /\ state'[d] = [loaded[p] EXCEPT !.rev = got[p].latest]
      BY <2>0, <2>3 DEF SaveRev, TypeOK
    <3>2. loaded[p] = state[d] /\ loaded[p].rev =< got[p].latest /\ state[d] \in States
      BY <2>0, <3>1, <2>3 DEF SInv, LoadedInv, FetchedInv, Answered, Syncing, TypeOK
    <3> QED BY <3>1, <3>2 DEF States
  <2>4. ASSUME NEW p \in Procs, SaveLogin(p) \/ SaveRev(p), d # Dev(p)
        PROVE  state'[d] = state[d]
    BY <2>0, <2>4 DEF SaveLogin, SaveRev, TypeOK
  <2> QED BY <2>1, <2>2, <2>3, <2>4, StateWriters
<1>2. ASSUME Sequential PROVE Spec => SyncedRevNeverGoesBack
  BY <1>1, <1>2, SInvHolds, PTL DEF Spec, SyncedRevNeverGoesBack
<1> QED BY <1>2

-----------------------------------------------------------------------------
(* What LastSyncedRev claims.                                              *)

(* The command has wiped the vault for another user and not replaced the   *)
(* state yet.                                                              *)
Switching(p) == pc[p] = "login_state" /\ loaded[p].user \notin {Nobody, cmd[p].user}

Switched(d) == \E p \in Procs : Dev(p) = d /\ Switching(p)

(* Nothing between since and the answer is missing.                        *)
CompleteInv(p) ==
    LET mine == items[token[p]] IN
    /\ pc[p] = "wipe" => loaded[p].user \notin {Nobody, cmd[p].user}
    /\ Answered(p) /\ pc[p] \in {"vault", "save_vault"} =>
        \A i \in Items :
            mine[i].rev \in loaded[p].rev + 1 .. got[p].latest =>
                got[p].rows[i].rev = mine[i].rev
    /\ pc[p] = "save_rev" =>
        \A i \in Items :
            mine[i].rev \in 1 .. got[p].latest => vault[Dev(p)][i] = Sanitized(mine[i])

CInv ==
    /\ SInv
    /\ \A p \in Procs : CompleteInv(p)
    /\ \A d \in Devices : HasAllSynced(d) \/ Switched(d)

(* A row as far as it has been fetched does not change under a write: the  *)
(* write's revision is beyond every answer and every LastSyncedRev.        *)
LEMMA FetchedRows ==
    ASSUME SInv, [Next]_vars, NEW u \in Users, NEW i \in Items, NEW n \in Nat,
           n =< currentRev[u], items'[u][i].rev =< n
    PROVE  items'[u][i] = items[u][i]
<1>1. items[u][i].rev \in Nat /\ Typed /\ ServerRows
  BY DEF SInv, FInv, Typed, TypeOK, Rows
<1> QED BY <1>1, ServerGrows

LEMMA CompleteStays ==
    ASSUME CInv, Sequential, NEW p \in Procs, StepOf(p), NEW q \in Procs, q # p
    PROVE  CompleteInv(q)'
<1>0. /\ Typed /\ Typed' /\ SInv /\ LoadedInv(q) /\ FetchedInv(q) /\ CompleteInv(q) /\ [Next]_vars
      /\ Fits(q)
  BY TypedNext DEF CInv, SInv, FInv, StepOf, Next, Typed
<1>1. /\ pc'[q] = pc[q] /\ cmd'[q] = cmd[q] /\ token'[q] = token[q]
      /\ loaded'[q] = loaded[q] /\ got'[q] = got[q]
  BY <1>0, OthersMemory
<1>2. vault'[Dev(q)] = vault[Dev(q)]
  BY <1>0, OthersFiles, OneCommand, ProcFacts
<1>3. CASE ~ Answered(q)
  BY <1>0, <1>1, <1>3 DEF CompleteInv, Answered, Syncing
<1>4. CASE Answered(q)
  <2>1. /\ token[q] \in Users /\ got[q].latest \in Nat /\ got[q].latest =< currentRev[token[q]]
        /\ pc[q] # "wipe" /\ loaded[q].rev \in Nat
    BY <1>0, <1>4, ProcFacts DEF Answered, Syncing, Fits, UserSteps, FetchedInv
  <2>2. \A i \in Items : items'[token[q]][i].rev \in Nat
    BY <1>0, <2>1 DEF Typed, TypeOK, Rows
  <2>3. \A i \in Items :
            items'[token[q]][i].rev =< got[q].latest => items'[token[q]][i] = items[token[q]][i]
    BY <1>0, <2>1, FetchedRows
  <2>4. Answered(q)' <=> Answered(q)
    BY <1>1 DEF Answered, Syncing
  <2> QED BY <1>0, <1>1, <1>2, <2>1, <2>2, <2>3, <2>4 DEF CompleteInv
<1> QED BY <1>3, <1>4

LEMMA SyncedStays ==
    ASSUME SInv, [Next]_vars, NEW d \in Devices, state'[d] = state[d], vault'[d] = vault[d],
           HasAllSynced(d)
    PROVE  HasAllSynced(d)'
<1>0. Typed /\ Typed' /\ SInv /\ HasAllSynced(d) /\ DeviceInv(d)
  BY TypedNext DEF SInv, FInv
<1> DEFINE u == state[d].user
<1>1. CASE u = Nobody
  BY <1>1 DEF HasAllSynced
<1>2. CASE u # Nobody
  <2>1. u \in Users /\ state[d].rev \in Nat /\ state[d].rev =< currentRev[u]
    BY <1>0, <1>2 DEF DeviceInv, Typed, TypeOK, States
  <2>2. \A i \in Items : items'[u][i].rev \in Nat
    BY <1>0, <2>1 DEF Typed, TypeOK, Rows
  <2>3. \A i \in Items : items'[u][i].rev =< state[d].rev => items'[u][i] = items[u][i]
    BY <1>0, <2>1, FetchedRows
  <2> QED BY <1>0, <1>2, <2>1, <2>2, <2>3 DEF HasAllSynced
<1> QED BY <1>1, <1>2

(* Applying an answer to the vault: a row the answer has no older than the *)
(* server's is now the server's.                                           *)
LEMMA AppliedRows ==
    ASSUME SInv, NEW p \in Procs, SaveVault(p), NEW i \in Items,
           NEW u \in Users, u = token[p]
    PROVE  /\ items' = items
           /\ got[p].rows[i].rev = items[u][i].rev /\ items[u][i].rev > 0 =>
                vault'[Dev(p)][i] = Sanitized(items[u][i])
           /\ vault[Dev(p)][i] = Sanitized(items[u][i]) =>
                vault'[Dev(p)][i] = Sanitized(items[u][i])
<1> DEFINE d == Dev(p)
           row == got[p].rows[i]
           theirs == items[u][i]
<1>0. /\ Typed /\ TypeOK /\ RowsFaithful /\ LoadedInv(p) /\ FetchedInv(p) /\ d \in Devices
      /\ pc[p] = "save_vault"
  BY ProcFacts DEF SInv, FInv, Typed, SaveVault
<1>1. /\ vault'[d][i] = Merged(copy[p], got[p].rows)[i] /\ items' = items
      /\ copy[p] = vault[d]
      /\ row \in Rows /\ theirs \in Rows /\ vault[d][i] \in Rows
  BY <1>0, ProcFacts DEF SaveVault, TypeOK, LoadedInv, server
<1>2. /\ row.rev \in Nat /\ theirs.rev \in Nat /\ vault[d][i].rev \in Nat
      /\ row.owner \in {Nobody, u} /\ (row.rev = 0 \/ row.rev >= vault[d][i].rev)
  BY <1>0, <1>1 DEF FetchedInv, Rows
<1>3. Like(row, items, i)
  BY <1>0 DEF RowsFaithful
<1>4. row = NoRow => vault'[d][i] = vault[d][i]
  BY <1>1 DEF Merged
<1>5. row # NoRow => /\ vault'[d][i] = Sanitized(row)
                     /\ row.rev > 0 /\ row.owner = u /\ row.rev =< theirs.rev
                     /\ row.rev = theirs.rev => Sanitized(row) = Sanitized(theirs)
  BY <1>1, <1>2, <1>3, NobodyAssumption DEF Merged, Like
<1>6. NoRow.rev = 0
  BY DEF NoRow
<1>7. Sanitized(theirs).rev = theirs.rev
  BY <1>1, CleanFacts
<1> QED BY <1>1, <1>2, <1>4, <1>5, <1>6, <1>7

(* What a step of a command does to its own device, if nothing is missing  *)
(* there: only another user's login wipes it.                              *)
LEMMA CompleteSteps ==
    ASSUME CInv, NEW p \in Procs, StepOf(p), HasAllSynced(Dev(p))
    PROVE  CompleteInv(p)' /\ (HasAllSynced(Dev(p))' \/ Switching(p)')
<1> DEFINE d == Dev(p)
           u == token[p]
<1>0. /\ Typed /\ ServerRows /\ SInv /\ LoadedInv(p) /\ FetchedInv(p) /\ DeviceInv(d)
      /\ CompleteInv(p) /\ HasAllSynced(d)
      /\ d \in Devices /\ [Next]_vars /\ Fits(p) /\ TypeOK
  BY ProcFacts DEF CInv, SInv, FInv, StepOf, Next, Typed
<1> USE DEF server, files, locals
<1>x. ASSUME Exit(p) PROVE CompleteInv(p)'
  <2>1. pc'[p] = "idle"
    BY <1>x, <1>0 DEF Exit, Go, TypeOK
  <2> QED BY <2>1 DEF CompleteInv, Answered, Syncing
<1>a. CASE \/ Start(p) \/ Authenticate(p) \/ LoadSince(p) \/ LoadSalt(p)
  <2>1. /\ pc'[p] \in {"auth", "salt", "send", "since", "who", "latest"}
        /\ UNCHANGED <<state, vault>>
    BY <1>a, <1>0, CommandFacts DEF Start, Authenticate, LoadSince, LoadSalt, Go, FirstStep, TypeOK
  <2>2. CompleteInv(p)'
    BY <2>1 DEF CompleteInv, Answered, Syncing
  <2> QED BY <1>0, <2>1, <2>2, SyncedStays
<1>b. CASE LoadOldState(p)
  <2>1. /\ pc'[p] \in {"wipe", "login_state"} /\ UNCHANGED <<state, vault, cmd>>
        /\ loaded'[p] = state[d]
        /\ pc'[p] = "wipe" => state[d].user \notin {Nobody, cmd[p].user}
    BY <1>b, <1>0 DEF LoadOldState, Go, TypeOK
  <2>2. CompleteInv(p)'
    BY <2>1 DEF CompleteInv, Answered, Syncing
  <2> QED BY <1>0, <2>1, <2>2, SyncedStays
<1>c. CASE RegisterUnheard(p) \/ SendUnheard(p) \/ Stop(p)
  <2>1. Exit(p) /\ UNCHANGED <<state, vault>>
    BY <1>c DEF RegisterUnheard, SendUnheard, Stop
  <2> QED BY <1>0, <1>x, <2>1, SyncedStays
<1>d. CASE WipeVault(p)
  <2>1. /\ pc[p] = "wipe" /\ loaded[p].user \notin {Nobody, cmd[p].user}
        /\ pc'[p] = "login_state" /\ UNCHANGED <<cmd, loaded>>
    BY <1>d, <1>0 DEF WipeVault, CompleteInv, Go, TypeOK
  <2>2. CompleteInv(p)'
    BY <2>1 DEF CompleteInv, Answered, Syncing
  <2> QED BY <2>1, <2>2 DEF Switching
<1>e. CASE SaveLogin(p)
  <2>1. /\ pc[p] = "login_state" /\ pc'[p] = "since"
        /\ state'[d] = [user |-> cmd[p].user, salt |-> cmd[p].user, rev |-> StartRev(p)]
        /\ UNCHANGED <<vault, items>>
    BY <1>e, <1>0 DEF SaveLogin, Go, TypeOK
  <2>2. CompleteInv(p)'
    BY <2>1 DEF CompleteInv, Answered, Syncing
  <2>3. loaded[p] = state[d] /\ cmd[p].user \in Users
        /\ (state[d].user = Nobody => state[d].rev = 0)
        /\ (state[d].user = Nobody \/ state[d].user \in Users)
    BY <1>0, <2>1, ProcFacts DEF LoadedInv, Fits, DeviceInv
  <2>4. \/ state'[d].rev = 0
        \/ state[d].user = cmd[p].user /\ state'[d].rev = state[d].rev
    BY <2>1, <2>3 DEF StartRev
  <2>5. state'[d].user = cmd[p].user /\ cmd[p].user # Nobody
    BY <2>1, <2>3, NobodyAssumption
  <2>6. CASE state'[d].rev = 0
    <3>1. \A v, i : ~ (items'[v][i].rev \in 1 .. state'[d].rev)
      BY <2>6
    <3> QED BY <2>2, <3>1 DEF HasAllSynced
  <2>7. CASE state[d].user = cmd[p].user /\ state'[d].rev = state[d].rev
    BY <1>0, <2>1, <2>2, <2>5, <2>7 DEF HasAllSynced
  <2> QED BY <2>4, <2>6, <2>7
<1>f. CASE ReadLatest(p)
  <2>1. /\ pc[p] = "latest" /\ pc'[p] \in {"vault", "changes"}
        /\ pc'[p] = "vault" => currentRev[u] = 0 \/ loaded[p].rev >= currentRev[u]
        /\ got'[p] = [latest |-> currentRev[u], rows |-> NoRows]
        /\ UNCHANGED <<cmd, token, loaded, state, vault, items>>
    BY <1>f, <1>0 DEF ReadLatest, Go, TypeOK
  <2>2. loaded[p].rev \in Nat /\ currentRev[u] \in Nat
    BY <1>0, <2>1, ProcFacts DEF Fits, UserSteps
  <2>3. ASSUME pc'[p] = "vault" PROVE loaded'[p].rev + 1 .. got'[p].latest = {}
    BY <2>1, <2>2, <2>3
  <2>4. CompleteInv(p)'
    BY <2>1, <2>3 DEF CompleteInv
  <2> QED BY <1>0, <2>1, <2>4, SyncedStays
<1>g. CASE ReadChanges(p)
  <2>1. /\ pc[p] = "changes" /\ pc'[p] = "vault"
        /\ got'[p].latest = got[p].latest
        /\ got'[p].rows = RowsSince(items[u], loaded[p].rev)
        /\ UNCHANGED <<cmd, token, loaded, state, vault, items>>
    BY <1>g, <1>0 DEF ReadChanges, Go, TypeOK, Answers
  <2>2. u \in Users /\ loaded[p].rev \in Nat
    BY <1>0, <2>1, ProcFacts DEF Fits, UserSteps
  <2>3. \A i \in Items : items[u][i].rev > loaded[p].rev => got'[p].rows[i] = items[u][i]
    BY <2>1 DEF RowsSince
  <2>4. \A i \in Items : items[u][i].rev \in Nat
    BY <1>0, <2>2 DEF TypeOK, Rows
  <2>5. CompleteInv(p)'
    BY <2>1, <2>2, <2>3, <2>4 DEF CompleteInv
  <2> QED BY <1>0, <2>1, <2>5, SyncedStays
<1>h. CASE LoadVault(p)
  <2>1. /\ pc[p] = "vault" /\ pc'[p] = "save_vault"
        /\ UNCHANGED <<cmd, token, loaded, got, state, vault, items>>
    BY <1>h, <1>0 DEF LoadVault, Go, TypeOK
  <2>2. CompleteInv(p)'
    BY <1>0, <2>1 DEF CompleteInv, Answered, Syncing
  <2> QED BY <1>0, <2>1, <2>2, SyncedStays
<1>i. CASE SaveVault(p)
  <2>1. /\ pc[p] = "save_vault" /\ UNCHANGED <<state, items>>
        /\ \/ Exit(p)
           \/ pc'[p] = "save_rev" /\ UNCHANGED locals /\ cmd[p].op \notin {"set", "delete"}
    BY <1>i, <1>0 DEF SaveVault, Go, TypeOK
  <2>2. u \in Users /\ u = state[d].user
    BY <1>0, <2>1 DEF LoadedInv, Fits, UserSteps
  <2>3. \A i \in Items : items[u][i].rev \in Nat
    BY <1>0, <2>2 DEF TypeOK, Rows
  <2>4. HasAllSynced(d)'
    BY <1>0, <1>i, <2>1, <2>2, <2>3, AppliedRows DEF HasAllSynced
  <2>5. CASE Exit(p)
    BY <1>x, <2>4, <2>5
  <2>6. CASE pc'[p] = "save_rev" /\ UNCHANGED locals /\ cmd[p].op \notin {"set", "delete"}
    <3>1. /\ loaded[p] = state[d] /\ loaded[p].rev \in Nat /\ got[p].latest \in Nat
          /\ Answered(p)
      BY <1>0, <2>1, <2>6, ProcFacts DEF LoadedInv, Answered, Syncing
    <3>2. ASSUME NEW i \in Items, items[u][i].rev \in 1 .. got[p].latest
          PROVE  vault'[d][i] = Sanitized(items[u][i])
      <4>1. CASE items[u][i].rev =< loaded[p].rev
        <5>1. items[u][i].rev \in 1 .. state[d].rev
          BY <2>3, <3>1, <3>2, <4>1
        <5>2. vault[d][i] = Sanitized(items[u][i])
          BY <1>0, <2>2, <5>1, NobodyAssumption DEF HasAllSynced
        <5> QED BY <1>0, <1>i, <2>2, <5>2, AppliedRows
      <4>2. CASE items[u][i].rev > loaded[p].rev
        <5>1. items[u][i].rev \in loaded[p].rev + 1 .. got[p].latest
          BY <2>3, <3>1, <3>2, <4>2
        <5>2. got[p].rows[i].rev = items[u][i].rev /\ items[u][i].rev > 0
          BY <1>0, <2>1, <2>3, <3>1, <3>2, <5>1 DEF CompleteInv
        <5> QED BY <1>0, <1>i, <2>2, <5>2, AppliedRows
      <4> QED BY <2>3, <3>1, <4>1, <4>2
    <3>3. CompleteInv(p)'
      BY <2>1, <2>6, <3>2 DEF CompleteInv
    <3> QED BY <2>4, <3>3
  <2> QED BY <2>1, <2>5, <2>6
<1>j. CASE SaveRev(p)
  <2>1. /\ pc[p] = "save_rev" /\ state'[d] = [loaded[p] EXCEPT !.rev = got[p].latest]
        /\ Exit(p) /\ UNCHANGED <<items, vault>>
    BY <1>j, <1>0 DEF SaveRev, TypeOK
  <2>2. loaded[p] = state[d] /\ u = state[d].user /\ loaded[p] \in States
    BY <1>0, <2>1, ProcFacts DEF LoadedInv, Syncing, UserSteps
  <2>3. state'[d].user = u /\ state'[d].rev = got[p].latest
    BY <2>1, <2>2 DEF States
  <2>4. HasAllSynced(d)'
    BY <1>0, <2>1, <2>3 DEF HasAllSynced, CompleteInv
  <2> QED BY <1>x, <2>1, <2>4
<1>k. CASE Send(p)
  <2>1. /\ pc[p] = "send" /\ pc'[p] = "vault" /\ UNCHANGED <<cmd, state, vault>>
    BY <1>k, <1>0 DEF Send, Go, TypeOK
  <2>2. cmd[p].op \in {"set", "delete"}
    BY <1>0, <2>1 DEF Fits
  <2>3. CompleteInv(p)'
    BY <2>1, <2>2 DEF CompleteInv, Answered, Syncing
  <2> QED BY <1>0, <2>1, <2>3, SyncedStays
<1> QED BY <1>a, <1>b, <1>c, <1>d, <1>e, <1>f, <1>g, <1>h, <1>i, <1>j, <1>k DEF StepOf

(* A login that has wiped the vault makes up for it with its next step:    *)
(* the new state claims nothing.                                           *)
LEMMA SwitchSteps ==
    ASSUME CInv, NEW p \in Procs, StepOf(p), Switching(p), ~ Stop(p)
    PROVE  CompleteInv(p)' /\ HasAllSynced(Dev(p))'
<1>1. pc[p] = "login_state" /\ loaded[p].user \notin {Nobody, cmd[p].user} /\ TypeOK /\ Dev(p) \in Devices
  BY ProcFacts DEF Switching, CInv, SInv, FInv, Typed
<1>2. SaveLogin(p)
  BY <1>1 DEF StepOf, Start, Authenticate, RegisterUnheard, LoadOldState, WipeVault, LoadSince,
              ReadLatest, ReadChanges, LoadVault, SaveVault, SaveRev, LoadSalt, Send, SendUnheard
<1>3. /\ pc'[p] = "since"
      /\ state'[Dev(p)] = [user |-> cmd[p].user, salt |-> cmd[p].user, rev |-> StartRev(p)]
  BY <1>1, <1>2 DEF SaveLogin, Go, TypeOK
<1>4. state'[Dev(p)].rev = 0
  BY <1>1, <1>3 DEF StartRev
<1>5. \A v, i : ~ (items'[v][i].rev \in 1 .. state'[Dev(p)].rev)
  BY <1>4
<1>6. CompleteInv(p)'
  BY <1>3 DEF CompleteInv, Answered, Syncing
<1> QED BY <1>5, <1>6 DEF HasAllSynced

(* No login of another user stops between its wipe and its new state.      *)
SwitchRuns == \A p \in Procs : ~ (Switching(p) /\ Stop(p))

LEMMA CInvInit == Init => CInv
<1> SUFFICES ASSUME Init PROVE CInv
  OBVIOUS
<1>1. SInv
  BY SInvInit
<1>2. ASSUME NEW p \in Procs PROVE CompleteInv(p)
  <2>1. pc[p] = "idle"
    BY DEF Init
  <2> QED BY <2>1 DEF CompleteInv, Answered, Syncing
<1>3. \A d \in Devices : HasAllSynced(d)
  BY DEF Init, HasAllSynced, NoState
<1> QED BY <1>1, <1>2, <1>3 DEF CInv

LEMMA CInvStep == Sequential /\ CInv /\ [Next]_vars /\ [SwitchRuns]_vars => CInv'
<1> SUFFICES ASSUME Sequential, CInv, [Next]_vars, [SwitchRuns]_vars PROVE CInv'
  OBVIOUS
<1>1. SInv' /\ SInv
  BY SInvStep DEF CInv
<1>2. CASE UNCHANGED vars
  <2>1. ASSUME NEW p \in Procs PROVE CompleteInv(p)'
    BY <1>2, <2>1 DEF vars, CInv, CompleteInv, Answered, Syncing
  <2>2. ASSUME NEW d \in Devices PROVE HasAllSynced(d)' \/ Switched(d)'
    BY <1>2 DEF vars, CInv, HasAllSynced, Switched, Switching
  <2> QED BY <1>1, <2>1, <2>2 DEF CInv
<1>3. ASSUME NEW p \in Procs, StepOf(p), ~ UNCHANGED vars PROVE CInv'
  <2>0. ~ (Switching(p) /\ Stop(p))
    BY <1>3 DEF SwitchRuns
  <2>1. HasAllSynced(Dev(p)) \/ Switching(p)
    BY OneCommand, ProcFacts, <1>1 DEF CInv, Switched, SInv, FInv
  <2>2. CompleteInv(p)' /\ (HasAllSynced(Dev(p))' \/ Switching(p)')
    BY <1>3, <2>0, <2>1, CompleteSteps, SwitchSteps
  <2>3. ASSUME NEW q \in Procs PROVE CompleteInv(q)'
    BY <1>3, <2>2, CompleteStays
  <2>4. ASSUME NEW d \in Devices, d # Dev(p) PROVE HasAllSynced(d)' \/ Switched(d)'
    <3>1. state'[d] = state[d] /\ vault'[d] = vault[d]
      BY <1>1, <1>3, <2>4, OthersFiles DEF SInv, FInv
    <3>2. CASE HasAllSynced(d)
      BY <1>1, <3>1, <3>2, SyncedStays
    <3>3. ASSUME NEW q \in Procs, Dev(q) = d, Switching(q) PROVE Switched(d)'
      <4>1. q # p /\ Typed
        BY <1>1, <2>4, <3>3 DEF SInv, FInv
      <4>2. pc'[q] = pc[q] /\ cmd'[q] = cmd[q] /\ loaded'[q] = loaded[q]
        BY <1>3, <4>1, OthersMemory
      <4> QED BY <3>3, <4>2 DEF Switched, Switching
    <3> QED BY <3>2, <3>3 DEF CInv, Switched
  <2>5. ASSUME NEW d \in Devices PROVE HasAllSynced(d)' \/ Switched(d)'
    BY <2>2, <2>4 DEF Switched
  <2> QED BY <1>1, <2>3, <2>5 DEF CInv
<1> QED BY <1>2, <1>3, NextSteps

(* The one thing that empties a vault under a LastSyncedRev that claims    *)
(* more is a login as another user that stops between its two saves.  On   *)
(* a device that runs one command after another and where no login stops   *)
(* there, nothing synced is ever missing at rest: with any number of       *)
(* accounts taking turns, and commands that stop anywhere else.            *)
THEOREM OnlyStoppedSwitchesLose ==
    Sequential => (Spec /\ [][SwitchRuns]_vars => []SyncedCompleteAtRest)
<1> SUFFICES ASSUME Sequential PROVE Spec /\ [][SwitchRuns]_vars => []SyncedCompleteAtRest
  OBVIOUS
<1>1. CInv /\ [Next]_vars /\ [SwitchRuns]_vars => CInv'
  BY CInvStep
<1>2. CInv => SyncedCompleteAtRest
  <2> SUFFICES ASSUME CInv, NEW d \in Devices, \A s \in Slots : pc[<<d, s>>] = "idle"
               PROVE  HasAllSynced(d)
    BY DEF SyncedCompleteAtRest
  <2>1. ASSUME NEW p \in Procs, Dev(p) = d PROVE pc[p] = "idle"
    <3>1. PICK s \in Slots : p = <<d, s>>
      BY <2>1 DEF Procs, Dev
    <3> QED BY <3>1
  <2> QED BY <2>1 DEF CInv, Switched, Switching
<1> QED BY <1>1, <1>2, CInvInit, PTL DEF Spec

(* The safety half of VaultsConverge: a sync that nobody wrote during      *)
(* saves such a revision (SaveRev), so it leaves the vault caught up.      *)
THEOREM QuietSyncsCatchUp ==
    Sequential => (Spec /\ [][SwitchRuns]_vars => []UpToDate)
<1> SUFFICES ASSUME Sequential PROVE Spec /\ [][SwitchRuns]_vars => []UpToDate
  OBVIOUS
<1>1. CInv /\ [Next]_vars /\ [SwitchRuns]_vars => CInv'
  BY CInvStep
<1>2. CInv => UpToDate
  <2> SUFFICES ASSUME CInv, NEW d \in Devices, \A s \in Slots : pc[<<d, s>>] = "idle",
                      state[d].user # Nobody, state[d].rev = currentRev[state[d].user],
                      NEW i \in Items
               PROVE  vault[d][i] = Sanitized(items[state[d].user][i])
    BY DEF UpToDate, CaughtUp
  <2> DEFINE u == state[d].user
             mine == vault[d][i]
             theirs == items[u][i]
  <2>1. /\ u \in Users /\ mine \in Rows /\ theirs \in Rows
        /\ theirs.rev \in Nat /\ theirs.rev =< state[d].rev /\ state[d].rev \in Nat
        /\ theirs.rev = 0 => theirs = NoRow
        /\ mine.owner \in {Nobody, u} /\ Like(mine, items, i)
    BY DEF CInv, SInv, FInv, Typed, TypeOK, States, Rows, ServerRows, DeviceInv, RowsFaithful
  <2>2. HasAllSynced(d)
    <3>1. ASSUME NEW p \in Procs, Dev(p) = d PROVE pc[p] = "idle"
      <4>1. PICK s \in Slots : p = <<d, s>>
        BY <3>1 DEF Procs, Dev
      <4> QED BY <4>1
    <3> QED BY <3>1 DEF CInv, Switched, Switching
  <2>3. CASE theirs.rev > 0
    BY <2>1, <2>2, <2>3 DEF HasAllSynced
  <2>4. CASE theirs.rev = 0
    <3>1. mine = NoRow
      BY <2>1, <2>4, NobodyAssumption DEF Like, Rows
    <3> QED BY <2>1, <2>4, <3>1, CleanFacts DEF Clean
  <2> QED BY <2>1, <2>3, <2>4
<1> QED BY <1>1, <1>2, CInvInit, PTL DEF Spec

(* On a device with one account there is no such login: what LastSyncedRev *)
(* says has been synced is in the vault, wherever commands stopped,        *)
(* whatever the other devices wrote meanwhile: since advances past         *)
(* nothing.                                                                *)
THEOREM SyncsAreComplete == Sequential /\ OneAccount => (Spec => []SyncedComplete)
<1> SUFFICES ASSUME Sequential, OneAccount PROVE Spec => []SyncedComplete
  OBVIOUS
<1>1. ASSUME CInv, NEW p \in Procs PROVE ~ Switching(p)
  <2>1. pc[p] = "login_state" => loaded[p].user \in Users \cup {Nobody} /\ cmd[p].user \in Users
    BY <1>1, ProcFacts DEF CInv, SInv, FInv, Typed, Fits
  <2> QED BY <2>1 DEF Switching, OneAccount
<1>2. CInv /\ [Next]_vars => CInv'
  <2>1. CInv => SwitchRuns
    BY <1>1 DEF SwitchRuns
  <2> QED BY <2>1, CInvStep
<1>3. CInv => SyncedComplete
  BY <1>1 DEF CInv, SyncedComplete, Switched
<1> QED BY <1>2, <1>3, CInvInit, PTL DEF Spec
=============================================================================
