------------------------------ MODULE VaultSync -------------------------------
(***************************************************************************)
(* The command-line client with its two local files, against the server:   *)
(* internal/clientapp/app.go over clientstate and clientapi.               *)
(*                                                                         *)
(* A device has a state file (who is logged in, LastSyncedRev) and a vault *)
(* file (the items as last seen).  Every command is a process of its own:  *)
(* PersistentPreRunE loads the state for the token, then the command loads *)
(* files, talks to the server and replaces files.  An action is one such   *)
(* access.  A process may stop between any two of them.  Slots is how many *)
(* commands may run on one device at a time; nothing locks the files.      *)
(*                                                                         *)
(* On the server a write is one step, which ItemStore is shown to          *)
(* implement (RevStore); the two reads behind a sync stay two steps.       *)
(***************************************************************************)
EXTENDS Integers

CONSTANTS
    Users, Items, Devices, Slots,
    MaxRev,   \* bound: writes accepted per account
    Nobody,   \* UserID and token of an empty state file
    NoItem    \* the item of a command that names none

ASSUME NobodyAssumption == Nobody \notin Users
ASSUME NoItemAssumption == NoItem \notin Items
ASSUME MaxRevAssumption == MaxRev \in Nat

VARIABLES
    registered,  \* the accounts in the users table
    currentRev,  \* users.current_rev
    items,       \* the items table
    state,       \* state[d]: the state file of device d
    vault,       \* vault[d]: the vault file of device d
    pc,          \* pc[p]: where the command of process p is, "idle" if none
    cmd,         \* cmd[p]: the command, its login or its item
    token,       \* token[p]: the bearer token, that is, whose it is
    loaded,      \* loaded[p]: the state as this process loaded it
    got,         \* got[p]: the server's answer
    copy         \* copy[p]: the vault as this process loaded it

server == <<registered, currentRev, items>>
files == <<state, vault>>
locals == <<cmd, token, loaded, got, copy>>
vars == <<registered, currentRev, items, state, vault, pc, cmd, token, loaded, got, copy>>

Procs == Devices \X Slots
Dev(p) == p[1]

(* A row: revision (0: no row), tombstone flag, and the payload.  A live   *)
(* payload is told apart by the account whose KDF salt its key was derived *)
(* from; a tombstone has a dummy nonce on the server, nothing in a vault.  *)
(* owner is user_id, which the client never sees.                          *)
Payloads == Users \cup {"empty", "dummy_nonce"}
Rows == [rev : Nat, deleted : BOOLEAN, payload : Payloads, owner : Users \cup {Nobody}]
NoRow == [rev |-> 0, deleted |-> FALSE, payload |-> "empty", owner |-> Nobody]
NoRows == [i \in Items |-> NoRow]

(* The state file: UserID (JWTToken is always this user's), KDFSalt (told  *)
(* by whose it is) and LastSyncedRev.                                      *)
States == [user : Users \cup {Nobody}, salt : Users \cup {Nobody}, rev : Nat]
NoState == [user |-> Nobody, salt |-> Nobody, rev |-> 0]

Answers == [latest : Nat, rows : [Items -> Rows]]
NoAnswer == [latest |-> 0, rows |-> NoRows]

Commands == [op : {"register", "login"}, user : Users, item : {NoItem}]
    \cup [op : {"set", "delete"}, user : {Nobody}, item : Items]
    \cup [op : {"sync"}, user : {Nobody}, item : {NoItem}]
NoCmd == [op |-> "none", user |-> Nobody, item |-> NoItem]

Init ==
    /\ registered = {}
    /\ currentRev = [u \in Users |-> 0]
    /\ items = [u \in Users |-> NoRows]
    /\ state = [d \in Devices |-> NoState]
    /\ vault = [d \in Devices |-> NoRows]
    /\ pc = [p \in Procs |-> "idle"]
    /\ cmd = [p \in Procs |-> NoCmd]
    /\ token = [p \in Procs |-> Nobody]
    /\ loaded = [p \in Procs |-> NoState]
    /\ got = [p \in Procs |-> NoAnswer]
    /\ copy = [p \in Procs |-> NoRows]

Go(p, step) == pc' = [pc EXCEPT ![p] = step]

(* The process ends; its memory is gone.                                   *)
Exit(p) ==
    /\ Go(p, "idle")
    /\ cmd' = [cmd EXCEPT ![p] = NoCmd]
    /\ token' = [token EXCEPT ![p] = Nobody]
    /\ loaded' = [loaded EXCEPT ![p] = NoState]
    /\ got' = [got EXCEPT ![p] = NoAnswer]
    /\ copy' = [copy EXCEPT ![p] = NoRows]

-----------------------------------------------------------------------------
(* Starting a command: PersistentPreRunE sets the token from the state.    *)

FirstStep(op) ==
    IF op \in {"register", "login"} THEN "auth"
    ELSE IF op = "set" THEN "salt"
    ELSE IF op = "delete" THEN "send"
    ELSE "since"

(* Without a token every command but register and login ends at once.      *)
Start(p) ==
    /\ pc[p] = "idle"
    /\ \E c \in Commands :
        /\ c.op \in {"register", "login"} \/ state[Dev(p)].user # Nobody
        /\ cmd' = [cmd EXCEPT ![p] = c]
        /\ Go(p, FirstStep(c.op))
    /\ token' = [token EXCEPT ![p] = state[Dev(p)].user]
    /\ UNCHANGED <<server, files, loaded, got, copy>>

-----------------------------------------------------------------------------
(* Register and Login.                                                     *)

(* The request.  The client keeps the token of the answer.                 *)
Authenticate(p) ==
    LET u == cmd[p].user IN
    /\ pc[p] = "auth"
    /\ \/ cmd[p].op = "register" /\ u \notin registered
       \/ cmd[p].op = "login" /\ u \in registered
    /\ registered' = registered \cup {u}
    /\ token' = [token EXCEPT ![p] = u]
    /\ Go(p, "who")
    /\ UNCHANGED <<currentRev, items, files, cmd, loaded, got, copy>>

(* The account is created, the answer does not arrive.                     *)
RegisterUnheard(p) ==
    /\ pc[p] = "auth"
    /\ cmd[p].op = "register"
    /\ registered' = registered \cup {cmd[p].user}
    /\ Exit(p)
    /\ UNCHANGED <<currentRev, items, files>>

(* Fault: the vault is kept when another user logs in.                     *)
LoadOldState_NoWipe(p) ==
    /\ pc[p] = "who"
    /\ loaded' = [loaded EXCEPT ![p] = state[Dev(p)]]
    /\ Go(p, "login_state")
    /\ UNCHANGED <<server, files, cmd, token, got, copy>>

(* LoadState, and the decision to wipe.                                    *)
LoadOldState(p) ==
    LET old == state[Dev(p)] IN
    /\ pc[p] = "who"
    /\ loaded' = [loaded EXCEPT ![p] = old]
    /\ Go(p, IF old.user \notin {Nobody, cmd[p].user} THEN "wipe" ELSE "login_state")
    /\ UNCHANGED <<server, files, cmd, token, got, copy>>

WipeVault(p) ==
    /\ pc[p] = "wipe"
    /\ vault' = [vault EXCEPT ![Dev(p)] = NoRows]
    /\ Go(p, "login_state")
    /\ UNCHANGED <<server, state, locals>>

(* Fault: every login starts from scratch; -1 stands for "never synced".   *)
StartRev_Reset(p) == 0
StartRev_MinusOne(p) == IF loaded[p].user = cmd[p].user THEN loaded[p].rev ELSE -1

(* The revision the new state starts from: Login keeps what the same user  *)
(* had, a switch and Register start from 0.                                *)
StartRev(p) ==
    IF cmd[p].op = "login" /\ loaded[p].user \in {Nobody, cmd[p].user}
    THEN loaded[p].rev
    ELSE 0

(* Fault: the salt of the user who was logged in before is kept.           *)
SaveLogin_OldSalt(p) ==
    /\ pc[p] = "login_state"
    /\ state' = [state EXCEPT ![Dev(p)] =
                    [user |-> cmd[p].user,
                     salt |-> IF loaded[p].salt # Nobody THEN loaded[p].salt ELSE cmd[p].user,
                     rev  |-> StartRev(p)]]
    /\ Go(p, "since")
    /\ UNCHANGED <<server, vault, locals>>

SaveLogin(p) ==
    /\ pc[p] = "login_state"
    /\ state' = [state EXCEPT ![Dev(p)] =
                    [user |-> cmd[p].user, salt |-> cmd[p].user, rev |-> StartRev(p)]]
    /\ Go(p, "since")
    /\ UNCHANGED <<server, vault, locals>>

-----------------------------------------------------------------------------
(* SyncChanges, as a command and at the end of Register and Login.         *)

LoadSince(p) ==
    /\ pc[p] = "since"
    /\ loaded' = [loaded EXCEPT ![p] = state[Dev(p)]]
    /\ Go(p, "latest")
    /\ UNCHANGED <<server, files, cmd, token, got, copy>>

(* The server reads current_rev ...                                        *)
ReadLatest(p) ==
    LET latest == currentRev[token[p]] IN
    /\ pc[p] = "latest"
    /\ got' = [got EXCEPT ![p] = [latest |-> latest, rows |-> NoRows]]
    /\ Go(p, IF latest = 0 \/ loaded[p].rev >= latest THEN "vault" ELSE "changes")
    /\ UNCHANGED <<server, files, cmd, token, loaded, copy>>

(* Fault: the row right after since is left out.                           *)
RowsSince_OffByOne(table, since) ==
    [i \in Items |-> IF table[i].rev > since + 1 THEN table[i] ELSE NoRow]

RowsSince(table, since) ==
    [i \in Items |-> IF table[i].rev > since THEN table[i] ELSE NoRow]

(* Fault: the revision is read after the rows.                             *)
ReadChanges_LatestAfter(p) ==
    /\ pc[p] = "changes"
    /\ got' = [got EXCEPT ![p].rows =
                    RowsSince([i \in Items |-> IF items[token[p]][i].rev > got[p].latest
                                               THEN NoRow ELSE items[token[p]][i]],
                              loaded[p].rev),
                          ![p].latest = currentRev[token[p]]]
    /\ Go(p, "vault")
    /\ UNCHANGED <<server, files, cmd, token, loaded, copy>>

(* ... and then the rows above since.                                      *)
ReadChanges(p) ==
    /\ pc[p] = "changes"
    /\ got' = [got EXCEPT ![p].rows = RowsSince(items[token[p]], loaded[p].rev)]
    /\ Go(p, "vault")
    /\ UNCHANGED <<server, files, cmd, token, loaded, copy>>

LoadVault(p) ==
    /\ pc[p] = "vault"
    /\ copy' = [copy EXCEPT ![p] = vault[Dev(p)]]
    /\ Go(p, "save_vault")
    /\ UNCHANGED <<server, files, cmd, token, loaded, got>>

(* A deleted item is kept without ciphertext, nonce and aad.               *)
Sanitized(row) == [row EXCEPT !.payload = IF row.deleted THEN "empty" ELSE @]

(* Fault: the answer replaces the vault instead of being applied to it.    *)
Merged_Replace(table, rows) == [i \in Items |-> Sanitized(rows[i])]

(* Fault: a tombstone is stored as the server sent it.                     *)
Merged_Raw(table, rows) == [i \in Items |-> IF rows[i] = NoRow THEN table[i] ELSE rows[i]]

Merged(table, rows) ==
    [i \in Items |-> IF rows[i] = NoRow THEN table[i] ELSE Sanitized(rows[i])]

(* Fault: a set or delete takes its row's revision for LastSyncedRev.      *)
SaveVault_BumpsRev(p) ==
    /\ pc[p] = "save_vault"
    /\ vault' = [vault EXCEPT ![Dev(p)] = Merged(copy[p], got[p].rows)]
    /\ IF cmd[p].op \in {"set", "delete"}
       THEN /\ state' = [state EXCEPT ![Dev(p)].rev = got[p].rows[cmd[p].item].rev]
            /\ Exit(p)
       ELSE Go(p, "save_rev") /\ UNCHANGED <<state, locals>>
    /\ UNCHANGED server

SaveVault(p) ==
    /\ pc[p] = "save_vault"
    /\ vault' = [vault EXCEPT ![Dev(p)] = Merged(copy[p], got[p].rows)]
    /\ IF cmd[p].op \in {"set", "delete"}
       THEN Exit(p)
       ELSE Go(p, "save_rev") /\ UNCHANGED locals
    /\ UNCHANGED <<server, state>>

(* The whole state is written back, with the answer's revision.            *)
SaveRev(p) ==
    /\ pc[p] = "save_rev"
    /\ state' = [state EXCEPT ![Dev(p)] = [loaded[p] EXCEPT !.rev = got[p].latest]]
    /\ Exit(p)
    /\ UNCHANGED <<server, vault>>

-----------------------------------------------------------------------------
(* SetItem and DeleteItem.                                                 *)

(* SetItem loads the state for the salt before it encrypts.                *)
LoadSalt(p) ==
    /\ pc[p] = "salt"
    /\ loaded' = [loaded EXCEPT ![p] = state[Dev(p)]]
    /\ Go(p, "send")
    /\ UNCHANGED <<server, files, cmd, token, got, copy>>

(* The row the request leaves on the server, for the token's account.      *)
NewRow(p) ==
    [rev     |-> currentRev[token[p]] + 1,
     deleted |-> cmd[p].op = "delete",
     payload |-> IF cmd[p].op = "delete" THEN "dummy_nonce" ELSE loaded[p].salt,
     owner   |-> token[p]]

CanWrite(p) ==
    /\ currentRev[token[p]] < MaxRev
    /\ cmd[p].op = "delete" => items[token[p]][cmd[p].item] # NoRow

Write(p) ==
    /\ currentRev' = [currentRev EXCEPT ![token[p]] = @ + 1]
    /\ items' = [items EXCEPT ![token[p]][cmd[p].item] = NewRow(p)]

Send(p) ==
    /\ pc[p] = "send"
    /\ CanWrite(p)
    /\ Write(p)
    /\ got' = [got EXCEPT ![p].rows[cmd[p].item] = NewRow(p)]
    /\ Go(p, "vault")
    /\ UNCHANGED <<registered, files, cmd, token, loaded, copy>>

(* The write took effect and the client does not learn of it.              *)
SendUnheard(p) ==
    /\ pc[p] = "send"
    /\ CanWrite(p)
    /\ Write(p)
    /\ Exit(p)
    /\ UNCHANGED <<registered, files>>

-----------------------------------------------------------------------------

(* An error answer, a timeout, a file that cannot be read or written, or a *)
(* killed process: the command ends where it is.                           *)
Stop(p) ==
    /\ pc[p] # "idle"
    /\ Exit(p)
    /\ UNCHANGED <<server, files>>

Next ==
    \E p \in Procs :
        \/ Start(p)
        \/ Authenticate(p) \/ RegisterUnheard(p)
        \/ LoadOldState(p) \/ WipeVault(p) \/ SaveLogin(p)
        \/ LoadSince(p) \/ ReadLatest(p) \/ ReadChanges(p)
        \/ LoadVault(p) \/ SaveVault(p) \/ SaveRev(p)
        \/ LoadSalt(p) \/ Send(p) \/ SendUnheard(p)
        \/ Stop(p)

Spec == Init /\ [][Next]_vars

-----------------------------------------------------------------------------

Steps == {"idle", "auth", "who", "wipe", "login_state", "since", "latest", "changes",
          "vault", "save_vault", "save_rev", "salt", "send"}

TypeOK ==
    /\ registered \subseteq Users
    /\ currentRev \in [Users -> 0 .. MaxRev]
    /\ items \in [Users -> [Items -> Rows]]
    /\ state \in [Devices -> States]
    /\ vault \in [Devices -> [Items -> Rows]]
    /\ pc \in [Procs -> Steps]
    /\ cmd \in [Procs -> Commands \cup {NoCmd}]
    /\ token \in [Procs -> Users \cup {Nobody}]
    /\ loaded \in [Procs -> States]
    /\ got \in [Procs -> Answers]
    /\ copy \in [Procs -> [Items -> Rows]]

(* Everything the server had for the logged-in user at or below            *)
(* LastSyncedRev, and that has not changed since, is in the vault.  It     *)
(* will not be fetched again, so what is missing here stays missing.       *)
HasAllSynced(d) ==
    LET u == state[d].user IN
    u # Nobody =>
        \A i \in Items :
            items[u][i].rev \in 1 .. state[d].rev => vault[d][i] = Sanitized(items[u][i])

SyncedComplete == \A d \in Devices : HasAllSynced(d)

(* The same, asked only of a device on which no command is running.        *)
SyncedCompleteAtRest ==
    \A d \in Devices : (\A s \in Slots : pc[<<d, s>>] = "idle") => HasAllSynced(d)

(* The vault holds items of the logged-in user only, through every order   *)
(* of wiping, saving the new state and stopping in between.                *)
VaultOwned ==
    \A d \in Devices, i \in Items : vault[d][i].owner \in {Nobody, state[d].user}

(* What is stored under an account was encrypted under that account's salt *)
(* (so its master password can open it), through every order of logins and *)
(* logins that stop half-way: the token a command starts with and the salt *)
(* it loads later belong together as long as no other command runs.        *)
KeyMatchesAccount ==
    \A u \in Users, i \in Items :
        items[u][i].rev > 0 /\ ~ items[u][i].deleted => items[u][i].payload = u

(* A vault row is never ahead of the server, and at equal revision it is   *)
(* the server's row, with a tombstone's payload removed.                   *)
VaultFaithful ==
    \A d \in Devices, i \in Items :
        LET mine == vault[d][i] IN
        mine.rev > 0 =>
            LET theirs == items[mine.owner][i] IN
            /\ mine.rev =< theirs.rev
            /\ mine.rev = theirs.rev => mine = Sanitized(theirs)

(* A vault row only ever moves to a later revision of the same account: no *)
(* command undoes what an earlier one learned, except by changing user.    *)
VaultNeverGoesBack ==
    [][\A d \in Devices, i \in Items :
        \/ vault'[d][i].rev >= vault[d][i].rev
        \/ vault'[d] = NoRows]_vars

(* While the same user stays logged in, LastSyncedRev never decreases.     *)
SyncedRevNeverGoesBack ==
    [][\A d \in Devices :
        state'[d].user = state[d].user => state'[d].rev >= state[d].rev]_vars

(* The vault is what the server has.                                       *)
CaughtUp(d) ==
    /\ state[d].user # Nobody
    /\ \A i \in Items : vault[d][i] = Sanitized(items[state[d].user][i])

(* A device whose LastSyncedRev is the account's revision, with no command *)
(* running, has in its vault exactly what the server has: no item less, no *)
(* item more, none in an older version, whatever other devices wrote and   *)
(* whatever of its own commands stopped half-way before.                   *)
UpToDate ==
    \A d \in Devices :
        /\ \A s \in Slots : pc[<<d, s>>] = "idle"
        /\ state[d].user # Nobody
        /\ state[d].rev = currentRev[state[d].user]
        => CaughtUp(d)

(* A device that completes one sync after another ends up with exactly     *)
(* what the server has (writes are bounded by MaxRev, so the server is     *)
(* quiet from some point on), whatever was lost or stopped before.         *)
VaultsConverge ==
    \A p \in Procs : ([]<><<SaveRev(p)>>_vars) => <>[]CaughtUp(Dev(p))
=============================================================================
