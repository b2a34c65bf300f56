----------------------------- MODULE ItemSecrets -------------------------------
(***************************************************************************)
(* What `get` shows of what `set` was given: App.SetItem, App.GetItem and  *)
(* App.GetList with the encryption of internal/clientcrypto, between       *)
(* deletes, syncs and logins, on several devices.                          *)
(*                                                                         *)
(* A ciphertext opens with the key, nonce and additional data it was       *)
(* sealed with; get finds these in three places, the password and the      *)
(* state's salt, the row's nonce, the row's id and type, and the ways by   *)
(* which the row came into the vault have to keep them together.           *)
(*                                                                         *)
(* A device runs one command at a time that changes its files (VaultSync   *)
(* has their interleavings, item by item) and one get beside it.  A file   *)
(* is replaced in one step (LocalFiles), a request takes effect in one     *)
(* step (RevStore).                                                        *)
(***************************************************************************)
EXTENDS Integers, Sequences

CONSTANTS
    Users, Items, Devices, Passwords, Types,
    Readers,    \* the devices get is run on
    Binary,     \* the type whose content goes to a file
    Nobody,     \* user of an empty state file
    MaxSealed,  \* bound: encryptions
    MaxRev      \* bound: writes accepted per account

ASSUME BinaryAssumption == Binary \in Types
ASSUME NobodyAssumption == Nobody \notin Users
ASSUME BoundsAssumption == MaxSealed \in Nat /\ MaxRev \in Nat

VARIABLES
    currentRev,  \* users.current_rev
    items,       \* the items table
    state,       \* state[d]: the state file, the user and LastSyncedRev
    vault,       \* vault[d]: the vault file
    pc,          \* pc[d]: step of the command that changes files
    who,         \* who[d]: the user that command logs in
    got,         \* got[d]: the answer it has: revision and rows
    reader,      \* reader[d]: <<the get>>, after it loaded the vault
    shown,       \* shown[d]: the outcome of the last get
    asked        \* asked[n]: what the n-th encryption was asked for

server == <<currentRev, items>>
files == <<state, vault>>
writer == <<pc, who, got>>
gets == <<reader, shown>>
vars == <<currentRev, items, state, vault, pc, who, got, reader, shown, asked>>

-----------------------------------------------------------------------------
(* Rows.  data is n for the content of the n-th set; salts are told apart  *)
(* by their accounts.                                                      *)

Keys == Passwords \X Users
Numbers == 1 .. MaxSealed
Envelopes == [type : Types, data : Numbers]
Boxes == [key : Keys, nonce : Numbers, aad : Items \X Types, plain : Envelopes]

(* An absent ciphertext and nonce; the nonce the server gives a tombstone. *)
NoBox == [key |-> <<>>, nonce |-> 0, aad |-> <<>>, plain |-> [type |-> Binary, data |-> 0]]
NoNonce == 0
DummyNonce == MaxSealed + 1

Rows == [rev : 0 .. MaxRev, deleted : BOOLEAN, type : Types,
         ciphertext : Boxes \cup {NoBox}, nonce : 0 .. DummyNonce]
NoRow == [rev |-> 0, deleted |-> FALSE, type |-> Binary,
          ciphertext |-> NoBox, nonce |-> NoNonce]
NoRows == [i \in Items |-> NoRow]
NoState == [user |-> Nobody, rev |-> 0]
NoAnswer == [latest |-> 0, rows |-> NoRows]

-----------------------------------------------------------------------------
(* clientcrypto.  Without a salt there is no key.                          *)

(* Fault: the key depends on the password alone.                           *)
DeriveKey_NoSalt(pw, user) == <<pw, Nobody>>

DeriveKey(pw, user) == <<pw, user>>

(* The nonce is drawn at random: the n-th is unlike all others.            *)
Encrypt(n, key, plain, aad) == [key |-> key, nonce |-> n, aad |-> aad, plain |-> plain]

Opens(key, box, nonce, aad) == box.key = key /\ box.nonce = nonce /\ box.aad = aad

-----------------------------------------------------------------------------

Results == {"none", "not_found", "deleted", "no_payload", "no_key",
            "decrypt_error", "type_mismatch", "needs_out", "ok"}
NoOutcome == [result |-> "none", as |-> Nobody, data |-> 0]
Refused(why) == [NoOutcome EXCEPT !.result = why]

Init ==
    /\ currentRev = [u \in Users |-> 0]
    /\ items = [u \in Users |-> NoRows]
    /\ state = [d \in Devices |-> NoState]
    /\ vault = [d \in Devices |-> NoRows]
    /\ pc = [d \in Devices |-> "idle"]
    /\ who = [d \in Devices |-> Nobody]
    /\ got = [d \in Devices |-> NoAnswer]
    /\ reader = [d \in Devices |-> <<>>]
    /\ shown = [d \in Devices |-> NoOutcome]
    /\ asked = <<>>

Go(d, step) == pc' = [pc EXCEPT ![d] = step]

(* The command ends; its memory is gone.                                   *)
Exit(d) ==
    /\ Go(d, "idle")
    /\ who' = [who EXCEPT ![d] = Nobody]
    /\ got' = [got EXCEPT ![d] = NoAnswer]

-----------------------------------------------------------------------------
(* Login and Register, then SyncChanges.                                   *)

Login(d) ==
    /\ pc[d] = "idle"
    /\ \E u \in Users :
        /\ who' = [who EXCEPT ![d] = u]
        /\ Go(d, IF state[d].user \notin {Nobody, u} THEN "wipe" ELSE "save_login")
    /\ UNCHANGED <<server, files, got, gets, asked>>

WipeVault(d) ==
    /\ pc[d] = "wipe"
    /\ vault' = [vault EXCEPT ![d] = NoRows]
    /\ Go(d, "save_login")
    /\ UNCHANGED <<server, state, who, got, gets, asked>>

SaveLogin(d) ==
    /\ pc[d] = "save_login"
    /\ state' = [state EXCEPT ![d] =
                    [user |-> who[d], rev |-> IF @.user = who[d] THEN @.rev ELSE 0]]
    /\ Go(d, "ask")
    /\ UNCHANGED <<server, vault, who, got, gets, asked>>

Sync(d) ==
    /\ pc[d] = "idle"
    /\ state[d].user # Nobody
    /\ Go(d, "ask")
    /\ UNCHANGED <<server, files, who, got, gets, asked>>

(* GetChangesSince: the rows above LastSyncedRev.                          *)
Ask(d) ==
    LET u == state[d].user IN
    /\ pc[d] = "ask"
    /\ got' = [got EXCEPT ![d] =
                [latest |-> currentRev[u],
                 rows |-> [i \in Items |->
                            IF items[u][i].rev > state[d].rev THEN items[u][i] ELSE NoRow]]]
    /\ Go(d, "apply")
    /\ UNCHANGED <<server, files, who, gets, asked>>

Sanitized(row) ==
    IF row.deleted THEN [row EXCEPT !.ciphertext = NoBox, !.nonce = NoNonce] ELSE row

(* LoadVault, the answer's rows put in, SaveVault.                         *)
ApplyChanges(d) ==
    /\ pc[d] = "apply"
    /\ vault' = [vault EXCEPT ![d] =
                    [i \in Items |-> LET row == got[d].rows[i] IN
                                     IF row = NoRow THEN @[i] ELSE Sanitized(row)]]
    /\ Go(d, "save_rev")
    /\ UNCHANGED <<server, state, who, got, gets, asked>>

(* Fault: the revision saved is the one to come.                           *)
SaveRev_Next(d) ==
    /\ pc[d] = "save_rev"
    /\ state' = [state EXCEPT ![d].rev = got[d].latest + 1]
    /\ Exit(d)
    /\ UNCHANGED <<server, vault, gets, asked>>

SaveRev(d) ==
    /\ pc[d] = "save_rev"
    /\ state' = [state EXCEPT ![d].rev = got[d].latest]
    /\ Exit(d)
    /\ UNCHANGED <<server, vault, gets, asked>>

-----------------------------------------------------------------------------
(* SetItem and DeleteItem.                                                 *)

Accept(d, i, row) ==
    LET u == state[d].user IN
    /\ pc[d] = "idle"
    /\ u # Nobody
    /\ currentRev[u] < MaxRev
    /\ currentRev' = [currentRev EXCEPT ![u] = @ + 1]
    /\ items' = [items EXCEPT ![u][i] = row]

(* The answer comes, or not.                                               *)
Hear(d, i, row) ==
    \/ /\ got' = [got EXCEPT ![d] = [NoAnswer EXCEPT !.rows[i] = row]]
       /\ Go(d, "store")
       /\ UNCHANGED who
    \/ Exit(d)

(* Derive the key, seal the envelope, put it to the server.  The upsert    *)
(* replaces the type, the ciphertext and the nonce of an item that exists, *)
(* and revives one that was deleted.                                       *)
Set(d, i, pw, t) ==
    LET u == state[d].user
        n == Len(asked) + 1
        box == Encrypt(n, DeriveKey(pw, u), [type |-> t, data |-> n], <<i, t>>)
        row == [rev |-> currentRev[u] + 1, deleted |-> FALSE, type |-> t,
                ciphertext |-> box, nonce |-> box.nonce]
    IN
    /\ n =< MaxSealed
    /\ Accept(d, i, row)
    /\ Hear(d, i, row)
    /\ asked' = Append(asked, [user |-> u, item |-> i, pw |-> pw, type |-> t])
    /\ UNCHANGED <<files, gets>>

Delete(d, i) ==
    LET u == state[d].user
        row == [items[u][i] EXCEPT !.rev = currentRev[u] + 1, !.deleted = TRUE,
                                   !.ciphertext = NoBox, !.nonce = DummyNonce]
    IN
    /\ u # Nobody
    /\ items[u][i] # NoRow
    /\ Accept(d, i, row)
    /\ Hear(d, i, row)
    /\ UNCHANGED <<files, gets, asked>>

(* Fault: the vault's item keeps the type it had.                          *)
Stored_OldType(old, row) ==
    IF old = NoRow THEN Sanitized(row) ELSE [Sanitized(row) EXCEPT !.type = old.type]

(* The vault's item, field by field from the answer; a delete empties it.  *)
Stored(old, row) == Sanitized(row)

(* LoadVault, the answer's row put in, SaveVault.                          *)
StoreItem(d) ==
    /\ pc[d] = "store"
    /\ vault' = [vault EXCEPT ![d] =
                    [i \in Items |-> LET row == got[d].rows[i] IN
                                     IF row = NoRow THEN @[i] ELSE Stored(@[i], row)]]
    /\ Exit(d)
    /\ UNCHANGED <<server, state, gets, asked>>

(* An error or the end of the process, anywhere.                           *)
Stop(d) ==
    /\ pc[d] # "idle"
    /\ Exit(d)
    /\ UNCHANGED <<server, files, gets, asked>>

-----------------------------------------------------------------------------
(* GetItem and the get command.                                            *)

(* LoadVault, and what the row alone decides.                              *)
RowCheck(row) ==
    IF row = NoRow THEN "not_found"
    ELSE IF row.deleted THEN "deleted"
    ELSE IF row.ciphertext = NoBox \/ row.nonce = NoNonce THEN "no_payload"
    ELSE "ok"

GetRow(d, i, pw, toFile) ==
    LET row == vault[d][i] IN
    /\ reader[d] = <<>>
    /\ IF RowCheck(row) = "ok"
       THEN /\ reader' = [reader EXCEPT ![d] =
                    <<[row |-> row, item |-> i, pw |-> pw, toFile |-> toFile]>>]
            /\ shown' = [shown EXCEPT ![d] = NoOutcome]
       ELSE /\ shown' = [shown EXCEPT ![d] = Refused(RowCheck(row))]
            /\ UNCHANGED reader
    /\ UNCHANGED <<server, files, writer, asked>>

(* The rest, with the state's salt: derive, decrypt, compare the types;    *)
(* binary content wants a file.                                            *)
Outcome(i, row, pw, user, toFile) ==
    LET box == row.ciphertext IN
    IF user = Nobody THEN Refused("no_key")
    ELSE IF ~ Opens(DeriveKey(pw, user), box, row.nonce, <<i, row.type>>) THEN Refused("decrypt_error")
    ELSE IF box.plain.type # row.type THEN Refused("type_mismatch")
    ELSE IF box.plain.type = Binary /\ ~ toFile THEN Refused("needs_out")
    ELSE [result |-> "ok", as |-> user, data |-> box.plain.data]

(* LoadState, only now.                                                    *)
GetShow(d) ==
    LET r == Head(reader[d]) IN
    /\ reader[d] # <<>>
    /\ shown' = [shown EXCEPT ![d] = Outcome(r.item, r.row, r.pw, state[d].user, r.toFile)]
    /\ reader' = [reader EXCEPT ![d] = <<>>]
    /\ UNCHANGED <<server, files, writer, asked>>

-----------------------------------------------------------------------------
(* GetList: the items of a vault the flags select.                         *)

(* Fault: --type is looked at before --deleted.                            *)
Listed_TypeFirst(rows, all, type, deleted) ==
    {i \in Items :
        /\ rows[i] # NoRow
        /\ type # {} => rows[i].type \in type
        /\ ~ all /\ type = {} => rows[i].deleted = deleted}

(* type is {} without --type.  --all goes before --deleted.                *)
Listed(rows, all, type, deleted) ==
    {i \in Items :
        /\ rows[i] # NoRow
        /\ type # {} => rows[i].type \in type
        /\ ~ all => rows[i].deleted = deleted}

-----------------------------------------------------------------------------

Next ==
    \E d \in Devices :
        \/ Login(d) \/ WipeVault(d) \/ SaveLogin(d)
        \/ Sync(d) \/ Ask(d) \/ ApplyChanges(d) \/ SaveRev(d)
        \/ \E i \in Items, pw \in Passwords, t \in Types : Set(d, i, pw, t)
        \/ \E i \in Items : Delete(d, i)
        \/ StoreItem(d) \/ Stop(d)
        \/ /\ d \in Readers
           /\ \E i \in Items, pw \in Passwords, toFile \in BOOLEAN : GetRow(d, i, pw, toFile)
        \/ GetShow(d)

Spec == Init /\ [][Next]_vars

-----------------------------------------------------------------------------

Steps == {"idle", "wipe", "save_login", "ask", "apply", "save_rev", "store"}

TypeOK ==
    /\ currentRev \in [Users -> 0 .. MaxRev]
    /\ items \in [Users -> [Items -> Rows]]
    /\ state \in [Devices -> [user : Users \cup {Nobody}, rev : 0 .. MaxRev]]
    /\ vault \in [Devices -> [Items -> Rows]]
    /\ pc \in [Devices -> Steps]
    /\ who \in [Devices -> Users \cup {Nobody}]
    /\ got \in [Devices -> [latest : 0 .. MaxRev, rows : [Items -> Rows]]]
    /\ \A d \in Devices : reader[d] # <<>> =>
            Head(reader[d]) \in [row : Rows, item : Items, pw : Passwords, toFile : BOOLEAN]
    /\ shown \in [Devices -> [result : Results, as : Users \cup {Nobody}, data : 0 .. MaxSealed]]
    /\ Len(asked) =< MaxSealed
    /\ asked \in Seq([user : Users, item : Items, pw : Passwords, type : Types])

(* What a get with nothing beside it shows.                                *)
Got(d, i, pw, toFile) ==
    LET row == vault[d][i] IN
    IF RowCheck(row) = "ok" THEN Outcome(i, row, pw, state[d].user, toFile)
    ELSE Refused(RowCheck(row))

(* Every live item in a vault opens with exactly the master password it    *)
(* was last set with, and shows what was set then, by the logged-in user,  *)
(* for this item and under the type it is listed with.  So it is however   *)
(* the row got there: set here or elsewhere, over an older type or         *)
(* password, over a tombstone, by a sync, after logins and half commands.  *)
RightPasswordOpens ==
    \A d \in Devices, i \in Items :
        LET row == vault[d][i] IN
        RowCheck(row) = "ok" =>
            LET n == row.ciphertext.plain.data IN
            /\ asked[n].user = state[d].user
            /\ asked[n].item = i
            /\ asked[n].type = row.type
            /\ \A pw \in Passwords :
                Got(d, i, pw, TRUE) =
                    IF pw = asked[n].pw
                    THEN [result |-> "ok", as |-> state[d].user, data |-> n]
                    ELSE Refused("decrypt_error")

(* A get that another user's login overtakes, between its vault and its    *)
(* state, shows an error: contents are shown only as the user who stored   *)
(* them, even if both chose the same master password.                      *)
NothingForeignShown ==
    \A d \in Devices :
        shown[d].result = "ok" => asked[shown[d].data].user = shown[d].as

(* list without --all and --deleted names exactly the items get has        *)
(* something to decrypt for; with --deleted, those get calls deleted; the  *)
(* two lists of one type make up its list with --all.  A row that is       *)
(* neither would be an item that is listed and cannot be read.             *)
ListedAreReadable ==
    \A d \in Devices :
        /\ \A i \in Items :
            /\ i \in Listed(vault[d], FALSE, {}, FALSE) <=> RowCheck(vault[d][i]) = "ok"
            /\ i \in Listed(vault[d], FALSE, {}, TRUE) <=> RowCheck(vault[d][i]) = "deleted"
        /\ \A t \in Types :
            /\ Listed(vault[d], TRUE, {t}, FALSE) =
                    Listed(vault[d], FALSE, {t}, FALSE) \cup Listed(vault[d], FALSE, {t}, TRUE)
            /\ Listed(vault[d], FALSE, {t}, FALSE) \cap Listed(vault[d], FALSE, {t}, TRUE) = {}
=============================================================================
