# go-data-keeper in TLA+

go-data-keeper is a Go client and server that keep a user's encrypted items in step on
several devices. The server stores opaque rows in PostgreSQL and gives every change of an
account the next revision; a command-line client keeps a local vault and asks for what has
changed since the last revision it saw. This directory models that: the database
transactions behind the routes, registration, login and the life of a token, the server's
start and stop, the client's commands, files and encryption, with model-checking runs (TLC)
and machine-checked proofs (TLAPS).

Paths below are relative to `src/`.

## 1. The system

| Component | State | Operations | Model |
|---|---|---|---|
| item repository, `internal/repository/items_repository.go` | tables `users.current_rev`, `items` | SetItem, DeleteItem, GetItem, GetAllItems, GetChangesSince, checkErr | `ItemStore`, `RevStore` |
| item service and handlers, `internal/service/items_service.go`, `internal/handler/handler.go` | none; a deadline per call | the same five, as routes | `ItemStore` |
| auth repository, service, handlers, `auth_repository.go`, `auth_service.go` | table `users` | RegisterUser, LoginUser, GenerateToken | `Accounts`, `AuthGate` |
| auth middleware, `internal/middleware/auth_middleware.go` | none | WithAuth: 401, or the user id in the context | `AuthGate`; its outcome in `ItemStore` |
| schema and migrations, `internal/migrations` | constraints | up, down | the constraints |
| server lifecycle, `cmd/server/main.go` | the listener, the requests in flight | start, graceful stop | `ServerLifecycle` |
| client application, `internal/clientapp/app.go` | none between commands | Register, Login, SetItem, DeleteItem, SyncChanges, GetList, GetItem | `VaultSync`, `ItemSecrets` |
| API client, `internal/clientapi/client.go` | the bearer token | one method per route | `VaultSync` |
| local files, `internal/clientstate` | `state.json`, `vault.json` | load, save, wipe | `LocalFiles`, `FileCells`; one step each in `VaultSync` |
| client cryptography, `internal/clientcrypto` | none | DeriveKey, Encrypt, Decrypt | `ItemSecrets`: what opens what |
| command line, `cmd/client/cli` | none | PersistentPreRunE, commands | `SetCommand`; list and get in `ItemSecrets` |
| logging, configuration, connection, build info, Swagger | none of interest | | not modelled |

**How they interact.** A command is a process of its own. It loads the state file for the
token, then runs one workflow of `clientapp`, which loads files, makes HTTP requests and
replaces files. On the server a request passes the middleware, its handler calls the
service, the service sets a deadline and calls the repository, and the repository runs SQL.
Requests meet only in the database, commands of one device only in its two files, devices
only through the server.

**What is hard.**
- *Interleaving.* All requests run concurrently at READ COMMITTED. SetItem is one statement
  that locks the `users` row and then the `items` row; DeleteItem is a transaction of four
  statements that locks them the other way round. GetChangesSince reads the revision and the
  rows in two statements with a snapshot each.
- *Failure.* Any statement may end with the deadline, a lost connection or as the victim of
  a deadlock; a commit may take effect and its acknowledgement be lost; nobody retries.
- *Crash.* A command may be killed between any two file or network accesses; nothing is
  journalled.
- *Stale state.* `LastSyncedRev` promises that everything at or below it is in the vault;
  whatever breaks that is never fetched again.
- *No lock* protects a device's files from a second command.
- *Time.* A token lives fifteen minutes and nothing renews it; it is checked before the body
  of the request is read, which nothing limits; a service works for up to ten
  seconds, a graceful stop waits five, a client may stall for ever.
- *Disks.* A file is replaced by a rename whose directory is not synced.
- *What belongs together.* An item opens with the password, salt, nonce, id and type it was
  sealed with. These lie in two files and come by three ways.

**What makes each component correct.**
- Item store: one revision per change, no revision shared or skipped; a sync answer misses
  nothing at or below its `latest_rev`; an acknowledged write stays; accounts do not see
  each other's rows; every request is answered.
- Accounts: a login has one account, whose id and salt never change; 409 means that it
  exists; a successful registration means that too.
- Client: the vault has everything up to `LastSyncedRev`, belongs to the logged-in user,
  never goes back, and ends up equal to the server; what is in it opens, with the right
  password only; its files are never torn.
- Access: a token passes for its life, no longer and no shorter; a stop does not cut off the
  short requests that are under way; what `set` was told is what is sent, and not too large.

## 2. Modules

| Module | What it is |
|---|---|
| `ItemRows` | rows, requests and answers; no state |
| `RevStore` | abstract: every item request takes effect in one step |
| `ItemStore` | the routes over PostgreSQL: statements, row locks, rollbacks; refines `RevStore` |
| `Accounts` | registration and login over the `users` table |
| `VaultSync` | the client's commands and files against the server |
| `FileCells` | abstract: two cells, each replaced as a whole |
| `LocalFiles` | atomicWriteFile and the loads, step by step, with kills and power losses; refines `FileCells` |
| `ItemSecrets` | what get and list make of what set, delete, sync and login left |
| `AuthGate` | tokens, clock, WithAuth, and the token in the state file |
| `ServerLifecycle` | start, stop and the requests in flight |
| `SetCommand` | one `client set`: flags, metadata, sizes |
| `MC...` | symmetry sets and values for TLC |
| `..._proofs` | proofs |

The modules meet at their abstractions. `ItemStore` takes `RevStore`'s steps one at a time
(`Atomic == INSTANCE RevStore WITH phase <- Phase`), which lets `VaultSync` and `ItemSecrets`
treat a write on the server as one step. `LocalFiles` implements `FileCells`
(`INSTANCE FileCells WITH past <- ContentsPast`), which lets them treat a save as one step.
`ServerLifecycle` says which requests a stop cuts off; to `ItemStore` that is `Abort` or
`CommitUnheard`. `AuthGate` says whose request gets through; to `ItemStore` that is `Arrive`.

### ItemStore

`pc[r]` is the statement a request is about to run; the tables hold committed rows only, and
which row locks a transaction holds follows from `pc`. So an uncommitted write is no state
of its own: `Commit` applies it, a rollback has nothing to undo.

| Actions | Code |
|---|---|
| `Arrive`, `Refuse` | WithAuth; the handler's checks, the negative `since` |
| `SetTakeRev`, `SetNoUser`, `SetUpsert` | the parts of `insertItemQuery` between its two row locks |
| `DelMark`, `DelNotFound`, `DelBump` | the statements of DeleteItem; the last two touch rows it has locked already and are part of `DelBump` |
| `Commit`, `CommitUnheard` | the deferred commit, and one whose acknowledgement is lost |
| `ReadOne`, `ReadAll` | GetItem, GetAllItems |
| `ChgNothingNew`, `ChgRev`, `ChgNoUser`, `ChgItems` | the two statements of GetChangesSince with their early returns |
| `Abort` | deadline, lost connection, crash of the server before the commit |
| `DeadlockVictim` | PostgreSQL's detector; `checkErr` makes it ErrRetryableDB |

Waiting is a guard: `Blocked(r)` if another request holds the lock the next statement needs.
After waiting, a statement goes on from the newest committed row, as READ COMMITTED does, so
reading `currentRev` when the lock is granted is exact. PostgreSQL is not in the repository;
its locks and its deadlock detector are modelled from how the statements use them.

The payload of a row is the request that wrote it: an opaque blob about which a property can
ask no more than which write it came from. A refinement mapping to `RevStore` needs only
`phase`, which forgets where a request is: a write takes effect at its commit, a sync at its
second statement. The answer's `latest_rev` may then be older than the table: `RevStore`
allows any value between `current_rev` at arrival and at the answer.

### Accounts

A request that is registering is at `insert` or, with an uncommitted row, at `commit`.
`Contested` is the wait on the unique index. Every attempt draws a fresh salt and gets a
fresh id, so both are represented by the request that made them. `CommitFails` is what the
code does: `RegisterUser` has unnamed results, and the deferred function's assignment to
`err` comes after `return id, nil` has set them.

### VaultSync

A process `<<d, s>>` is a command on device `d`; `Slots` bounds how many run at a time. `pc`
walks through the accesses of the workflow; `loaded`, `got` and `copy` are the command's
memory and vanish with it (`Exit`). `Stop` covers every error return and a killed process,
`RegisterUnheard` and `SendUnheard` a request that took effect without the client knowing.

| Actions | Code |
|---|---|
| `Start` | PersistentPreRunE: the token from the state file |
| `Authenticate`, `LoadOldState`, `WipeVault`, `SaveLogin` | Register, Login up to their sync |
| `LoadSince`, `ReadLatest`, `ReadChanges`, `LoadVault`, `SaveVault`, `SaveRev` | SyncChanges, with the server's two reads apart |
| `LoadSalt`, `Send` | SetItem, DeleteItem; then `LoadVault`, `SaveVault` |

A server write is one step here, which `ItemStore` refining `RevStore` justifies. The two
reads of a sync stay apart, because the revision is what the client keeps. A payload is the
account whose salt its key was derived from; `owner` is `user_id`, which the client never
sees and only properties mention.

The register action of this module always creates the account; the rolled-back registration
that `Accounts` shows is not composed with it.

### LocalFiles and FileCells

A command is a script of loads and saves, taken from `clientapp` (`SyncPart` is SyncChanges,
and so on). A load opens the file and reads it; a save makes a temporary file, writes it in
two pieces, syncs it and renames it. `Stop` is an error return or a kill and leaves the
temporary file. The disk is `cached` and `stored`, how much of a file has been written and
how much of that is durable, and `past`, the directory on the disk followed by what each
rename since made of it: `Flush` and `Settle` write back, `PowerLoss` goes back to the first.

The file system is external. It is taken to be one volume whose journal keeps the order of
renames, and to keep an open file readable after its name has gone to another; that is what
the default paths on the usual file systems give. With `--state` and `--vault` on two volumes
the order of two renames is not kept, and nothing here is claimed.

### ItemSecrets

The payload `VaultSync` leaves opaque is taken apart: a ciphertext is a record of the key,
nonce and additional data it was sealed with, and opens with exactly those. `asked[n]` is what
the n-th `set` was told. On each device one command writes at a time and one `get` runs beside
it, with its two loads apart; overlapping writers are `VaultSync`'s. AES-GCM and Argon2 are
taken as ideal: another password or another salt is another key, a nonce is never drawn twice.

### AuthGate

`Login` computes `exp`, `Sign` computes `iat` from a later reading of the clock, both lose
their fractions (`NumericDate`); `SaveLogin` persists. A command takes its token from the state
at its start, and its request arrives at any time later.

| Actions | Code |
|---|---|
| `Pass`, `Reject` | WithAuth with the library's check of the claims; `Reject` is the 401 |
| `Stray` | every other request WithAuth meets: no header, no bearer, a forged or malformed token |
| `BodyRead` | `parseJSONBody` of a set has the whole body, at any time after `Pass`; then the service is called |
| `Serve` | the service's last request to the database, before its deadline |
| `SaveRev` | SyncChanges writes back the state it loaded |

WithAuth looks at a token once, before the handler. A handler without a body calls its
service at once, so `since`, where the deadline counts from, is the moment of `Pass`, and
`AccessEndsInTime` bounds what it does by the token's life and the deadline. SetItem reads its
body in between
(`internal/handler/handler.go:208`), and `http.Server` has no read timeout
(`cmd/server/main.go:75`): a set may take effect any time after its token has expired, and the
run reaches such states. Of a set the property says no more than that it passed in time. `Serve` is
where the service asks the last time; a commit whose acknowledgement is lost may take effect
later still (`CommitUnheard` of `ItemStore`).

An `iat` in the future ends in WithAuth's default branch, "invalid token": the library
calls it another error than `ErrTokenNotValidYet`, which is for `nbf`. The clock does not go
back, and signatures are sound. The server's address is saved in the state as well, but never
read, so it is left out.

### ServerLifecycle

The main goroutine (init, serving, waiting for a signal, closing), the listener's goroutine,
and the requests: reading the body, inside a service method with the deadline of its route, or
writing the answer. The seconds are the code's. `Signal` may come at any time: before
NotifyContext it kills. `ListenFails` is the Fatalw of the other goroutine, which ends the
process under a running stop too. A long answer and a body may take for ever, because
`http.Server` has no timeouts; a short answer fits the socket's buffer.

### SetCommand

A string is two lengths, as bytes and as JSON, which is all the limits depend on. The actions
are the checks of `set.go` in their order, then App.SetItem's own (`Seal`), then the server's
limit of a body (`Send`). The limits are the code's numbers; `ArgMax` is Linux' limit of one
argument, since that is where text and metadata come from.

Operators ending in `_NoLock`, `_Replace` and the like, under a comment that starts with
"Fault:", are not part of any specification. Each is a definition of the code with one
plausible mistake, and the property named with it in `PROJECT.json` fails when it takes the
definition's place.

## 3. Runs

| Run | Instance | Shows | Distinct states |
|---|---|---|---|
| `item_contention` | 1 account, 2 items, 4 requests of set, delete, changes | revisions, sync answers, acknowledgements, deadlocks | 315,617 |
| `item_tenants` | 2 accounts and a token without one, 1 item id, 3 requests, all operations, `since` -1 and 0, fairness | separation of accounts, errors; refinement of `RevStore`; every request is answered | 261,421 |
| `accounts_races` | 2 logins, 3 passwords (one too short), 3 requests, fairness | one account per login, honest 409, agreeing logins; every request is answered | 66,185 |
| `accounts_lost_commit` | 2 requests | violation, below | |
| `vault_devices` | 1 account, 2 devices, 2 items, 2 writes | the vault is complete up to `LastSyncedRev`, faithful, never goes back, equals the server at its revision, and catches up | 268,794 |
| `vault_switch` | 2 accounts on 1 device, 2 items, 3 writes each | owner and salt stay right through every switch | 111,453 |
| `vault_switch_stopped` | 2 accounts on 1 device | violation, below | |
| `local_files` | set, delete and sync one after another, list beside them, 3 files, 1 revision | no torn file; state not ahead of vault; refinement of `FileCells` | 827,134 |
| `item_secrets` | 2 accounts, 2 passwords and 2 types on 1 device, 2 encryptions, 3 writes each, a get beside | what opens, what is listed, what is never shown | 193,710 |
| `auth_logins` | 2 users on 1 device, 3 ticks to a second, a life of 2 seconds, deadlines of 1 tick, 10 ticks | when a token is good and what is done with it; the state keeps the last login | 1,406,966 |
| `server_lifecycle` | 2 requests at a time, the code's deadlines, fairness | what a stop cuts off; a signal ends the server | 66,063 |
| `set_limits` | 2,337 command lines, the code's limits | what is sent is what was meant, and fits | 14,838 |

**Why these bounds.** The lock conflicts are between two requests; a third one is needed for
a waits-for graph with a bystander or for a sync between two writes, the fourth for a sync
between two writes after a row exists. Two items tell rows apart, and every revision property
compares two rows or two moments; accounts have to share one id to be confused. For the
client, two devices are one that writes and one that syncs; two writes give a row that moves
past the `since` of a sync that is under way, three a row that is deleted and comes back
(`vault_switch`, `item_secrets`). Three files are a sync and one save more, or a save that
leaves its temporary file and is repeated. Ten ticks are a token's life of six, a
second login in it or after it, and a set whose body ends later than life and deadline. Two
requests in flight are one that finishes and one that does not. The
command lines of `set` are all combinations of flags, all lists of up to three `--meta` from
eight, good and bad, and sizes on and beside every limit. What these instances leave out is
covered by the theorems of section 4, which hold for every instance: more requests, two
commands that write one file at the same time, login's scripts in `LocalFiles`.

Requests, items, accounts, devices and passwords are only compared for equality, so permuting
them is a symmetry; runs with a liveness property use none. `CHECK_DEADLOCK FALSE` is said
where the model really ends: requests are used once, the process exits.

**Fairness.** `ItemStore` and `Accounts` assume weak fairness of each request's own progress:
goroutines are scheduled, statements end, the database runs its deadlock detector. Nothing
that fails is fair. `ServerLifecycle` assumes it of the two goroutines, of each answer of a
service method and of the clock; nobody has to send a body, read an answer or send a signal.
`VaultsConverge` assumes no fairness at all: it is about a device on
which one sync after another completes (`[]<><<SaveRev(p)>>_vars`), whatever else happens;
writes are bounded by `MaxRev`, so the server is quiet from some point on.

### What the violations show

- `accounts_lost_commit`: the commit of a registration fails and the client is told 200, with
  a token for an account that does not exist (`internal/repository/auth_repository.go:87`).
  Line 52 of that file promises a new user record. What that token meets, `item_tenants` has:
  setting an item for a missing user fails on NOT NULL before the foreign key, so the answer
  is ErrDB and 500, never the ErrUserMissing of
  `internal/repository/items_repository.go:114` (see `SetNoUser`).
- `vault_switch_stopped`: Login as another user wipes the vault and then saves the state
  (`internal/clientapp/app.go:192` and `:217`). Killed in between, the old user is logged in
  with an empty vault and an old `LastSyncedRev`; no sync brings the items back.

### What holds with one command at a time only

Nothing locks a device's files, and several properties need the user not to start a second
command before the first has ended. The runs have one slot per device for that reason; with
`Slots = {s1, s2}` TLC finds each of these.

- Two commands both load and replace the vault; the slower one drops what the other stored,
  under a `LastSyncedRev` that claims it (`internal/clientapp/app.go:386` and `:787`;
  `SyncedComplete`).
- A set takes its token from the state before a login in another terminal, and its salt after
  it (`cmd/client/cli/root.go:55`; `KeyMatchesAccount`).
- A sync writes back the whole state it loaded before its request, and with it the token of
  the login before last (`internal/clientapp/app.go:761` and `:820`; `LoginPersisted`).

`VaultFaithful`, `AccessEndsInTime`, `RefusedOnlyWhenOld`, `NeverTorn` and `ImplementsFileCells`
do not need it, and are proved without it.

## 4. Proofs

All are for any sets of users, items, logins, requests and `since` values. The assumptions on
constants are the named ones of the modules: accounts are users, bounds are integers,
placeholders are outside the sets they stand beside, scripts and command lines have their types.
Assumptions about how the client is used stand in the theorems that need them:

| Assumption | Module | What it says |
|---|---|---|
| `Sequential` | `VaultSync`, `AuthGate` | a device runs one command at a time |
| `OneWriter` | `LocalFiles` | of the commands at a time, one saves; any number load |
| `OneAccount` | `VaultSync`, `LocalFiles` | only one account is ever logged in |
| `SwitchRuns` | `VaultSync` | a login as another user does not stop between its wipe and its save |

The section above says what happens without the first two; `vault_switch_stopped` is what
happens without the last two.

**`ItemStore_proofs`.** Type correctness, `RevsAreALine`, `ChangesComplete`, `SyncSeesThePast`,
`AcknowledgedWritesStay`, `DeadlocksAreSetAgainstDelete` and `CommitsInRevisionOrder`. None of
them is inductive alone. The invariant is

    IInv == Typed /\ LocksExclusive /\ RevsHeld /\ RevsAreALine /\ PromisesKept

`LocksExclusive`: no two requests hold one row. `RevsHeld`: a writer that holds the `users` row
has `rev = current_rev + 1`, so nobody else can allocate or commit until it ends. From these two
a commit writes a revision above every row's, which is `RevsAreALine`. `PromisesKept` is what
answers already given, and `latestRev` values already read, say of later states; it survives
because a row only ever moves to a revision above `current_rev`. That is the argument for the
split read of GetChangesSince: a row that leaves the second snapshot's range has moved above
`latestRev`, and so will be in the next answer. `AccountsApart` (`OwnRowsOnly`) follows from the
type invariant and from where the rows of an answer come from.

`Refinement == Spec => ImplementsRevStore`: initial states map to initial states; `Commit` and
`CommitUnheard` map to `Write`, the reads to `Read` and `Changes`, the errors to `Miss` and
`Fail`, the lock steps to stuttering. It needs `IInv` and that a writer about to commit has an
account and, for a delete, a row.

Two theorems are the safety half of `EveryRequestAnswered`. `NoEndlessWait`: from every request
at most two waits for a lock lead to one that can go on or that the deadlock detector rolls
back. Whoever holds the `users` row and still waits is a set that waits for a delete, and that
delete waits for the set's `users` row: a deadlock, and the detector resolves it. A delete that
holds an item waits for that row's holder, so every chain is at most one wait longer.
`RequestsGoForward`: each step of a request is to a later stage of five, and an answer once
given is not changed. What is left to liveness is that the released request is scheduled.

**`Accounts_proofs`.** Type correctness, `ConflictMeansAccount`, `LoginsAgree`,
`AccountsNeverChange`. The strengthening is `OneDraft`: a login with an uncommitted row has
neither a committed nor a second uncommitted one, which is what the unique index keeps.

**`VaultSync_proofs`.** `TypeCorrect` and `VaultsFaithful` without an assumption: what a vault,
an answer or a command's copy holds is what the server had at that revision, because tombstones
are sanitized in the same way on every path and revisions of a row only grow. Under
`Sequential`: `VaultsOwned`, `KeysMatchAccounts`, `VaultsGoForward`, `SyncedRevsGoForward`;
their invariant says for each step of a command how its memory relates to the files, which
nobody else changes.

What `LastSyncedRev` claims has an invariant of its own, `CInv`. It is about a sync that is
under way: the answer it holds is complete from the `since` it loaded to its revision, or the
server's row has moved above that revision; the vault is complete up to `since`, so the merged
copy is up to the answer's revision, before the state says so. One step breaks it on purpose: a
login as another user wipes the vault first, and until it saves the new state the old one claims
too much (`Switching`). Three theorems come from it:

- `OnlyStoppedSwitchesLose`: with `SwitchRuns`, nothing synced is missing on a device at rest,
  whatever accounts take turns and wherever else commands stop. So the violation of
  `vault_switch_stopped` has one cause, the order of two saves in Login, and no second.
- `SyncsAreComplete` (`SyncedComplete`): with one account no login wipes, and the same holds in
  the middle of commands too.
- `QuietSyncsCatchUp` (`UpToDate`): with `SwitchRuns`, a device at rest whose `LastSyncedRev` is the
  account's revision has exactly the server's items, none less, none more, none older. A sync
  that nobody wrote during saves such a revision: the safety half of `VaultsConverge`.

**`LocalFiles_proofs`.** `TypeCorrect`, `FilesAreWhole` (`NeverTorn`) and `Refinement`
(`ImplementsFileCells`), for any commands and any number of them at once. The invariant: a
temporary file belongs to one writer and has no other name, it is whole in memory when it is
synced, and whole on the disk when it is renamed. Only `Rename` maps to `Replace`; `Settle` and
`PowerLoss` map to themselves, everything else to stuttering.

`OrderKept` (`StateNotAhead`): under `OneWriter` no state file, now or after a power loss, says
more than the vault beside it has, for any orderly scripts (`OrderlyScripts`: a save of an
answer's revision in the state comes right after that answer's save in the vault, and any other
save changes what the command loaded). Alone, the property says nothing of a command about to
save. `AheadInv` adds, for the one writer, that the rest of its script still loads and saves in
that order, that what it loaded is what the files have now, and that its temporary file has the
revision its next save is for; for the directories in `past`, the property itself is inductive,
since a rename appends one. `StateNeverAhead` shows that the scripts of one account (set,
delete, sync, login again) are orderly. A login as another user is not: its wipe puts the vault
behind the old state on purpose, and `vault_switch_stopped` is a stop at that moment.

**`ItemSecrets_proofs`.** `TypeCorrect`, `VaultsOpen` (`RightPasswordOpens`), `ListsAreReadable`
(`ListedAreReadable`) and `NothingForeign` (`NothingForeignShown`), for any accounts, passwords,
types and devices. The invariant is `Typed /\ ServerSealed /\ DevicesFit`: a live row, wherever
it is (server, vault, answer, a get's copy), has type, nonce, additional data and ciphertext of
one and the same `set` of its owner (`Sealed`). `FilesFit` follows that through an account
switch, in which the state names the old account while the vault is already empty: the vault
fits both the account in the state and the one about to be saved. A get's row need not fit the
present account (`ReadingFits` says some account), because its two loads may lie on both sides
of a switch; that a foreign row does not open is then a matter of keys.

**`AuthGate_proofs`.** `TypeCorrect`, `AccessBounded` (`AccessEndsInTime`), `RefusalsBounded`
(`RefusedOnlyWhenOld`) for any life, deadline and length of a tick; `LoginsStay` under
`Sequential`. The invariant bounds `exp` and `iat` of every token by the moment it was made,
within a second; says of a request behind WithAuth that it passed in its token's life; and of
one without a body that its deadline counts from that moment.

**`ServerLifecycle_proofs`.** `TypeCorrect` and `DrainedByTimeout`: for
any timeout, a stop cuts off no request that was in its handler when Shutdown was called and
whose deadline is below that timeout. `ShortOnesDrain` is its case for more than four seconds,
the largest deadline of the short routes. The invariant: a request inside its service method is
not older than its deadline, a stop that gave up has waited the whole timeout, and one that
did not has nothing in flight.

**`SetCommand_proofs`.** `TypeCorrect`, `NeverTooLarge` (`LimitsAgree`) and `SentAsMeant`
(`SentIsMeant`), for any command line. The first limit is arithmetic: metadata is at most 50
entries of at most 64 and 4096 bytes, each at most six bytes in JSON; base64 of base64 of that
and of the largest argument stays below 3 MB. For `SentIsMeant` the invariant is that after each
pair the map has the last of each name so far (`LastWins`) and `metaLen` is the sum of its
entries (`Meaning`). The sum is a fold over a set, so the lemmas about it (a sum exists and is
unique, `SumAdds` for one entry added or replaced) are proved by a least counterexample instead
of by induction.

**Model-checked only.** `EveryRequestAnswered` (twice), `VaultsConverge` and `SignalEndsIt` are
liveness, out of the prover's reach; the safety half of the first for the item store, and of the
second, are theorems. Every invariant and every action property of a passing run has a theorem.

## 5. Not modelled

- Primitives: bcrypt, Argon2, AES-GCM, JWT signatures, base64 and JSON work.
- What ends before anything happens: parsing of bodies and ids in the handlers (400), the 404
  and 405 of the router, input checks of the client's register and login.
- Printing: what list and get write to the terminal, and the file `get --out` writes.
- Once at start, no state afterwards: configuration, logger, database connection, migrations as
  a process (`StartFails` is their failure), build information.
- Logging middleware and Swagger documents.
- Disks and volumes other than those of section 2, and other writers of the client's files.

## 6. Plan

1. The safety half of `EveryRequestAnswered` for `Accounts`, and of `SignalEndsIt`: who waits for
   whom on the unique index, and what a stop still waits for.
2. `Onboarding`: `Accounts` composed with `ItemStore`, from a registration whose commit fails
   to the item routes.
3. The file of `get --out`, and the checks of the client's register and login.
