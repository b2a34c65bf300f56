------------------------------ MODULE ItemStore ------------------------------
(***************************************************************************)
(* The server's item routes over PostgreSQL at READ COMMITTED              *)
(* (internal/repository/items_repository.go under the item handlers).      *)
(*                                                                         *)
(* Every request runs in a goroutine of its own.  An action is one SQL     *)
(* statement, or the part of one up to the next row lock it has to wait    *)
(* for.  A transaction's writes stay its own until it commits, so the      *)
(* tables hold committed rows only, and the row locks a transaction holds  *)
(* follow from how far it has come:                                        *)
(*                                                                         *)
(*   SetItem     set_user --users row--> set_item --items row--> commit    *)
(*   DeleteItem  del_item --items row--> del_user --users row--> commit    *)
(*   GetChangesSince   chg_rev --current_rev--> chg_items --rows--> done   *)
(*                                                                         *)
(* The two writers take the two locks in opposite orders.  Readers take no *)
(* lock and see what is committed when their statement starts.             *)
(***************************************************************************)
EXTENDS ItemRows

VARIABLES
    currentRev,  \* users.current_rev, per account
    items,       \* the items table: items[user][item]
    call,        \* call[r]: the request, NoCall before it arrives
    pc,          \* pc[r]: where the handler of r is
    rev,         \* rev[r]: the revision r allocated, or the latestRev it read
    reply,       \* reply[r]: what the repository returned
    asked        \* history: current_rev when r arrived

vars == <<currentRev, items, call, pc, rev, reply, asked>>

Steps == {"idle", "set_user", "set_item", "del_item", "del_user", "commit",
          "read", "chg_rev", "chg_items", "done"}

Init ==
    /\ currentRev = [u \in Users |-> 0]
    /\ items = [u \in Users |-> NoRows]
    /\ call = [r \in Reqs |-> NoCall]
    /\ pc = [r \in Reqs |-> "idle"]
    /\ rev = [r \in Reqs |-> 0]
    /\ reply = [r \in Reqs |-> NoReply]
    /\ asked = [r \in Reqs |-> 0]

FirstStep(op) ==
    IF op = "set" THEN "set_user"
    ELSE IF op = "delete" THEN "del_item"
    ELSE IF op = "changes" THEN "chg_rev"
    ELSE "read"

Active(r) == pc[r] \notin {"idle", "done"}

SameUser(r, q) == call[r].user = call[q].user
SameRow(r, q) == SameUser(r, q) /\ call[r].item = call[q].item

Finish(r, answer) ==
    /\ pc' = [pc EXCEPT ![r] = "done"]
    /\ reply' = [reply EXCEPT ![r] = answer]

-----------------------------------------------------------------------------
(* Row locks, held until the transaction ends.                             *)

HoldsUser(q) == \/ pc[q] = "set_item"
                \/ pc[q] = "commit"

HoldsItem(q) == \/ pc[q] = "del_user"
                \/ pc[q] = "commit"

(* r's next statement has to wait for a lock that q holds.                 *)
WaitsForUser(r, q) ==
    pc[r] \in {"set_user", "del_user"} /\ q # r /\ HoldsUser(q) /\ SameUser(r, q)

WaitsForItem(r, q) ==
    /\ \/ pc[r] = "set_item"
       \/ pc[r] = "del_item" /\ items[call[r].user][call[r].item] # NoRow
    /\ q # r /\ HoldsItem(q) /\ SameRow(r, q)

WaitsFor(r, q) == WaitsForUser(r, q) \/ WaitsForItem(r, q)

Blocked(r) == \E q \in Reqs : WaitsFor(r, q)

(* r is on a cycle of the waits-for graph.  A row lock has one holder, so  *)
(* everyone waits for at most one other and a set in which everybody waits *)
(* for a member and is waited for by a member is made of cycles.           *)
Deadlocked(r) ==
    \E S \in SUBSET Reqs :
        /\ r \in S
        /\ \A a \in S : \E b \in S : WaitsFor(a, b)
        /\ \A b \in S : \E a \in S : WaitsFor(a, b)

-----------------------------------------------------------------------------
(* Arrival: past the middleware, the handler has a user id and an item id. *)

Arrive(r) ==
    /\ pc[r] = "idle"
    /\ \E c \in Calls :
        /\ ~ IsMalformed(c)
        /\ call' = [call EXCEPT ![r] = c]
        /\ asked' = [asked EXCEPT ![r] = currentRev[c.user]]
        /\ pc' = [pc EXCEPT ![r] = FirstStep(c.op)]
    /\ UNCHANGED <<currentRev, items, rev, reply>>

(* A negative since is refused before the repository is called.            *)
Refuse(r) ==
    /\ pc[r] = "idle"
    /\ \E c \in Calls :
        /\ IsMalformed(c)
        /\ call' = [call EXCEPT ![r] = c]
        /\ asked' = [asked EXCEPT ![r] = currentRev[c.user]]
    /\ Finish(r, Failure("bad_request"))
    /\ UNCHANGED <<currentRev, items, rev>>

-----------------------------------------------------------------------------
(* SetItem: one statement, its own transaction.                            *)

(* Fault: the revision is read and written without the row lock.           *)
SetTakeRev_NoLock(r) ==
    /\ pc[r] = "set_user"
    /\ call[r].user \in Accounts
    /\ rev' = [rev EXCEPT ![r] = currentRev[call[r].user] + 1]
    /\ pc' = [pc EXCEPT ![r] = "set_item"]
    /\ UNCHANGED <<currentRev, items, call, reply, asked>>

(* Fault: the counter is moved in a transaction of its own.                *)
SetTakeRev_CounterFirst(r) ==
    /\ pc[r] = "set_user"
    /\ call[r].user \in Accounts
    /\ ~ Blocked(r)
    /\ rev' = [rev EXCEPT ![r] = currentRev[call[r].user] + 1]
    /\ currentRev' = [currentRev EXCEPT ![call[r].user] = @ + 1]
    /\ pc' = [pc EXCEPT ![r] = "set_item"]
    /\ UNCHANGED <<items, call, reply, asked>>

(* next_rev: UPDATE users SET current_rev = current_rev + 1.  A statement  *)
(* that waited for the row goes on from its newest committed version.      *)
SetTakeRev(r) ==
    /\ pc[r] = "set_user"
    /\ call[r].user \in Accounts
    /\ ~ Blocked(r)
    /\ rev' = [rev EXCEPT ![r] = currentRev[call[r].user] + 1]
    /\ pc' = [pc EXCEPT ![r] = "set_item"]
    /\ UNCHANGED <<currentRev, items, call, reply, asked>>

(* Without a users row next_rev is empty, updated_rev is NULL and the      *)
(* NOT NULL constraint fails: checkErr makes that ErrDB.                   *)
SetNoUser(r) ==
    /\ pc[r] = "set_user"
    /\ call[r].user \notin Accounts
    /\ Finish(r, Failure("db_error"))
    /\ UNCHANGED <<currentRev, items, call, rev, asked>>

(* Fault: the counter is moved once more after the row, as DeleteItem does *)
(* it, by a transaction that has given the users row back.                 *)
SetUpsert_BumpAgain(r) ==
    /\ pc[r] = "set_item"
    /\ ~ Blocked(r)
    /\ pc' = [pc EXCEPT ![r] = "del_user"]
    /\ UNCHANGED <<currentRev, items, call, rev, reply, asked>>

(* INSERT ... ON CONFLICT (user_id, id) DO UPDATE.                         *)
SetUpsert(r) ==
    /\ pc[r] = "set_item"
    /\ ~ Blocked(r)
    /\ pc' = [pc EXCEPT ![r] = "commit"]
    /\ UNCHANGED <<currentRev, items, call, rev, reply, asked>>

-----------------------------------------------------------------------------
(* DeleteItem: a transaction of four statements.                           *)

(* Fault: the mark is written outside the transaction.                     *)
DelMark_Autocommit(r) ==
    LET c == call[r] IN
    /\ pc[r] = "del_item"
    /\ items[c.user][c.item] # NoRow
    /\ ~ Blocked(r)
    /\ items' = [items EXCEPT ![c.user][c.item] = TombRow(@.rev)]
    /\ pc' = [pc EXCEPT ![r] = "del_user"]
    /\ UNCHANGED <<currentRev, call, rev, reply, asked>>

(* deleteItemQuery: the row must be there (a tombstone is there too).      *)
DelMark(r) ==
    /\ pc[r] = "del_item"
    /\ items[call[r].user][call[r].item] # NoRow
    /\ ~ Blocked(r)
    /\ pc' = [pc EXCEPT ![r] = "del_user"]
    /\ UNCHANGED <<currentRev, items, call, rev, reply, asked>>

(* No committed row, so nothing to wait for: ErrNotFound and rollback.     *)
DelNotFound(r) ==
    /\ pc[r] = "del_item"
    /\ items[call[r].user][call[r].item] = NoRow
    /\ Finish(r, Failure("not_found"))
    /\ UNCHANGED <<currentRev, items, call, rev, asked>>

(* Fault: the revision is taken from a plain SELECT.                       *)
DelBump_NoLock(r) ==
    /\ pc[r] = "del_user"
    /\ rev' = [rev EXCEPT ![r] = currentRev[call[r].user] + 1]
    /\ pc' = [pc EXCEPT ![r] = "commit"]
    /\ UNCHANGED <<currentRev, items, call, reply, asked>>

(* updateUserRevQuery, then updateItemRevQuery and getItemQuery, which     *)
(* touch only rows this transaction has locked.                            *)
DelBump(r) ==
    /\ pc[r] = "del_user"
    /\ ~ Blocked(r)
    /\ rev' = [rev EXCEPT ![r] = currentRev[call[r].user] + 1]
    /\ pc' = [pc EXCEPT ![r] = "commit"]
    /\ UNCHANGED <<currentRev, items, call, reply, asked>>

-----------------------------------------------------------------------------
(* The end of a write.                                                     *)

(* Fault: ON CONFLICT (id), the primary key of the first migration.        *)
Apply_KeyedById(r) ==
    LET c == call[r] IN
    /\ currentRev' = [currentRev EXCEPT ![c.user] = rev[r]]
    /\ items' = [u \in Users |->
                    IF u = c.user \/ items[u][c.item] # NoRow
                    THEN [items[u] EXCEPT ![c.item] = RowWritten(c, r, rev[r])]
                    ELSE items[u]]

Apply(r) ==
    LET c == call[r] IN
    /\ currentRev' = [currentRev EXCEPT ![c.user] = rev[r]]
    /\ items' = [items EXCEPT ![c.user][c.item] = RowWritten(c, r, rev[r])]

Commit(r) ==
    /\ pc[r] = "commit"
    /\ Apply(r)
    /\ Finish(r, WriteAnswer(call[r], r, rev[r]))
    /\ UNCHANGED <<call, rev, asked>>

(* The commit takes effect, its acknowledgement is lost or comes after the *)
(* deadline: the caller is told that the write failed.                     *)
CommitUnheard(r) ==
    /\ pc[r] = "commit"
    /\ Apply(r)
    /\ Finish(r, Failure("failed"))
    /\ UNCHANGED <<call, rev, asked>>

-----------------------------------------------------------------------------
(* Reads.                                                                  *)

ReadOne(r) ==
    LET c == call[r]  table == items[c.user] IN
    /\ pc[r] = "read"
    /\ c.op = "get"
    /\ Finish(r, IF table[c.item] = NoRow
                 THEN Failure("not_found")
                 ELSE Answer(0, RowsOnly(table, c.item)))
    /\ UNCHANGED <<currentRev, items, call, rev, asked>>

ReadAll(r) ==
    /\ pc[r] = "read"
    /\ call[r].op = "list"
    /\ Finish(r, Answer(0, items[call[r].user]))
    /\ UNCHANGED <<currentRev, items, call, rev, asked>>

(* GetChangesSince, first statement: nothing newer than since.             *)
ChgNothingNew(r) ==
    LET c == call[r] IN
    /\ pc[r] = "chg_rev"
    /\ c.user \in Accounts
    /\ currentRev[c.user] = 0 \/ c.since >= currentRev[c.user]
    /\ rev' = [rev EXCEPT ![r] = currentRev[c.user]]
    /\ Finish(r, Answer(currentRev[c.user], NoRows))
    /\ UNCHANGED <<currentRev, items, call, asked>>

(* Fault: changes are paged, one revision per answer.                      *)
ChgRev_OnePage(r) ==
    /\ pc[r] = "chg_rev"
    /\ call[r].user \in Accounts
    /\ call[r].since < currentRev[call[r].user]
    /\ rev' = [rev EXCEPT ![r] = call[r].since + 1]
    /\ pc' = [pc EXCEPT ![r] = "chg_items"]
    /\ UNCHANGED <<currentRev, items, call, reply, asked>>

(* First statement, something to fetch: latestRev is kept for the answer.  *)
ChgRev(r) ==
    LET c == call[r] IN
    /\ pc[r] = "chg_rev"
    /\ c.user \in Accounts
    /\ currentRev[c.user] # 0 /\ c.since < currentRev[c.user]
    /\ rev' = [rev EXCEPT ![r] = currentRev[c.user]]
    /\ pc' = [pc EXCEPT ![r] = "chg_items"]
    /\ UNCHANGED <<currentRev, items, call, reply, asked>>

(* Fault: a missing user is taken for one without changes.                 *)
ChgNoUser_Empty(r) ==
    /\ pc[r] = "chg_rev"
    /\ call[r].user \notin Accounts
    /\ Finish(r, Answer(0, NoRows))
    /\ UNCHANGED <<currentRev, items, call, rev, asked>>

(* No users row: sql.ErrNoRows becomes ErrNotFound.                        *)
ChgNoUser(r) ==
    /\ pc[r] = "chg_rev"
    /\ call[r].user \notin Accounts
    /\ Finish(r, Failure("not_found"))
    /\ UNCHANGED <<currentRev, items, call, rev, asked>>

(* Second statement, on a newer snapshot: writes committed since the first *)
(* one are in it, with revisions above latestRev.                          *)
ChgItems(r) ==
    LET c == call[r] IN
    /\ pc[r] = "chg_items"
    /\ Finish(r, Answer(rev[r], RowsSince(items[c.user], c.since)))
    /\ UNCHANGED <<currentRev, items, call, rev, asked>>

-----------------------------------------------------------------------------
(* Failures.                                                               *)

(* The request's deadline, a lost connection or a server crash before the  *)
(* commit: the transaction is rolled back and its locks are released.      *)
Abort(r) ==
    /\ Active(r)
    /\ Finish(r, Failure("failed"))
    /\ UNCHANGED <<currentRev, items, call, rev, asked>>

(* Fault: the error is dropped and the row that was rolled back returned.  *)
DeadlockVictim_Swallowed(r) ==
    /\ Deadlocked(r)
    /\ Finish(r, WriteAnswer(call[r], r, rev[r]))
    /\ UNCHANGED <<currentRev, items, call, rev, asked>>

(* Fault: the victim starts over at once, as often as it takes.            *)
DeadlockVictim_Retries(r) ==
    /\ Deadlocked(r)
    /\ pc' = [pc EXCEPT ![r] = FirstStep(call[r].op)]
    /\ UNCHANGED <<currentRev, items, call, rev, reply, asked>>

(* PostgreSQL's deadlock detector rolls one transaction of a cycle back;   *)
(* checkErr calls that ErrRetryableDB, and nobody retries.                 *)
DeadlockVictim(r) ==
    /\ Deadlocked(r)
    /\ Finish(r, Failure("retryable"))
    /\ UNCHANGED <<currentRev, items, call, rev, asked>>

-----------------------------------------------------------------------------

(* The steps a request takes by itself when nothing fails.                 *)
Progress(r) ==
    \/ SetTakeRev(r) \/ SetNoUser(r) \/ SetUpsert(r)
    \/ DelMark(r) \/ DelNotFound(r) \/ DelBump(r)
    \/ Commit(r)
    \/ ReadOne(r) \/ ReadAll(r)
    \/ ChgNothingNew(r) \/ ChgRev(r) \/ ChgNoUser(r) \/ ChgItems(r)
    \/ DeadlockVictim(r)

Next ==
    \E r \in Reqs :
        Arrive(r) \/ Refuse(r) \/ Progress(r) \/ CommitUnheard(r) \/ Abort(r)

Spec == Init /\ [][Next]_vars

(* A request that has arrived keeps being scheduled, and the deadlock      *)
(* detector runs.  No request has to arrive and nothing has to fail.       *)
FairSpec == Spec /\ \A r \in Reqs : WF_vars(Progress(r))

-----------------------------------------------------------------------------

(* What the routes promise: RevStore, where every request takes effect in  *)
(* one step.                                                               *)
Phase == [r \in Reqs |-> IF Active(r) THEN "pending" ELSE pc[r]]

Atomic == INSTANCE RevStore WITH phase <- Phase

(* The item routes implement RevStore: with all the interleavings, lock    *)
(* waits, rollbacks and split reads of the code, every request looks as if *)
(* it had run alone at one moment between its arrival and its answer.      *)
ImplementsRevStore == Atomic!Spec

-----------------------------------------------------------------------------

TypeOK ==
    /\ currentRev \in [Users -> Nat]
    /\ items \in [Users -> [Items -> Rows]]
    /\ call \in [Reqs -> AllCalls \cup {NoCall}]
    /\ pc \in [Reqs -> Steps]
    /\ rev \in [Reqs -> Nat]
    /\ reply \in [Reqs -> Replies]
    /\ asked \in [Reqs -> Nat]

Succeeded(r) == pc[r] = "done" /\ reply[r].status = "ok"

(* No two items of a user carry the same revision, none carries one above  *)
(* current_rev, and current_rev itself is some row's revision: writers     *)
(* racing for the counter never share, skip or leak a revision.            *)
RevsAreALine ==
    \A u \in Users :
        /\ \A i \in Items : items[u][i].rev =< currentRev[u]
        /\ \A i, j \in Items :
            i # j /\ items[u][i].rev > 0 => items[u][i].rev # items[u][j].rev
        /\ currentRev[u] > 0 => \E i \in Items : items[u][i].rev = currentRev[u]

(* GetChangesSince answers (rows, latestRev) from two snapshots, and a     *)
(* client will never again ask for what lies at or below latestRev.  So    *)
(* every row whose revision is in (since, latestRev] has to be in the      *)
(* answer as it is, whatever committed between the two statements; a row   *)
(* that is not there any more has moved above latestRev.                   *)
ChangesComplete ==
    \A r \in Reqs :
        Succeeded(r) /\ call[r].op = "changes" =>
            \A i \in Items :
                LET row == items[call[r].user][i] IN
                row.rev > call[r].since /\ row.rev =< reply[r].latest =>
                    reply[r].rows[i] = row

(* A sync that starts after a write was acknowledged covers that write:    *)
(* its latestRev is not below current_rev at its arrival.                  *)
SyncSeesThePast ==
    \A r \in Reqs :
        Succeeded(r) /\ call[r].op = "changes" => reply[r].latest >= asked[r]

(* An acknowledged write is in the table or was overwritten by a later     *)
(* revision; it never disappears and never comes back under a wrong        *)
(* revision, through deadlock victims, aborts and lost acknowledgements.   *)
AcknowledgedWritesStay ==
    \A r \in Reqs :
        Succeeded(r) /\ IsWrite(call[r]) =>
            LET row == items[call[r].user][call[r].item] IN
            \/ row.rev > reply[r].latest
            \/ row = reply[r].rows[call[r].item]

(* An answer holds rows of the asking user only: with (user_id, id) as key *)
(* two users may use one item id, and neither ever reads or overwrites the *)
(* other's payload.                                                        *)
OwnRowsOnly ==
    \A r \in Reqs, i \in Items :
        LET writer == reply[r].rows[i].body IN
        writer # NoBody => call[writer].user = call[r].user

(* The only deadlocks are one SetItem against one DeleteItem of the same   *)
(* row, each waiting for the other: the set has the users row, the delete  *)
(* the items row.  Rolling either back lets the other go on.               *)
DeadlocksAreSetAgainstDelete ==
    \A r \in Reqs :
        Deadlocked(r) =>
            \E q \in Reqs :
                /\ SameRow(r, q)
                /\ {pc[r], pc[q]} = {"set_item", "del_user"}
                /\ {call[r].op, call[q].op} = {"set", "delete"}
                /\ WaitsFor(r, q) /\ WaitsFor(q, r)

(* Every commit moves current_rev by exactly one and stamps exactly one    *)
(* row with it; nothing else touches the tables.                           *)
CommitsInRevisionOrder ==
    [][\A u \in Users :
        \/ currentRev'[u] = currentRev[u] /\ items'[u] = items[u]
        \/ /\ currentRev'[u] = currentRev[u] + 1
           /\ \E i \in Items :
                /\ items'[u][i].rev = currentRev'[u]
                /\ \A j \in Items \ {i} : items'[u][j] = items[u][j]]_vars

(* Whatever its operation and whoever it meets on its way, a request that  *)
(* arrived is answered: no lock wait lasts forever.                        *)
EveryRequestAnswered == \A r \in Reqs : Active(r) ~> pc[r] = "done"
=============================================================================
