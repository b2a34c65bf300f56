------------------------------ MODULE ItemRows ------------------------------
(***************************************************************************)
(* The vocabulary the item store's specifications share: the rows of the   *)
(* items table, the requests the item handlers accept and the answers they *)
(* give.  No state.                                                        *)
(*                                                                         *)
(* The payload of a row (type, ciphertext, nonce, aad) is abstracted to    *)
(* the request that wrote it: every request carries a payload of its own,  *)
(* so a row tells which write it came from, which is the most a property   *)
(* can ask of an opaque blob.                                              *)
(***************************************************************************)
EXTENDS Integers

CONSTANTS
    Users,      \* user ids a valid token may name
    Accounts,   \* the user ids that have a row in the users table
    Items,      \* item ids
    Reqs,       \* requests, each used once
    Ops,        \* the operations enumerated: a subset of AllOps
    Sinces,     \* the values of the since parameter enumerated
    NoItem,     \* the item of a request that names none
    NoBody      \* the payload of a row that has none

AllOps == {"set", "delete", "get", "list", "changes"}

ASSUME AccountsAssumption == Accounts \subseteq Users
ASSUME OpsAssumption == Ops \subseteq AllOps
ASSUME SincesAssumption == Sinces \subseteq Int
ASSUME NoItemAssumption == NoItem \notin Items
ASSUME NoBodyAssumption == NoBody \notin Reqs

-----------------------------------------------------------------------------
(* Rows.  A row's revision is updated_rev; 0 stands for "no such row".     *)

Rows == [rev : Nat, deleted : BOOLEAN, body : Reqs \cup {NoBody}]

NoRow == [rev |-> 0, deleted |-> FALSE, body |-> NoBody]
NoRows == [i \in Items |-> NoRow]

LiveRow(k, r) == [rev |-> k, deleted |-> FALSE, body |-> r]

(* deleteItemQuery keeps the row, clears the payload and marks it.         *)
TombRow(k) == [rev |-> k, deleted |-> TRUE, body |-> NoBody]

(* The rows of one user's table with a revision above since.               *)
RowsSince(table, since) ==
    [i \in Items |-> IF table[i].rev > since THEN table[i] ELSE NoRow]

RowsOnly(table, i) == [j \in Items |-> IF j = i THEN table[i] ELSE NoRow]

-----------------------------------------------------------------------------
(* Requests.                                                               *)

AllCalls == [op : AllOps, user : Users, item : Items \cup {NoItem}, since : Int]

NoCall == [op |-> "none", user |-> "none", item |-> NoItem, since |-> 0]

(* What the handlers pass on: an item id for the item routes, a revision   *)
(* for the sync route.                                                     *)
Calls ==
    [op : Ops \cap {"set", "delete", "get"}, user : Users, item : Items, since : {0}]
        \cup [op : Ops \cap {"list"}, user : Users, item : {NoItem}, since : {0}]
        \cup [op : Ops \cap {"changes"}, user : Users, item : {NoItem}, since : Sinces]

IsWrite(c) == c.op \in {"set", "delete"}

(* "since rev can't be negative"                                           *)
IsMalformed(c) == c.op = "changes" /\ c.since < 0

(* The row that request r leaves behind at revision k.                     *)
RowWritten(c, r, k) == IF c.op = "set" THEN LiveRow(k, r) ELSE TombRow(k)

-----------------------------------------------------------------------------
(* Answers: the error of the repository layer, or the rows and revision.   *)

Statuses == {"none", "ok", "bad_request", "not_found", "db_error",
             "user_missing", "retryable", "failed"}

Replies == [status : Statuses, latest : Nat, rows : [Items -> Rows]]

(* Fault: an error carries -1 for the revision.                            *)
Failure_MinusOne(status) == [status |-> status, latest |-> -1, rows |-> NoRows]

NoReply == [status |-> "none", latest |-> 0, rows |-> NoRows]
Failure(status) == [status |-> status, latest |-> 0, rows |-> NoRows]
Answer(latest, rows) == [status |-> "ok", latest |-> latest, rows |-> rows]

(* A write answers with the row it stored, at the revision it allocated.   *)
WriteAnswer(c, r, k) ==
    Answer(k, [NoRows EXCEPT ![c.item] = RowWritten(c, r, k)])

(* What a sync answers once it knows the latest revision.                  *)
ChangesAnswer(table, since, latest) ==
    Answer(latest, IF since >= latest THEN NoRows ELSE RowsSince(table, since))
=============================================================================
