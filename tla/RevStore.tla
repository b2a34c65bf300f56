------------------------------ MODULE RevStore -------------------------------
(***************************************************************************)
(* What the item routes promise, without transactions, locks or snapshots: *)
(* a revisioned store on which every request takes effect in one step,     *)
(* between its arrival and its answer.                                     *)
(*                                                                         *)
(*   - a write that takes effect moves the account's revision by one and   *)
(*     stamps its row; it is acknowledged, or reported as failed;          *)
(*   - a request that is reported as failed may also have had no effect;   *)
(*   - a sync answers a revision that is not older than its arrival and    *)
(*     all rows changed after since, as of the moment it is answered.      *)
(***************************************************************************)
EXTENDS ItemRows

VARIABLES currentRev, items, call, phase, reply, asked

vars == <<currentRev, items, call, phase, reply, asked>>

Init ==
    /\ currentRev = [u \in Users |-> 0]
    /\ items = [u \in Users |-> NoRows]
    /\ call = [r \in Reqs |-> NoCall]
    /\ phase = [r \in Reqs |-> "idle"]
    /\ reply = [r \in Reqs |-> NoReply]
    /\ asked = [r \in Reqs |-> 0]

Reply(r, answer) ==
    /\ phase' = [phase EXCEPT ![r] = "done"]
    /\ reply' = [reply EXCEPT ![r] = answer]

Arrive(r) ==
    /\ phase[r] = "idle"
    /\ \E c \in Calls :
        /\ call' = [call EXCEPT ![r] = c]
        /\ asked' = [asked EXCEPT ![r] = currentRev[c.user]]
        /\ IF IsMalformed(c)
           THEN Reply(r, Failure("bad_request"))
           ELSE phase' = [phase EXCEPT ![r] = "pending"] /\ UNCHANGED reply
    /\ UNCHANGED <<currentRev, items>>

(* A write takes effect; its caller may be told that it did not.           *)
Write(r) ==
    LET c == call[r]
        next == currentRev[c.user] + 1
    IN
    /\ phase[r] = "pending"
    /\ IsWrite(c)
    /\ c.user \in Accounts
    /\ c.op = "delete" => items[c.user][c.item] # NoRow
    /\ currentRev' = [currentRev EXCEPT ![c.user] = next]
    /\ items' = [items EXCEPT ![c.user][c.item] = RowWritten(c, r, next)]
    /\ \/ Reply(r, WriteAnswer(c, r, next))
       \/ Reply(r, Failure("failed"))
    /\ UNCHANGED <<call, asked>>

(* The request finds nothing to act on.                                    *)
Miss(r) ==
    LET c == call[r] IN
    /\ phase[r] = "pending"
    /\ \/ c.op \in {"delete", "get"} /\ items[c.user][c.item] = NoRow
          /\ Reply(r, Failure("not_found"))
       \/ c.op = "changes" /\ c.user \notin Accounts /\ Reply(r, Failure("not_found"))
       \/ c.op = "set" /\ c.user \notin Accounts /\ Reply(r, Failure("db_error"))
    /\ UNCHANGED <<currentRev, items, call, asked>>

Read(r) ==
    LET c == call[r]  table == items[c.user] IN
    /\ phase[r] = "pending"
    /\ \/ c.op = "get" /\ table[c.item] # NoRow
          /\ Reply(r, Answer(0, RowsOnly(table, c.item)))
       \/ c.op = "list" /\ Reply(r, Answer(0, table))
    /\ UNCHANGED <<currentRev, items, call, asked>>

Changes(r) ==
    LET c == call[r] IN
    /\ phase[r] = "pending"
    /\ c.op = "changes"
    /\ c.user \in Accounts
    /\ \E latest \in asked[r] .. currentRev[c.user] :
        Reply(r, ChangesAnswer(items[c.user], c.since, latest))
    /\ UNCHANGED <<currentRev, items, call, asked>>

Fail(r) ==
    /\ phase[r] = "pending"
    /\ \E status \in {"failed", "retryable"} : Reply(r, Failure(status))
    /\ UNCHANGED <<currentRev, items, call, asked>>

Next ==
    \E r \in Reqs :
        Arrive(r) \/ Write(r) \/ Miss(r) \/ Read(r) \/ Changes(r) \/ Fail(r)

Spec == Init /\ [][Next]_vars
=============================================================================
