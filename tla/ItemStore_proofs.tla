-------------------------- MODULE ItemStore_proofs ---------------------------
(***************************************************************************)
(* Theorems about ItemStore, for every set of users, items and requests.   *)
(***************************************************************************)
EXTENDS ItemStore, TLAPS

-----------------------------------------------------------------------------
(* The vocabulary is well typed.                                           *)

(* The rows the statements write are rows.                                 *)
LEMMA RowTypes ==
    /\ NoRow \in Rows
    /\ NoRows \in [Items -> Rows]
    /\ \A k \in Nat : TombRow(k) \in Rows
    /\ \A k \in Nat, r \in Reqs : LiveRow(k, r) \in Rows
BY DEF Rows, NoRow, NoRows, TombRow, LiveRow

LEMMA RowWrittenType ==
    ASSUME NEW c, NEW r \in Reqs, NEW k \in Nat
    PROVE  RowWritten(c, r, k) \in Rows
BY RowTypes DEF RowWritten

(* What a handler passes on names a user, and an item if it needs one.     *)
LEMMA CallFacts ==
    ASSUME NEW c \in Calls
    PROVE  /\ c \in AllCalls
           /\ c.user \in Users
           /\ c.op \in AllOps
           /\ c.since \in Int
           /\ c.op \in {"set", "delete", "get"} => c.item \in Items
<1>1. CASE c \in [op : Ops \cap {"set", "delete", "get"}, user : Users,
                  item : Items, since : {0}]
  BY <1>1, OpsAssumption DEF AllCalls
<1>2. CASE c \in [op : Ops \cap {"list"}, user : Users, item : {NoItem}, since : {0}]
  BY <1>2, OpsAssumption DEF AllCalls
<1>3. CASE c \in [op : Ops \cap {"changes"}, user : Users, item : {NoItem},
                  since : Sinces]
  BY <1>3, OpsAssumption, SincesAssumption DEF AllCalls
<1> QED BY <1>1, <1>2, <1>3 DEF Calls

(* The answers are answers.                                                *)
LEMMA ReplyTypes ==
    /\ NoReply \in Replies
    /\ \A status \in Statuses : Failure(status) \in Replies
    /\ \A k \in Nat, rows \in [Items -> Rows] : Answer(k, rows) \in Replies
    /\ \A table \in [Items -> Rows], since \in Int : RowsSince(table, since) \in [Items -> Rows]
    /\ \A table \in [Items -> Rows], i \in Items : RowsOnly(table, i) \in [Items -> Rows]
<1>1. NoReply \in Replies /\ \A status \in Statuses : Failure(status) \in Replies
  BY RowTypes DEF NoReply, Replies, Statuses, Failure
<1>2. \A k \in Nat, rows \in [Items -> Rows] : Answer(k, rows) \in Replies
  BY DEF Answer, Replies, Statuses
<1>3. \A table \in [Items -> Rows], since \in Int : RowsSince(table, since) \in [Items -> Rows]
  BY RowTypes DEF RowsSince
<1>4. \A table \in [Items -> Rows], i \in Items : RowsOnly(table, i) \in [Items -> Rows]
  BY RowTypes DEF RowsOnly
<1> QED BY <1>1, <1>2, <1>3, <1>4

(* A write's answer holds the row it wrote, and nothing else.              *)
LEMMA WriteAnswerFacts ==
    ASSUME NEW c, c.item \in Items, NEW r \in Reqs, NEW k \in Nat
    PROVE  /\ WriteAnswer(c, r, k) \in Replies
           /\ WriteAnswer(c, r, k).latest = k
           /\ WriteAnswer(c, r, k).status = "ok"
           /\ WriteAnswer(c, r, k).rows[c.item] = RowWritten(c, r, k)
<1>0. NoRows \in [Items -> Rows] /\ RowWritten(c, r, k) \in Rows
  BY RowTypes, RowWrittenType
<1>1. [NoRows EXCEPT ![c.item] = RowWritten(c, r, k)] \in [Items -> Rows]
  BY <1>0
<1>2. [NoRows EXCEPT ![c.item] = RowWritten(c, r, k)][c.item] = RowWritten(c, r, k)
  BY <1>0
<1> QED BY <1>1, <1>2, ReplyTypes DEF WriteAnswer, Answer

-----------------------------------------------------------------------------
(* Typing.                                                                 *)

(* The request a handler works on fits the place it has reached.           *)
CallsFit ==
    \A r \in Reqs : pc[r] # "idle" =>
        /\ call[r] \in Calls
        /\ pc[r] \in {"set_user", "set_item"} => call[r].op = "set"
        /\ pc[r] \in {"del_item", "del_user"} => call[r].op = "delete"
        /\ pc[r] = "commit" => call[r].op \in {"set", "delete"}
        /\ pc[r] \in {"chg_rev", "chg_items"} => call[r].op = "changes" /\ call[r].since >= 0

Typed == TypeOK /\ CallsFit

LEMMA TypedInit == Init => Typed
BY RowTypes, ReplyTypes DEF Init, Typed, TypeOK, CallsFit, Steps

(* Ending a request keeps the types.                                       *)
LEMMA TypedFinish ==
    ASSUME Typed, NEW r \in Reqs, NEW answer \in Replies, pc[r] # "idle",
           Finish(r, answer),
           UNCHANGED <<call, asked>>,
           currentRev' \in [Users -> Nat],
           items' \in [Users -> [Items -> Rows]],
           rev' \in [Reqs -> Nat]
    PROVE  Typed'
BY DEF Typed, TypeOK, CallsFit, Finish, Steps

(* So does moving it on to a step that fits its request.                   *)
LEMMA TypedAdvance ==
    ASSUME Typed, NEW r \in Reqs, pc[r] # "idle", NEW s \in Steps \ {"idle"},
           pc' = [pc EXCEPT ![r] = s],
           s \in {"set_user", "set_item"} => call[r].op = "set",
           s \in {"del_item", "del_user"} => call[r].op = "delete",
           s = "commit" => call[r].op \in {"set", "delete"},
           s \in {"chg_rev", "chg_items"} => call[r].op = "changes" /\ call[r].since >= 0,
           UNCHANGED <<currentRev, items, call, reply, asked>>,
           rev' \in [Reqs -> Nat]
    PROVE  Typed'
BY DEF Typed, TypeOK, CallsFit

(* What is known of a request that has arrived.                            *)
LEMMA ArrivedFacts ==
    ASSUME Typed, NEW r \in Reqs, pc[r] # "idle"
    PROVE  /\ call[r] \in Calls
           /\ call[r].user \in Users
           /\ call[r].since \in Int
           /\ call[r].op \in {"set", "delete", "get"} => call[r].item \in Items
           /\ currentRev[call[r].user] \in Nat
           /\ items[call[r].user] \in [Items -> Rows]
           /\ rev[r] \in Nat
BY CallFacts DEF Typed, TypeOK, CallsFit

(* A commit writes a revision and a row.                                   *)
LEMMA TypedApply ==
    ASSUME Typed, NEW r \in Reqs, pc[r] = "commit", Apply(r)
    PROVE  /\ currentRev' \in [Users -> Nat]
           /\ items' \in [Users -> [Items -> Rows]]
<1>1. call[r].user \in Users /\ call[r].item \in Items /\ rev[r] \in Nat
  BY ArrivedFacts DEF Typed, CallsFit
<1>2. RowWritten(call[r], r, rev[r]) \in Rows
  BY <1>1, RowWrittenType
<1> QED BY <1>1, <1>2 DEF Apply, Typed, TypeOK

LEMMA TypedNext == Typed /\ [Next]_vars => Typed'
<1> SUFFICES ASSUME Typed, [Next]_vars PROVE Typed'
  OBVIOUS
<1> USE DEF Typed, TypeOK
<1>a. ASSUME NEW r \in Reqs, Arrive(r) PROVE Typed'
  <2>1. PICK c \in Calls :
          /\ ~ IsMalformed(c)
          /\ call' = [call EXCEPT ![r] = c]
          /\ asked' = [asked EXCEPT ![r] = currentRev[c.user]]
          /\ pc' = [pc EXCEPT ![r] = FirstStep(c.op)]
    BY <1>a DEF Arrive
  <2>2. c \in AllCalls /\ c.user \in Users /\ c.op \in AllOps /\ c.since \in Int
    BY CallFacts
  <2>3. /\ FirstStep(c.op) \in {"set_user", "del_item", "chg_rev", "read"}
        /\ FirstStep(c.op) = "set_user" => c.op = "set"
        /\ FirstStep(c.op) = "del_item" => c.op = "delete"
        /\ FirstStep(c.op) = "chg_rev" => c.op = "changes" /\ c.since >= 0
    BY <2>1, <2>2 DEF FirstStep, AllOps, IsMalformed
  <2>4. TypeOK'
    BY <1>a, <2>1, <2>2, <2>3 DEF Arrive, Steps
  <2>5. CallsFit'
    BY <2>1, <2>3 DEF CallsFit
  <2> QED BY <2>4, <2>5
<1>b. ASSUME NEW r \in Reqs, Refuse(r) PROVE Typed'
  <2>1. PICK c \in Calls :
          /\ call' = [call EXCEPT ![r] = c]
          /\ asked' = [asked EXCEPT ![r] = currentRev[c.user]]
    BY <1>b DEF Refuse
  <2>2. c \in AllCalls /\ c.user \in Users
    BY CallFacts
  <2>3. Failure("bad_request") \in Replies
    BY ReplyTypes DEF Statuses
  <2> QED BY <1>b, <2>1, <2>2, <2>3 DEF Refuse, Finish, CallsFit, Steps
<1>c. ASSUME NEW r \in Reqs, SetTakeRev(r) PROVE Typed'
  <2>1. pc[r] = "set_user" /\ currentRev[call[r].user] \in Nat
    BY <1>c, ArrivedFacts DEF SetTakeRev
  <2>2. call[r].op = "set"
    BY <2>1 DEF CallsFit
  <2>3. rev' \in [Reqs -> Nat]
    BY <1>c, <2>1 DEF SetTakeRev
  <2> QED BY <1>c, <2>1, <2>2, <2>3, TypedAdvance DEF SetTakeRev, Steps
<1>d. ASSUME NEW r \in Reqs, SetUpsert(r) PROVE Typed'
  <2>1. pc[r] = "set_item" /\ call[r].op = "set"
    BY <1>d DEF SetUpsert, CallsFit
  <2> QED BY <1>d, <2>1, TypedAdvance DEF SetUpsert, Steps
<1>e. ASSUME NEW r \in Reqs, DelMark(r) PROVE Typed'
  <2>1. pc[r] = "del_item" /\ call[r].op = "delete"
    BY <1>e DEF DelMark, CallsFit
  <2> QED BY <1>e, <2>1, TypedAdvance DEF DelMark, Steps
<1>f. ASSUME NEW r \in Reqs, DelBump(r) PROVE Typed'
  <2>1. pc[r] = "del_user" /\ currentRev[call[r].user] \in Nat
    BY <1>f, ArrivedFacts DEF DelBump
  <2>2. call[r].op = "delete"
    BY <2>1 DEF CallsFit
  <2>3. rev' \in [Reqs -> Nat]
    BY <1>f, <2>1 DEF DelBump
  <2> QED BY <1>f, <2>1, <2>2, <2>3, TypedAdvance DEF DelBump, Steps
<1>g. ASSUME NEW r \in Reqs, ChgRev(r) PROVE Typed'
  <2>1. pc[r] = "chg_rev" /\ currentRev[call[r].user] \in Nat
    BY <1>g, ArrivedFacts DEF ChgRev
  <2>2. call[r].op = "changes" /\ call[r].since >= 0
    BY <2>1 DEF CallsFit
  <2> QED BY <1>g, <2>1, <2>2, TypedAdvance DEF ChgRev, Steps
<1>h. ASSUME NEW r \in Reqs, Commit(r) \/ CommitUnheard(r) PROVE Typed'
  <2>1. pc[r] = "commit" /\ Apply(r)
    BY <1>h DEF Commit, CommitUnheard
  <2>2. call[r].item \in Items /\ rev[r] \in Nat
    BY <2>1, ArrivedFacts DEF CallsFit
  <2>3. WriteAnswer(call[r], r, rev[r]) \in Replies /\ Failure("failed") \in Replies
    BY <2>2, WriteAnswerFacts, ReplyTypes DEF Statuses
  <2> QED BY <1>h, <2>1, <2>3, TypedApply, TypedFinish DEF Commit, CommitUnheard
<1>i. ASSUME NEW r \in Reqs,
             SetNoUser(r) \/ DelNotFound(r) \/ ChgNoUser(r) \/ Abort(r) \/ DeadlockVictim(r)
      PROVE Typed'
  <2>1. pc[r] # "idle"
    <3>1. DeadlockVictim(r) => pc[r] # "idle"
      BY DEF DeadlockVictim, Deadlocked, WaitsFor, WaitsForUser, WaitsForItem
    <3> QED BY <1>i, <3>1 DEF SetNoUser, DelNotFound, ChgNoUser, Abort, Active
  <2>2. \A status \in Statuses : Failure(status) \in Replies
    BY ReplyTypes
  <2>3. PICK status \in Statuses : Finish(r, Failure(status))
    BY <1>i DEF SetNoUser, DelNotFound, ChgNoUser, Abort, DeadlockVictim, Statuses
  <2>4. UNCHANGED <<currentRev, items, call, rev, asked>>
    BY <1>i DEF SetNoUser, DelNotFound, ChgNoUser, Abort, DeadlockVictim
  <2> QED BY <2>1, <2>2, <2>3, <2>4, TypedFinish
<1>j. ASSUME NEW r \in Reqs, ReadOne(r) \/ ReadAll(r) \/ ChgNothingNew(r) \/ ChgItems(r)
      PROVE Typed'
  <2>1. pc[r] # "idle"
    BY <1>j DEF ReadOne, ReadAll, ChgNothingNew, ChgItems
  <2>2. /\ call[r].since \in Int
        /\ call[r].op = "get" => call[r].item \in Items
        /\ currentRev[call[r].user] \in Nat
        /\ items[call[r].user] \in [Items -> Rows]
        /\ rev[r] \in Nat
    BY <2>1, ArrivedFacts
  <2>3. PICK answer \in Replies : Finish(r, answer)
    <3>1. CASE ReadOne(r)
      <4>1. Failure("not_found") \in Replies
        BY ReplyTypes DEF Statuses
      <4>2. Answer(0, RowsOnly(items[call[r].user], call[r].item)) \in Replies
        BY <3>1, <2>2, ReplyTypes DEF ReadOne
      <4> QED BY <3>1, <4>1, <4>2 DEF ReadOne
    <3>2. CASE ReadAll(r)
      BY <3>2, <2>2, ReplyTypes DEF ReadAll
    <3>3. CASE ChgNothingNew(r)
      BY <3>3, <2>2, ReplyTypes, RowTypes DEF ChgNothingNew
    <3>4. CASE ChgItems(r)
      BY <3>4, <2>2, ReplyTypes DEF ChgItems
    <3> QED BY <1>j, <3>1, <3>2, <3>3, <3>4
  <2>4. UNCHANGED <<currentRev, items, call, asked>> /\ rev' \in [Reqs -> Nat]
    BY <1>j, <2>2 DEF ReadOne, ReadAll, ChgNothingNew, ChgItems
  <2> QED BY <2>1, <2>3, <2>4, TypedFinish
<1>k. CASE UNCHANGED vars
  BY <1>k DEF vars, CallsFit
<1> QED
  BY <1>a, <1>b, <1>c, <1>d, <1>e, <1>f, <1>g, <1>h, <1>i, <1>j, <1>k DEF Next, Progress

(* Every reachable state is typed, and no handler is ever at a step that   *)
(* does not belong to its request.                                         *)
THEOREM TypeCorrect == Spec => []TypeOK
<1>1. Init => Typed
  BY TypedInit
<1>2. Typed /\ [Next]_vars => Typed'
  BY TypedNext
<1> QED BY <1>1, <1>2, PTL DEF Spec, Typed

-----------------------------------------------------------------------------
(* The kinds of step the remaining proofs distinguish.                     *)

(* Steps that end a request with an error and leave everything else alone. *)
Failing(r) ==
    SetNoUser(r) \/ DelNotFound(r) \/ ChgNoUser(r) \/ Abort(r) \/ DeadlockVictim(r)

LEMMA FailingFacts ==
    ASSUME NEW r \in Reqs, Failing(r)
    PROVE  /\ pc' = [pc EXCEPT ![r] = "done"]
           /\ \E status \in Statuses \ {"ok"} :
                reply' = [reply EXCEPT ![r] = Failure(status)]
           /\ UNCHANGED <<currentRev, items, call, rev, asked>>
<1>1. \E status \in Statuses \ {"ok"} : Finish(r, Failure(status))
  BY DEF Failing, SetNoUser, DelNotFound, ChgNoUser, Abort, DeadlockVictim, Statuses
<1>2. UNCHANGED <<currentRev, items, call, rev, asked>>
  BY DEF Failing, SetNoUser, DelNotFound, ChgNoUser, Abort, DeadlockVictim
<1> QED BY <1>1, <1>2 DEF Finish

(* Steps that answer a read.                                               *)
Reading(r) == ReadOne(r) \/ ReadAll(r) \/ ChgNothingNew(r) \/ ChgItems(r)

LEMMA ReadingFacts ==
    ASSUME NEW r \in Reqs, Reading(r)
    PROVE  /\ pc' = [pc EXCEPT ![r] = "done"]
           /\ UNCHANGED <<currentRev, items, call, asked>>
BY DEF Reading, ReadOne, ReadAll, ChgNothingNew, ChgItems, Finish

(* Steps that apply a write.                                               *)
Committing(r) == Commit(r) \/ CommitUnheard(r)

LEMMA CommittingFacts ==
    ASSUME NEW r \in Reqs, Committing(r)
    PROVE  /\ pc[r] = "commit"
           /\ Apply(r)
           /\ pc' = [pc EXCEPT ![r] = "done"]
           /\ UNCHANGED <<call, rev, asked>>
           /\ \/ reply' = [reply EXCEPT ![r] = Failure("failed")]
              \/ reply' = [reply EXCEPT ![r] = WriteAnswer(call[r], r, rev[r])]
BY DEF Committing, Commit, CommitUnheard, Finish

LEMMA StepCases ==
    ASSUME [Next]_vars
    PROVE  \/ UNCHANGED vars
           \/ \E r \in Reqs :
                \/ Arrive(r) \/ Refuse(r)
                \/ SetTakeRev(r) \/ SetUpsert(r) \/ DelMark(r) \/ DelBump(r) \/ ChgRev(r)
                \/ Failing(r) \/ Reading(r) \/ Committing(r)
BY DEF Next, Progress, Failing, Reading, Committing

-----------------------------------------------------------------------------
(* Row locks are exclusive, although no variable represents them.          *)

LocksExclusive ==
    \A r, q \in Reqs : r # q =>
        /\ SameUser(r, q) => ~ (HoldsUser(r) /\ HoldsUser(q))
        /\ SameRow(r, q) => ~ (HoldsItem(r) /\ HoldsItem(q))

(* A step that acquires nothing cannot break the exclusion.                *)
LEMMA LocksKept ==
    ASSUME Typed, LocksExclusive, NEW r \in Reqs, NEW s,
           pc' = [pc EXCEPT ![r] = s],
           s \notin {"set_item", "del_user", "commit"},
           \A q \in Reqs : q # r => call'[q] = call[q]
    PROVE  LocksExclusive'
BY DEF Typed, TypeOK, LocksExclusive, SameUser, SameRow, HoldsUser, HoldsItem

LEMMA LocksStep == Typed /\ LocksExclusive /\ [Next]_vars => LocksExclusive'
<1> SUFFICES ASSUME Typed, LocksExclusive, [Next]_vars PROVE LocksExclusive'
  OBVIOUS
<1> USE DEF Typed, TypeOK
<1>a. ASSUME NEW r \in Reqs, Arrive(r) PROVE LocksExclusive'
  <2>1. PICK c \in Calls : /\ call' = [call EXCEPT ![r] = c]
                           /\ pc' = [pc EXCEPT ![r] = FirstStep(c.op)]
    BY <1>a DEF Arrive
  <2>2. FirstStep(c.op) \notin {"set_item", "del_user", "commit"}
    BY DEF FirstStep
  <2> QED BY <2>1, <2>2, LocksKept
<1>b. ASSUME NEW r \in Reqs, Refuse(r) PROVE LocksExclusive'
  BY <1>b, LocksKept DEF Refuse, Finish
<1>c. ASSUME NEW r \in Reqs, SetTakeRev(r) PROVE LocksExclusive'
  BY <1>c DEF SetTakeRev, Blocked, WaitsFor, WaitsForUser, LocksExclusive,
              SameUser, SameRow, HoldsUser, HoldsItem
<1>d. ASSUME NEW r \in Reqs, SetUpsert(r) PROVE LocksExclusive'
  BY <1>d DEF SetUpsert, Blocked, WaitsFor, WaitsForItem, LocksExclusive,
              SameUser, SameRow, HoldsUser, HoldsItem
<1>e. ASSUME NEW r \in Reqs, DelMark(r) PROVE LocksExclusive'
  BY <1>e DEF DelMark, Blocked, WaitsFor, WaitsForItem, LocksExclusive,
              SameUser, SameRow, HoldsUser, HoldsItem
<1>f. ASSUME NEW r \in Reqs, DelBump(r) PROVE LocksExclusive'
  BY <1>f DEF DelBump, Blocked, WaitsFor, WaitsForUser, LocksExclusive,
              SameUser, SameRow, HoldsUser, HoldsItem
<1>g. ASSUME NEW r \in Reqs, ChgRev(r) PROVE LocksExclusive'
  BY <1>g, LocksKept DEF ChgRev
<1>h. ASSUME NEW r \in Reqs, Failing(r) \/ Reading(r) \/ Committing(r)
      PROVE LocksExclusive'
  BY <1>h, LocksKept, FailingFacts, ReadingFacts, CommittingFacts
<1>i. CASE UNCHANGED vars
  BY <1>i DEF vars, LocksExclusive, SameUser, SameRow, HoldsUser, HoldsItem
<1> QED
  BY <1>a, <1>b, <1>c, <1>d, <1>e, <1>f, <1>g, <1>h, <1>i, StepCases

(* With one holder per row, a waits-for cycle can only be a SetItem that   *)
(* holds the users row and a DeleteItem that holds the items row.          *)
LEMMA CyclesAreShort == CallsFit /\ LocksExclusive => DeadlocksAreSetAgainstDelete
<1> SUFFICES ASSUME CallsFit, LocksExclusive, NEW r \in Reqs, Deadlocked(r)
             PROVE  \E q \in Reqs : /\ SameRow(r, q)
                                    /\ {pc[r], pc[q]} = {"set_item", "del_user"}
                                    /\ {call[r].op, call[q].op} = {"set", "delete"}
                                    /\ WaitsFor(r, q) /\ WaitsFor(q, r)
  BY DEF DeadlocksAreSetAgainstDelete
<1>1. PICK S \in SUBSET Reqs :
        /\ r \in S
        /\ \A a \in S : \E b \in S : WaitsFor(a, b)
        /\ \A b \in S : \E a \in S : WaitsFor(a, b)
  BY DEF Deadlocked
<1>2. \A a \in S : pc[a] \in {"set_item", "del_user"}
  <2> TAKE a \in S
  <2>1. PICK b \in S : WaitsFor(a, b)
    BY <1>1
  <2>2. PICK z \in S : WaitsFor(z, a)
    BY <1>1
  <2> QED BY <2>1, <2>2 DEF WaitsFor, WaitsForUser, WaitsForItem, HoldsUser, HoldsItem
<1>3. PICK q \in S : WaitsFor(r, q)
  BY <1>1
<1>4. PICK p \in S : WaitsFor(q, p)
  BY <1>1
<1>5. PICK z \in S : WaitsFor(z, r)
  BY <1>1
<1>6. CASE pc[r] = "set_item"
  <2>1. pc[q] = "del_user" /\ SameRow(r, q)
    BY <1>2, <1>3, <1>6 DEF WaitsFor, WaitsForUser, WaitsForItem, HoldsItem
  <2>2. pc[p] = "set_item" /\ SameUser(q, p)
    BY <1>2, <1>4, <2>1 DEF WaitsFor, WaitsForUser, WaitsForItem, HoldsUser
  <2>3. p = r
    BY <1>6, <2>1, <2>2 DEF LocksExclusive, SameUser, SameRow, HoldsUser
  <2>4. call[r].op = "set" /\ call[q].op = "delete"
    BY <1>6, <2>1 DEF CallsFit
  <2> QED BY <1>3, <1>4, <1>6, <2>1, <2>3, <2>4
<1>7. CASE pc[r] = "del_user"
  <2>1. pc[q] = "set_item" /\ SameUser(r, q)
    BY <1>2, <1>3, <1>7 DEF WaitsFor, WaitsForUser, WaitsForItem, HoldsUser
  <2>2. pc[z] = "set_item" /\ SameRow(r, z)
    BY <1>2, <1>5, <1>7 DEF WaitsFor, WaitsForUser, WaitsForItem, HoldsUser, SameRow, SameUser
  <2>3. z = q
    BY <2>1, <2>2 DEF LocksExclusive, SameUser, SameRow, HoldsUser
  <2>4. call[r].op = "delete" /\ call[q].op = "set"
    BY <1>7, <2>1 DEF CallsFit
  <2> QED BY <1>3, <1>5, <1>7, <2>1, <2>2, <2>3, <2>4
<1> QED BY <1>2, <1>1, <1>6, <1>7

-----------------------------------------------------------------------------
(* Revisions.                                                              *)

(* Whoever holds the users row has allocated the next revision: nobody     *)
(* can have moved current_rev since.                                       *)
RevsHeld ==
    \A r \in Reqs : HoldsUser(r) => rev[r] = currentRev[call[r].user] + 1

(* What a commit does to the tables.                                       *)
LEMMA CommitEffect ==
    ASSUME Typed, RevsHeld, NEW r \in Reqs, Committing(r)
    PROVE  LET u == call[r].user
               i == call[r].item
           IN  /\ u \in Users /\ i \in Items
               /\ rev[r] = currentRev[u] + 1
               /\ currentRev'[u] = rev[r]
               /\ \A v \in Users \ {u} : currentRev'[v] = currentRev[v] /\ items'[v] = items[v]
               /\ items'[u][i] = RowWritten(call[r], r, rev[r])
               /\ items'[u][i].rev = rev[r]
               /\ \A j \in Items \ {i} : items'[u][j] = items[u][j]
<1>1. pc[r] = "commit" /\ Apply(r)
  BY CommittingFacts
<1>2. call[r].user \in Users /\ call[r].item \in Items /\ rev[r] \in Nat
  BY <1>1, ArrivedFacts DEF Typed, CallsFit
<1>3. rev[r] = currentRev[call[r].user] + 1
  BY <1>1 DEF RevsHeld, HoldsUser
<1>4. RowWritten(call[r], r, rev[r]).rev = rev[r]
  BY DEF RowWritten, LiveRow, TombRow
<1> QED BY <1>1, <1>2, <1>3, <1>4 DEF Apply, Typed, TypeOK

LEMMA RevsHeldStep ==
    Typed /\ LocksExclusive /\ RevsHeld /\ [Next]_vars => RevsHeld'
<1> SUFFICES ASSUME Typed, LocksExclusive, RevsHeld, [Next]_vars PROVE RevsHeld'
  OBVIOUS
<1> USE DEF Typed, TypeOK
<1>a. ASSUME NEW r \in Reqs, Arrive(r) PROVE RevsHeld'
  <2>1. PICK c \in Calls : /\ call' = [call EXCEPT ![r] = c]
                           /\ pc' = [pc EXCEPT ![r] = FirstStep(c.op)]
    BY <1>a DEF Arrive
  <2>2. FirstStep(c.op) \notin {"set_item", "commit"}
    BY DEF FirstStep
  <2> QED BY <1>a, <2>1, <2>2 DEF Arrive, RevsHeld, HoldsUser
<1>b. ASSUME NEW r \in Reqs, Refuse(r) PROVE RevsHeld'
  BY <1>b DEF Refuse, Finish, RevsHeld, HoldsUser
<1>c. ASSUME NEW r \in Reqs, SetTakeRev(r) \/ DelBump(r) PROVE RevsHeld'
  BY <1>c DEF SetTakeRev, DelBump, RevsHeld, HoldsUser
<1>d. ASSUME NEW r \in Reqs, SetUpsert(r) \/ DelMark(r) \/ ChgRev(r) PROVE RevsHeld'
  BY <1>d DEF SetUpsert, DelMark, ChgRev, RevsHeld, HoldsUser
<1>e. ASSUME NEW r \in Reqs, Failing(r) PROVE RevsHeld'
  BY <1>e, FailingFacts DEF RevsHeld, HoldsUser
<1>f. ASSUME NEW r \in Reqs, Reading(r) PROVE RevsHeld'
  <2>1. \A q \in Reqs : q # r => rev'[q] = rev[q]
    BY <1>f DEF Reading, ReadOne, ReadAll, ChgNothingNew, ChgItems
  <2> QED BY <1>f, <2>1, ReadingFacts DEF RevsHeld, HoldsUser
<1>g. ASSUME NEW r \in Reqs, Committing(r) PROVE RevsHeld'
  <2> SUFFICES ASSUME NEW q \in Reqs, HoldsUser(q)' PROVE (rev[q] = currentRev[call[q].user] + 1)'
    BY DEF RevsHeld
  <2>1. /\ pc[r] = "commit" /\ pc' = [pc EXCEPT ![r] = "done"]
        /\ UNCHANGED <<call, rev, asked>>
    BY <1>g, CommittingFacts
  <2>2. q # r /\ HoldsUser(q)
    BY <2>1 DEF HoldsUser
  <2>3. call[q].user # call[r].user
    BY <2>1, <2>2 DEF LocksExclusive, SameUser, HoldsUser
  <2>4. call[q].user \in Users
    BY <2>2, ArrivedFacts DEF HoldsUser
  <2>5. currentRev'[call[q].user] = currentRev[call[q].user]
    BY <1>g, <2>3, <2>4, CommitEffect
  <2> QED BY <2>1, <2>2, <2>5 DEF RevsHeld
<1>h. CASE UNCHANGED vars
  BY <1>h DEF vars, RevsHeld, HoldsUser
<1> QED BY <1>a, <1>b, <1>c, <1>d, <1>e, <1>f, <1>g, <1>h, StepCases

(* Every step leaves the tables alone, or is a commit.                     *)
LEMMA TablesChangeByCommit ==
    ASSUME [Next]_vars
    PROVE  \/ UNCHANGED <<currentRev, items>>
           \/ \E r \in Reqs : Committing(r)
<1>1. \A r \in Reqs : Arrive(r) \/ Refuse(r) => UNCHANGED <<currentRev, items>>
  BY DEF Arrive, Refuse
<1>2. \A r \in Reqs :
        SetTakeRev(r) \/ SetUpsert(r) \/ DelMark(r) \/ DelBump(r) \/ ChgRev(r)
            => UNCHANGED <<currentRev, items>>
  BY DEF SetTakeRev, SetUpsert, DelMark, DelBump, ChgRev
<1>3. \A r \in Reqs : Failing(r) \/ Reading(r) => UNCHANGED <<currentRev, items>>
  BY FailingFacts, ReadingFacts
<1>4. UNCHANGED vars => UNCHANGED <<currentRev, items>>
  BY DEF vars
<1> QED BY <1>1, <1>2, <1>3, <1>4, StepCases

LEMMA LineStep ==
    Typed /\ RevsHeld /\ RevsAreALine /\ [Next]_vars => RevsAreALine'
<1> SUFFICES ASSUME Typed, RevsHeld, RevsAreALine, [Next]_vars PROVE RevsAreALine'
  OBVIOUS
<1>1. CASE UNCHANGED <<currentRev, items>>
  BY <1>1 DEF RevsAreALine
<1>2. ASSUME NEW r \in Reqs, Committing(r) PROVE RevsAreALine'
  <2> DEFINE u == call[r].user
             i == call[r].item
  <2>1. /\ u \in Users /\ i \in Items
        /\ rev[r] = currentRev[u] + 1
        /\ currentRev'[u] = rev[r]
        /\ \A v \in Users \ {u} : currentRev'[v] = currentRev[v] /\ items'[v] = items[v]
        /\ items'[u][i].rev = rev[r]
        /\ \A j \in Items \ {i} : items'[u][j] = items[u][j]
    BY <1>2, CommitEffect
  <2>2. \A v \in Users : /\ currentRev[v] \in Nat
                         /\ \A j \in Items : items[v][j].rev \in Nat
    BY DEF Typed, TypeOK, Rows
  <2> SUFFICES ASSUME NEW v \in Users
               PROVE  (/\ \A j \in Items : items[v][j].rev =< currentRev[v]
                       /\ \A j, k \in Items :
                            j # k /\ items[v][j].rev > 0 => items[v][j].rev # items[v][k].rev
                       /\ currentRev[v] > 0 =>
                            \E j \in Items : items[v][j].rev = currentRev[v])'
    BY DEF RevsAreALine
  <2> HIDE DEF u, i
  <2>3. CASE v # u
    <3>1. currentRev'[v] = currentRev[v] /\ items'[v] = items[v]
      BY <2>1, <2>3
    <3> QED BY <3>1 DEF RevsAreALine
  <2>4. CASE v = u
    <3>1. \A j \in Items \ {i} : items[u][j].rev =< currentRev[u]
      BY <2>1 DEF RevsAreALine
    <3>2. \A j, k \in Items :
            j # k /\ items[u][j].rev > 0 => items[u][j].rev # items[u][k].rev
      BY <2>1 DEF RevsAreALine
    <3>3. \A j \in Items : items'[u][j].rev =< currentRev'[u]
      BY <2>1, <2>2, <3>1
    <3>4. \A j, k \in Items :
            j # k /\ items'[u][j].rev > 0 => items'[u][j].rev # items'[u][k].rev
      BY <2>1, <2>2, <3>1, <3>2
    <3> QED BY <2>1, <2>4, <3>3, <3>4
  <2> QED BY <2>3, <2>4
<1> QED BY <1>1, <1>2, TablesChangeByCommit

-----------------------------------------------------------------------------
(* Answers.                                                                *)

(* What is promised to request r, in flight and once it is answered.       *)
PromiseKept(r) ==
    LET u == call[r].user
        table == items[u]
    IN
    /\ pc[r] # "idle" => asked[r] =< currentRev[u]
    /\ pc[r] = "chg_items" =>
        rev[r] =< currentRev[u] /\ asked[r] =< rev[r] /\ call[r].since < rev[r]
    /\ Succeeded(r) /\ call[r].op = "changes" =>
        /\ reply[r].latest =< currentRev[u]
        /\ reply[r].latest >= asked[r]
        /\ \A i \in Items :
            table[i].rev > call[r].since /\ table[i].rev =< reply[r].latest =>
                reply[r].rows[i] = table[i]
    /\ Succeeded(r) /\ IsWrite(call[r]) =>
        /\ reply[r].latest =< currentRev[u]
        /\ \/ table[call[r].item].rev > reply[r].latest
           \/ table[call[r].item] = reply[r].rows[call[r].item]

PromisesKept == \A r \in Reqs : PromiseKept(r)

(* Revisions only grow, and a row that changes moves above every revision  *)
(* anybody has been told.                                                  *)
LEMMA TablesGrow ==
    ASSUME Typed, RevsHeld, [Next]_vars
    PROVE  \A u \in Users :
            /\ currentRev'[u] >= currentRev[u]
            /\ \A i \in Items :
                items'[u][i] = items[u][i] \/ items'[u][i].rev = currentRev[u] + 1
<1>1. CASE UNCHANGED <<currentRev, items>>
  BY <1>1 DEF Typed, TypeOK
<1>2. ASSUME NEW r \in Reqs, Committing(r), NEW u \in Users
      PROVE  /\ currentRev'[u] >= currentRev[u]
             /\ \A i \in Items :
                 items'[u][i] = items[u][i] \/ items'[u][i].rev = currentRev[u] + 1
  <2>1. currentRev[u] \in Nat
    BY DEF Typed, TypeOK
  <2>2. CASE u # call[r].user
    BY <1>2, <2>1, <2>2, CommitEffect
  <2>3. CASE u = call[r].user
    BY <1>2, <2>1, <2>3, CommitEffect
  <2> QED BY <2>2, <2>3
<1> QED BY <1>1, <1>2, TablesChangeByCommit

(* A promise survives the steps of other requests.                         *)
LEMMA PromiseSurvives ==
    ASSUME Typed, RevsHeld, [Next]_vars, NEW q \in Reqs, PromiseKept(q),
           pc'[q] = pc[q], call'[q] = call[q], rev'[q] = rev[q],
           reply'[q] = reply[q], asked'[q] = asked[q]
    PROVE  PromiseKept(q)'
<1>1. CASE pc[q] = "idle"
  BY <1>1 DEF PromiseKept, Succeeded
<1>2. CASE pc[q] # "idle"
  <2>1. /\ call[q].user \in Users
        /\ IsWrite(call[q]) => call[q].item \in Items
    BY <1>2, ArrivedFacts DEF IsWrite
  <2>2. /\ currentRev[call[q].user] \in Nat
        /\ currentRev'[call[q].user] \in Nat
        /\ asked[q] \in Nat /\ rev[q] \in Nat
        /\ reply[q].latest \in Nat
        /\ call[q].since \in Int
    BY <1>2, <2>1, TypedNext, ArrivedFacts DEF Typed, TypeOK, Replies
  <2>3. /\ currentRev'[call[q].user] >= currentRev[call[q].user]
        /\ \A i \in Items :
            \/ items'[call[q].user][i] = items[call[q].user][i]
            \/ items'[call[q].user][i].rev = currentRev[call[q].user] + 1
    BY <2>1, TablesGrow
  <2> QED BY <2>1, <2>2, <2>3 DEF PromiseKept, Succeeded
<1> QED BY <1>1, <1>2

(* A step is a step of one request.                                        *)
LEMMA OthersUnmoved ==
    ASSUME Typed, NEW r \in Reqs, NEW q \in Reqs, q # r,
           \/ Arrive(r) \/ Refuse(r)
           \/ SetTakeRev(r) \/ SetUpsert(r) \/ DelMark(r) \/ DelBump(r) \/ ChgRev(r)
           \/ Failing(r) \/ Reading(r) \/ Committing(r)
    PROVE  /\ pc'[q] = pc[q] /\ call'[q] = call[q] /\ rev'[q] = rev[q]
           /\ reply'[q] = reply[q] /\ asked'[q] = asked[q]
<1> USE DEF Typed, TypeOK
<1>1. CASE Arrive(r) \/ Refuse(r)
  BY <1>1 DEF Arrive, Refuse, Finish
<1>2. CASE SetTakeRev(r) \/ SetUpsert(r) \/ DelMark(r) \/ DelBump(r) \/ ChgRev(r)
  BY <1>2 DEF SetTakeRev, SetUpsert, DelMark, DelBump, ChgRev
<1>3. CASE Failing(r) \/ Committing(r)
  BY <1>3, FailingFacts, CommittingFacts
<1>4. CASE Reading(r)
  BY <1>4 DEF Reading, ReadOne, ReadAll, ChgNothingNew, ChgItems, Finish
<1> QED BY <1>1, <1>2, <1>3, <1>4

(* A request's own step makes the promise or keeps it.                     *)
LEMMA PromiseMade ==
    ASSUME Typed, RevsHeld, RevsAreALine, [Next]_vars, NEW r \in Reqs, PromiseKept(r),
           \/ Arrive(r) \/ Refuse(r)
           \/ SetTakeRev(r) \/ SetUpsert(r) \/ DelMark(r) \/ DelBump(r) \/ ChgRev(r)
           \/ Failing(r) \/ Reading(r) \/ Committing(r)
    PROVE  PromiseKept(r)'
<1> USE DEF Typed, TypeOK
<1>0. ASSUME pc[r] # "idle"
      PROVE  /\ call[r].user \in Users /\ call[r].since \in Int
             /\ currentRev[call[r].user] \in Nat
             /\ asked[r] \in Nat /\ asked[r] =< currentRev[call[r].user]
             /\ items[call[r].user] \in [Items -> Rows]
             /\ rev[r] \in Nat
  BY <1>0, ArrivedFacts DEF PromiseKept
<1>1. CASE Arrive(r)
  <2>1. PICK c \in Calls :
          /\ call' = [call EXCEPT ![r] = c]
          /\ asked' = [asked EXCEPT ![r] = currentRev[c.user]]
          /\ pc' = [pc EXCEPT ![r] = FirstStep(c.op)]
    BY <1>1 DEF Arrive
  <2>2. FirstStep(c.op) \notin {"chg_items", "done"}
    BY DEF FirstStep
  <2>3. currentRev' = currentRev /\ currentRev[c.user] \in Nat
    BY <1>1, CallFacts DEF Arrive
  <2> QED BY <2>1, <2>2, <2>3 DEF PromiseKept, Succeeded
<1>2. CASE Refuse(r)
  <2>1. PICK c \in Calls :
          /\ call' = [call EXCEPT ![r] = c]
          /\ asked' = [asked EXCEPT ![r] = currentRev[c.user]]
    BY <1>2 DEF Refuse
  <2>2. /\ currentRev' = currentRev /\ currentRev[c.user] \in Nat
        /\ pc'[r] = "done" /\ reply'[r].status = "bad_request"
    BY <1>2, CallFacts DEF Refuse, Finish, Failure
  <2> QED BY <2>1, <2>2 DEF PromiseKept, Succeeded
<1>3. CASE SetTakeRev(r) \/ SetUpsert(r) \/ DelMark(r) \/ DelBump(r)
  BY <1>3 DEF SetTakeRev, SetUpsert, DelMark, DelBump, PromiseKept, Succeeded
<1>4. CASE ChgRev(r)
  BY <1>0, <1>4 DEF ChgRev, PromiseKept, Succeeded
<1>5. CASE Failing(r)
  <2>1. pc[r] # "idle"
    BY <1>5 DEF Failing, SetNoUser, DelNotFound, ChgNoUser, Abort, Active,
                DeadlockVictim, Deadlocked, WaitsFor, WaitsForUser, WaitsForItem
  <2>2. /\ pc'[r] = "done" /\ reply'[r].status # "ok"
        /\ call' = call /\ currentRev' = currentRev /\ asked' = asked
    BY <1>5, FailingFacts DEF Failure
  <2> QED BY <1>0, <2>1, <2>2 DEF PromiseKept, Succeeded
<1>6. CASE ReadOne(r) \/ ReadAll(r)
  <2>1. pc[r] # "idle" /\ call[r].op \in {"get", "list"}
    BY <1>6 DEF ReadOne, ReadAll
  <2>2. UNCHANGED <<currentRev, call, asked>> /\ pc'[r] = "done"
    BY <1>6 DEF ReadOne, ReadAll, Finish
  <2> QED BY <1>0, <2>1, <2>2 DEF PromiseKept, Succeeded, IsWrite
<1>7. CASE ChgNothingNew(r)
  <2>1. pc[r] # "idle" /\ call[r].op = "changes" /\ call[r].since >= 0
    BY <1>7 DEF ChgNothingNew, CallsFit
  <2>2. /\ UNCHANGED <<currentRev, items, call, asked>> /\ pc'[r] = "done"
        /\ reply'[r].latest = currentRev[call[r].user]
        /\ call[r].since >= currentRev[call[r].user]
    BY <1>0, <1>7, <2>1 DEF ChgNothingNew, Finish, Answer
  <2>3. \A i \in Items : items[call[r].user][i].rev \in Nat
    BY <1>0, <2>1 DEF Rows
  <2>4. \A i \in Items : ~ (/\ items[call[r].user][i].rev > call[r].since
                            /\ items[call[r].user][i].rev =< currentRev[call[r].user])
    BY <1>0, <2>1, <2>2, <2>3
  <2> QED BY <1>0, <2>1, <2>2, <2>4 DEF PromiseKept, Succeeded, IsWrite
<1>8. CASE ChgItems(r)
  <2>1. pc[r] = "chg_items" /\ call[r].op = "changes"
    BY <1>8 DEF ChgItems, CallsFit
  <2>2. /\ UNCHANGED <<currentRev, items, call, asked>> /\ pc'[r] = "done"
        /\ reply'[r].latest = rev[r]
        /\ reply'[r].rows = RowsSince(items[call[r].user], call[r].since)
    BY <1>8 DEF ChgItems, Finish, Answer
  <2>3. rev[r] =< currentRev[call[r].user] /\ asked[r] =< rev[r]
    BY <2>1 DEF PromiseKept
  <2>4. \A i \in Items : items[call[r].user][i].rev > call[r].since =>
            reply'[r].rows[i] = items[call[r].user][i]
    BY <2>2 DEF RowsSince
  <2> QED BY <1>0, <2>1, <2>2, <2>3, <2>4 DEF PromiseKept, Succeeded, IsWrite
<1>9. CASE Committing(r)
  <2> DEFINE u == call[r].user
             i == call[r].item
  <2>1. pc[r] = "commit" /\ call[r].op # "changes"
    BY <1>9, CommittingFacts DEF CallsFit
  <2>2. /\ pc'[r] = "done" /\ UNCHANGED <<call, asked>>
        /\ \/ reply'[r] = Failure("failed")
           \/ reply'[r] = WriteAnswer(call[r], r, rev[r])
    BY <1>9, CommittingFacts
  <2>3. /\ u \in Users /\ i \in Items
        /\ currentRev'[u] = rev[r] /\ rev[r] = currentRev[u] + 1
        /\ items'[u][i] = RowWritten(call[r], r, rev[r])
    BY <1>9, CommitEffect
  <2>4. Succeeded(r)' => /\ reply'[r].latest = rev[r]
                         /\ reply'[r].rows[i] = RowWritten(call[r], r, rev[r])
    BY <1>0, <2>1, <2>2, <2>3, WriteAnswerFacts DEF Succeeded, Failure
  <2>5. asked[r] =< currentRev'[u] /\ rev[r] =< currentRev'[u]
    BY <1>0, <2>1, <2>3
  <2> QED BY <2>1, <2>2, <2>3, <2>4, <2>5 DEF PromiseKept, Succeeded
<1> QED BY <1>1, <1>2, <1>3, <1>4, <1>5, <1>6, <1>7, <1>8, <1>9 DEF Reading

LEMMA PromisesStep ==
    Typed /\ RevsHeld /\ RevsAreALine /\ PromisesKept /\ [Next]_vars => PromisesKept'
<1> SUFFICES ASSUME Typed, RevsHeld, RevsAreALine, PromisesKept, [Next]_vars,
                    NEW q \in Reqs
             PROVE  PromiseKept(q)'
  BY DEF PromisesKept
<1>1. PromiseKept(q)
  BY DEF PromisesKept
<1>2. CASE UNCHANGED vars
  BY <1>1, <1>2, PromiseSurvives DEF vars
<1>3. ASSUME NEW r \in Reqs,
             \/ Arrive(r) \/ Refuse(r)
             \/ SetTakeRev(r) \/ SetUpsert(r) \/ DelMark(r) \/ DelBump(r) \/ ChgRev(r)
             \/ Failing(r) \/ Reading(r) \/ Committing(r)
      PROVE  PromiseKept(q)'
  <2>1. CASE q = r
    BY <1>1, <1>3, <2>1, PromiseMade
  <2>2. CASE q # r
    BY <1>1, <1>3, <2>2, OthersUnmoved, PromiseSurvives
  <2> QED BY <2>1, <2>2
<1> QED BY <1>2, <1>3, StepCases

-----------------------------------------------------------------------------
(* The inductive invariant and what follows from it.                       *)

IInv ==
    /\ Typed
    /\ LocksExclusive
    /\ RevsHeld
    /\ RevsAreALine
    /\ PromisesKept

THEOREM IInvHolds == Spec => []IInv
<1>1. Init => IInv
  <2> SUFFICES ASSUME Init PROVE IInv
    OBVIOUS
  <2>1. LocksExclusive /\ RevsHeld
    BY DEF Init, LocksExclusive, RevsHeld, HoldsUser, HoldsItem
  <2>2. RevsAreALine
    <3>1. \A u \in Users : currentRev[u] = 0
      BY DEF Init
    <3>2. \A u \in Users, i \in Items : items[u][i].rev = 0
      BY DEF Init, NoRows, NoRow
    <3> SUFFICES ASSUME NEW u \in Users
                 PROVE  /\ \A i \in Items : items[u][i].rev =< currentRev[u]
                        /\ \A i, j \in Items :
                             i # j /\ items[u][i].rev > 0 => items[u][i].rev # items[u][j].rev
                        /\ currentRev[u] > 0 =>
                             \E i \in Items : items[u][i].rev = currentRev[u]
      BY DEF RevsAreALine
    <3>3. ~ (currentRev[u] > 0)
      BY <3>1
    <3>4. \A i \in Items : items[u][i].rev =< currentRev[u] /\ ~ (items[u][i].rev > 0)
      BY <3>1, <3>2
    <3> QED BY <3>3, <3>4
  <2>3. PromisesKept
    BY DEF Init, PromisesKept, PromiseKept, Succeeded
  <2> QED BY <2>1, <2>2, <2>3, TypedInit DEF IInv
<1>2. IInv /\ [Next]_vars => IInv'
  BY TypedNext, LocksStep, RevsHeldStep, LineStep, PromisesStep DEF IInv
<1> QED BY <1>1, <1>2, PTL DEF Spec

(* Writers racing for current_rev never share, skip or leak a revision.    *)
THEOREM RevisionsCorrect == Spec => []RevsAreALine
<1>1. IInv => RevsAreALine
  BY DEF IInv
<1> QED BY <1>1, IInvHolds, PTL

(* A sync's answer is complete up to the revision it reports, although its *)
(* two halves are read at different moments.                               *)
THEOREM SyncComplete == Spec => []ChangesComplete
<1>1. IInv => ChangesComplete
  BY DEF IInv, PromisesKept, PromiseKept, ChangesComplete
<1> QED BY <1>1, IInvHolds, PTL

(* A sync's latestRev covers every write acknowledged before it arrived.   *)
THEOREM SyncFresh == Spec => []SyncSeesThePast
<1>1. IInv => SyncSeesThePast
  BY DEF IInv, PromisesKept, PromiseKept, SyncSeesThePast
<1> QED BY <1>1, IInvHolds, PTL

(* An acknowledged write stays until a later revision overwrites it.       *)
THEOREM WritesDurable == Spec => []AcknowledgedWritesStay
<1>1. IInv => AcknowledgedWritesStay
  BY DEF IInv, PromisesKept, PromiseKept, AcknowledgedWritesStay
<1> QED BY <1>1, IInvHolds, PTL

(* Any waits-for cycle, among any number of requests, is one SetItem and   *)
(* one DeleteItem of the same row.                                         *)
THEOREM DeadlocksShort == Spec => []DeadlocksAreSetAgainstDelete
<1>1. IInv => DeadlocksAreSetAgainstDelete
  BY CyclesAreShort DEF IInv, Typed
<1> QED BY <1>1, IInvHolds, PTL

(* Every step that touches an account's tables moves its revision by one   *)
(* and stamps one row with it.                                             *)
THEOREM CommitOrder == Spec => CommitsInRevisionOrder
<1> DEFINE InOrder(u) ==
      \/ currentRev'[u] = currentRev[u] /\ items'[u] = items[u]
      \/ /\ currentRev'[u] = currentRev[u] + 1
         /\ \E i \in Items :
              /\ items'[u][i].rev = currentRev'[u]
              /\ \A j \in Items \ {i} : items'[u][j] = items[u][j]
<1>1. ASSUME IInv, [Next]_vars PROVE [\A u \in Users : InOrder(u)]_vars
  <2>1. CASE UNCHANGED <<currentRev, items>>
    BY <2>1
  <2>2. ASSUME NEW r \in Reqs, Committing(r), NEW u \in Users PROVE InOrder(u)
    <3>1. CASE u # call[r].user
      BY <1>1, <2>2, <3>1, CommitEffect DEF IInv
    <3>2. CASE u = call[r].user
      <4>1. /\ call[r].item \in Items
            /\ currentRev'[u] = currentRev[u] + 1
            /\ items'[u][call[r].item].rev = currentRev'[u]
            /\ \A j \in Items \ {call[r].item} : items'[u][j] = items[u][j]
        BY <1>1, <2>2, <3>2, CommitEffect DEF IInv
      <4> QED BY <4>1
    <3> QED BY <3>1, <3>2
  <2> QED BY <1>1, <2>1, <2>2, TablesChangeByCommit
<1>2. IInv /\ [Next]_vars => [\A u \in Users : InOrder(u)]_vars
  BY <1>1
<1> QED BY <1>2, IInvHolds, PTL DEF Spec, CommitsInRevisionOrder

-----------------------------------------------------------------------------
(* The safety half of "every request is answered": who waits, waits for    *)
(* somebody who can go on or be rolled back, and who goes on, goes forward.*)

(* A request that does not wait, or that the deadlock detector frees.      *)
Released(r) == ~ Blocked(r) \/ Deadlocked(r)

(* From every request, at most two waits lead to a released one.           *)
WaitsAreShort ==
    \A r \in Reqs :
        \/ Released(r)
        \/ \E q \in Reqs :
            /\ WaitsFor(r, q)
            /\ Released(q) \/ \E s \in Reqs : WaitsFor(q, s) /\ Released(s)

LEMMA MutualWait ==
    ASSUME NEW r \in Reqs, NEW q \in Reqs, WaitsFor(r, q), WaitsFor(q, r)
    PROVE  Deadlocked(r)
<1> DEFINE S == {r, q}
<1>1. S \in SUBSET Reqs /\ r \in S
  OBVIOUS
<1>2. (\A a \in S : \E b \in S : WaitsFor(a, b)) /\ (\A b \in S : \E a \in S : WaitsFor(a, b))
  OBVIOUS
<1> HIDE DEF S
<1> QED BY <1>1, <1>2 DEF Deadlocked

(* A set that has the users row waits at most for a delete that waits for  *)
(* the users row.                                                          *)
LEMMA SetReleased ==
    ASSUME LocksExclusive, NEW q \in Reqs, pc[q] = "set_item"
    PROVE  Released(q)
<1> SUFFICES ASSUME NEW s \in Reqs, WaitsFor(q, s)
             PROVE  Deadlocked(q)
  BY DEF Released, Blocked
<1>1. SameRow(q, s) /\ HoldsItem(s) /\ q # s
  BY DEF WaitsFor, WaitsForUser, WaitsForItem
<1>2. pc[s] # "commit"
  BY <1>1 DEF LocksExclusive, SameRow, HoldsUser
<1>3. WaitsFor(s, q)
  BY <1>1, <1>2 DEF WaitsFor, WaitsForUser, HoldsUser, HoldsItem, SameUser, SameRow
<1> QED BY <1>3, MutualWait

(* The holder of a users row is past its last lock, or such a set.         *)
LEMMA UserHolderReleased ==
    ASSUME LocksExclusive, NEW r \in Reqs, NEW q \in Reqs, WaitsForUser(r, q)
    PROVE  Released(q)
<1>1. CASE pc[q] = "set_item"
  BY <1>1, SetReleased
<1>2. CASE pc[q] = "commit"
  BY <1>2 DEF Released, Blocked, WaitsFor, WaitsForUser, WaitsForItem
<1> QED BY <1>1, <1>2 DEF WaitsForUser, HoldsUser

LEMMA ShortWaits == LocksExclusive => WaitsAreShort
<1> SUFFICES ASSUME LocksExclusive, NEW r \in Reqs, NEW q \in Reqs, WaitsFor(r, q)
             PROVE  Released(q) \/ \E s \in Reqs : WaitsFor(q, s) /\ Released(s)
  BY DEF WaitsAreShort, Released, Blocked
<1>1. CASE WaitsForUser(r, q)
  BY <1>1, UserHolderReleased
<1>2. CASE WaitsForItem(r, q) /\ pc[q] = "commit"
  BY <1>2 DEF Released, Blocked, WaitsFor, WaitsForUser, WaitsForItem
<1>3. CASE WaitsForItem(r, q) /\ pc[q] = "del_user"
  <2> SUFFICES ASSUME NEW s \in Reqs, WaitsFor(q, s)
               PROVE  Released(s)
    BY DEF Released, Blocked
  <2>1. WaitsForUser(q, s)
    BY <1>3 DEF WaitsFor, WaitsForItem
  <2> QED BY <2>1, UserHolderReleased
<1> QED BY <1>1, <1>2, <1>3 DEF WaitsFor, WaitsForItem, HoldsItem

(* However many requests queue for the rows of an account, each is at most *)
(* two waits away from one that can go on: nobody waits in a circle the    *)
(* deadlock detector does not see, and a delete that waits for a delete    *)
(* that waits for a set is the longest queue there is.                     *)
THEOREM NoEndlessWait == Spec => []WaitsAreShort
<1>1. IInv => WaitsAreShort
  BY ShortWaits DEF IInv
<1> QED BY <1>1, IInvHolds, PTL

Stage(step) ==
    CASE step = "idle" -> 0
      [] step \in {"set_user", "del_item", "read", "chg_rev"} -> 1
      [] step \in {"set_item", "del_user", "chg_items"} -> 2
      [] step = "commit" -> 3
      [] step = "done" -> 4

(* No step takes a request back, and an answer is given once.              *)
GoesForward ==
    [][\A r \in Reqs :
        \/ pc'[r] = pc[r] /\ call'[r] = call[r] /\ reply'[r] = reply[r]
        \/ Stage(pc'[r]) > Stage(pc[r])]_vars

(* A request takes at most four steps, whatever it meets: nothing is tried *)
(* again, a deadlock's victim included, and no answer is ever changed.     *)
THEOREM RequestsGoForward == Spec => GoesForward
<1> DEFINE Forward(r) ==
      \/ pc'[r] = pc[r] /\ call'[r] = call[r] /\ reply'[r] = reply[r]
      \/ Stage(pc'[r]) > Stage(pc[r])
<1>1. ASSUME IInv, [Next]_vars PROVE [\A r \in Reqs : Forward(r)]_vars
  <2> SUFFICES ASSUME NEW q \in Reqs,
                      \/ Arrive(q) \/ Refuse(q)
                      \/ SetTakeRev(q) \/ SetUpsert(q) \/ DelMark(q) \/ DelBump(q) \/ ChgRev(q)
                      \/ Failing(q) \/ Reading(q) \/ Committing(q)
               PROVE  \A r \in Reqs : Forward(r)
    BY <1>1, StepCases
  <2>1. pc \in [Reqs -> Steps] /\ call \in [Reqs -> AllCalls \cup {NoCall}] /\ reply \in [Reqs -> Replies]
    BY <1>1 DEF IInv, Typed, TypeOK
  <2>2. \A r \in Reqs \ {q} : pc'[r] = pc[r] /\ call'[r] = call[r] /\ reply'[r] = reply[r]
    BY <2>1, FailingFacts, CommittingFacts
    DEF Arrive, Refuse, SetTakeRev, SetUpsert, DelMark, DelBump, ChgRev, Reading, ReadOne,
        ReadAll, ChgNothingNew, ChgItems, Finish
  <2>3. /\ pc[q] # "done"
        /\ \/ pc'[q] = "done"
           \/ pc[q] = "idle" /\ \E c \in Calls : pc'[q] = FirstStep(c.op)
           \/ pc[q] \in {"set_user", "chg_rev", "del_item"} /\ pc'[q] \in {"set_item", "chg_items", "del_user"}
           \/ pc[q] \in {"set_item", "del_user"} /\ pc'[q] = "commit"
    <3>1. CASE Arrive(q) \/ Refuse(q)
      BY <2>1, <3>1 DEF Arrive, Refuse, Finish
    <3>2. CASE SetTakeRev(q) \/ SetUpsert(q) \/ DelMark(q) \/ DelBump(q) \/ ChgRev(q)
      BY <2>1, <3>2 DEF SetTakeRev, SetUpsert, DelMark, DelBump, ChgRev
    <3>3. CASE Failing(q)
      <4>1. pc[q] # "done"
        <5>1. Deadlocked(q) => pc[q] # "done"
          BY DEF Deadlocked, WaitsFor, WaitsForUser, WaitsForItem
        <5> QED BY <3>3, <5>1
            DEF Failing, SetNoUser, DelNotFound, ChgNoUser, Abort, Active, DeadlockVictim
      <4> QED BY <2>1, <3>3, <4>1, FailingFacts
    <3>4. CASE Reading(q)
      BY <2>1, <3>4 DEF Reading, ReadOne, ReadAll, ChgNothingNew, ChgItems, Finish
    <3>5. CASE Committing(q)
      BY <2>1, <3>5, CommittingFacts
    <3> QED BY <3>1, <3>2, <3>3, <3>4, <3>5
  <2>4. Stage(pc'[q]) > Stage(pc[q])
    <3>1. pc[q] \in Steps
      BY <2>1
    <3>2. \A op : FirstStep(op) \in {"set_user", "del_item", "read", "chg_rev"}
      BY DEF FirstStep
    <3>3. \A x \in Steps \ {"done"} : 4 > Stage(x)
      BY DEF Stage, Steps
    <3>4. Stage("done") = 4 /\ Stage("idle") = 0 /\ Stage("commit") = 3
      BY DEF Stage
    <3>5. /\ \A x \in {"set_user", "del_item", "read", "chg_rev"} : Stage(x) = 1
          /\ \A x \in {"set_item", "del_user", "chg_items"} : Stage(x) = 2
      BY DEF Stage
    <3> HIDE DEF Stage
    <3> QED BY <2>3, <3>1, <3>2, <3>3, <3>4, <3>5
  <2> QED BY <2>2, <2>4
<1>2. IInv /\ [Next]_vars => [\A r \in Reqs : Forward(r)]_vars
  BY <1>1
<1> QED BY <1>2, IInvHolds, PTL DEF Spec, GoesForward

-----------------------------------------------------------------------------
(* Accounts do not see each other's rows.                                  *)

(* The row was written by a request of user u, which has arrived: its call *)
(* will not change any more.                                               *)
From(u, row) == row.body # NoBody => pc[row.body] # "idle" /\ call[row.body].user = u

OwnRows ==
    /\ \A u \in Users, i \in Items : From(u, items[u][i])
    /\ \A r \in Reqs, i \in Items :
        /\ From(call[r].user, reply[r].rows[i])
        /\ pc[r] = "idle" => reply[r].rows[i].body = NoBody

(* What a request of user u may answer, or write.                          *)
LEMMA AnswersFrom ==
    ASSUME NEW u, NEW table \in [Items -> Rows], \A i \in Items : From(u, table[i]),
           NEW i \in Items
    PROVE  /\ From(u, NoRow) /\ From(u, NoRows[i])
           /\ \A status : From(u, Failure(status).rows[i])
           /\ \A k : From(u, Answer(k, table).rows[i]) /\ From(u, Answer(k, NoRows).rows[i])
           /\ \A k, since : From(u, Answer(k, RowsSince(table, since)).rows[i])
           /\ \A j \in Items : \A k : From(u, Answer(k, RowsOnly(table, j)).rows[i])
BY DEF From, NoRow, NoRows, Failure, Answer, RowsSince, RowsOnly

LEMMA WritesFrom ==
    ASSUME NEW r \in Reqs, pc[r] # "idle", NEW k, NEW i \in Items
    PROVE  /\ From(call[r].user, RowWritten(call[r], r, k))
           /\ From(call[r].user, WriteAnswer(call[r], r, k).rows[i])
<1>1. From(call[r].user, RowWritten(call[r], r, k))
  BY DEF From, RowWritten, LiveRow, TombRow
<1>2. \/ WriteAnswer(call[r], r, k).rows[i] = NoRow
      \/ WriteAnswer(call[r], r, k).rows[i] = RowWritten(call[r], r, k)
  BY DEF WriteAnswer, Answer, NoRows
<1> QED BY <1>1, <1>2 DEF From, NoRow

(* A request that has arrived keeps its call, so its rows stay its user's. *)
LEMMA CallsStay ==
    ASSUME Typed, [Next]_vars, NEW q \in Reqs, pc[q] # "idle"
    PROVE  pc'[q] # "idle" /\ call'[q] = call[q]
<1> USE DEF Typed, TypeOK
<1>1. CASE UNCHANGED vars
  BY <1>1 DEF vars
<1>2. ASSUME NEW r \in Reqs, Arrive(r) \/ Refuse(r) PROVE pc'[q] # "idle" /\ call'[q] = call[q]
  BY <1>2 DEF Arrive, Refuse, Finish
<1>3. ASSUME NEW r \in Reqs,
             SetTakeRev(r) \/ SetUpsert(r) \/ DelMark(r) \/ DelBump(r) \/ ChgRev(r)
      PROVE  pc'[q] # "idle" /\ call'[q] = call[q]
  BY <1>3 DEF SetTakeRev, SetUpsert, DelMark, DelBump, ChgRev
<1>4. ASSUME NEW r \in Reqs, Failing(r) \/ Reading(r) \/ Committing(r)
      PROVE  pc'[q] # "idle" /\ call'[q] = call[q]
  BY <1>4, FailingFacts, ReadingFacts, CommittingFacts
<1> QED BY <1>1, <1>2, <1>3, <1>4, StepCases

LEMMA FromStays ==
    ASSUME Typed, [Next]_vars, NEW u, NEW row \in Rows, From(u, row)
    PROVE  row.body # NoBody => pc'[row.body] # "idle" /\ call'[row.body].user = u
BY CallsStay DEF From, Rows

LEMMA TablesOwned ==
    ASSUME IInv, OwnRows, [Next]_vars
    PROVE  (\A u \in Users, i \in Items : From(u, items[u][i]))'
<1> SUFFICES ASSUME NEW u \in Users, NEW i \in Items PROVE From(u, items[u][i])'
  OBVIOUS
<1>0. /\ Typed /\ RevsHeld
      /\ items[u][i] \in Rows
  BY DEF IInv, Typed, TypeOK
<1>1. CASE items'[u][i] = items[u][i]
  BY <1>0, <1>1, FromStays DEF OwnRows, From
<1>2. ASSUME NEW r \in Reqs, Committing(r), items'[u][i] # items[u][i]
      PROVE  From(u, items[u][i])'
  <2>1. u = call[r].user /\ items'[u][i] = RowWritten(call[r], r, rev[r])
    BY <1>0, <1>2, CommitEffect
  <2>2. pc[r] # "idle" /\ rev[r] \in Nat
    BY <1>0, <1>2, CommittingFacts DEF Typed, TypeOK
  <2>3. RowWritten(call[r], r, rev[r]) \in Rows
    BY <2>2, RowWrittenType
  <2>4. From(u, RowWritten(call[r], r, rev[r]))
    BY <2>1, <2>2, WritesFrom, <1>0
  <2> QED BY <1>0, <2>1, <2>3, <2>4, FromStays DEF From
<1> QED BY <1>1, <1>2, TablesChangeByCommit

(* A step leaves an answer alone or gives one from the asking user's table.*)
LEMMA AnswerOwned ==
    ASSUME IInv, OwnRows, NEW r \in Reqs,
           \/ Refuse(r) \/ Failing(r) \/ Reading(r) \/ Committing(r),
           NEW i \in Items
    PROVE  /\ From(call'[r].user, reply'[r].rows[i])
           /\ pc'[r] # "idle"
<1> USE DEF Typed, TypeOK
<1>0. /\ Typed
      /\ pc[r] # "idle" =>
            /\ call[r].user \in Users /\ items[call[r].user] \in [Items -> Rows]
            /\ \A j \in Items : From(call[r].user, items[call[r].user][j])
            /\ call[r].op \in {"set", "delete", "get"} => call[r].item \in Items
  BY ArrivedFacts DEF IInv, OwnRows
<1>1. CASE Refuse(r)
  BY <1>0, <1>1 DEF Refuse, Finish, Failure, NoRows, NoRow, From
<1>2. CASE Failing(r)
  <2>1. PICK status \in Statuses : reply' = [reply EXCEPT ![r] = Failure(status)]
    BY <1>2, FailingFacts
  <2> QED BY <1>0, <1>2, <2>1, FailingFacts DEF Failure, NoRows, NoRow, From
<1>3. CASE Reading(r)
  <2>1. pc[r] # "idle" /\ pc'[r] # "idle" /\ call'[r] = call[r]
    BY <1>0, <1>3, ReadingFacts DEF Reading, ReadOne, ReadAll, ChgNothingNew, ChgItems
  <2>2. CASE ReadOne(r)
    BY <1>0, <2>1, <2>2, AnswersFrom DEF ReadOne, Finish
  <2>3. CASE ReadAll(r)
    BY <1>0, <2>1, <2>3, AnswersFrom DEF ReadAll, Finish
  <2>4. CASE ChgNothingNew(r)
    BY <1>0, <2>1, <2>4, AnswersFrom DEF ChgNothingNew, Finish
  <2>5. CASE ChgItems(r)
    BY <1>0, <2>1, <2>5, AnswersFrom DEF ChgItems, Finish
  <2> QED BY <1>3, <2>2, <2>3, <2>4, <2>5 DEF Reading
<1>4. CASE Committing(r)
  <2>1. pc[r] = "commit" /\ pc'[r] = "done" /\ call'[r] = call[r]
    BY <1>0, <1>4, CommittingFacts
  <2>2. From(call[r].user, WriteAnswer(call[r], r, rev[r]).rows[i])
    BY <2>1, WritesFrom
  <2>3. From(call[r].user, Failure("failed").rows[i])
    BY <1>0, <2>1, AnswersFrom
  <2> QED BY <1>0, <1>4, <2>1, <2>2, <2>3, CommittingFacts
<1> QED BY <1>1, <1>2, <1>3, <1>4

LEMMA OwnRowsStep == IInv /\ OwnRows /\ [Next]_vars => OwnRows'
<1> SUFFICES ASSUME IInv, OwnRows, [Next]_vars PROVE OwnRows'
  OBVIOUS
<1> DEFINE Mine(q, i) == /\ From(call[q].user, reply[q].rows[i])
                         /\ pc[q] = "idle" => reply[q].rows[i].body = NoBody
<1>0. Typed /\ Typed'
  BY TypedNext DEF IInv
<1>1. ASSUME NEW q \in Reqs, NEW i \in Items,
             reply'[q] = reply[q], call'[q] = call[q], pc'[q] = "idle" => pc[q] = "idle"
      PROVE  Mine(q, i)'
  <2>1. reply[q].rows[i] \in Rows
    BY <1>0 DEF Typed, TypeOK, Replies
  <2>2. From(call[q].user, reply[q].rows[i])
    BY DEF OwnRows
  <2>3. reply[q].rows[i].body # NoBody =>
            /\ pc'[reply[q].rows[i].body] # "idle"
            /\ call'[reply[q].rows[i].body].user = call[q].user
    BY <1>0, <2>1, <2>2, FromStays
  <2>4. From(call[q].user, reply[q].rows[i])'
    BY <1>1, <2>3 DEF From
  <2> QED BY <1>1, <2>4 DEF OwnRows
<1>2. ASSUME NEW q \in Reqs, NEW i \in Items,
             From(call'[q].user, reply'[q].rows[i]), pc'[q] # "idle"
      PROVE  Mine(q, i)'
  <2>1. reply'[q].rows[i] \in Rows
    BY <1>0 DEF Typed, TypeOK, Replies
  <2> QED BY <1>0, <1>2, <2>1, FromStays DEF From
<1>3. CASE UNCHANGED vars
  BY <1>1, <1>3, TablesOwned DEF OwnRows, vars
<1>4. ASSUME NEW r \in Reqs, NEW q \in Reqs, NEW i \in Items,
             \/ Arrive(r) \/ Refuse(r)
             \/ SetTakeRev(r) \/ SetUpsert(r) \/ DelMark(r) \/ DelBump(r) \/ ChgRev(r)
             \/ Failing(r) \/ Reading(r) \/ Committing(r)
      PROVE  Mine(q, i)'
  <2>1. CASE q # r
    BY <1>0, <1>1, <1>4, <2>1, OthersUnmoved
  <2>2. CASE q = r /\ Arrive(r)
    <3>1. /\ pc[q] = "idle" /\ reply' = reply /\ reply[q].rows[i].body = NoBody
      BY <2>2 DEF Arrive, OwnRows
    <3> QED BY <3>1 DEF From
  <2>3. CASE q = r /\ (Refuse(r) \/ Failing(r) \/ Reading(r) \/ Committing(r))
    BY <1>2, <2>3, AnswerOwned
  <2>4. CASE q = r /\ (SetTakeRev(r) \/ SetUpsert(r) \/ DelMark(r) \/ DelBump(r) \/ ChgRev(r))
    <3>1. reply' = reply /\ call' = call /\ pc[r] # "idle"
      BY <2>4 DEF SetTakeRev, SetUpsert, DelMark, DelBump, ChgRev
    <3>2. pc'[r] # "idle"
      BY <1>0, <3>1, CallsStay
    <3> QED BY <1>1, <2>4, <3>1, <3>2
  <2> QED BY <1>4, <2>1, <2>2, <2>3, <2>4
<1>5. \A q \in Reqs, i \in Items : Mine(q, i)'
  BY <1>1, <1>4, StepCases DEF vars
<1> QED BY <1>5, TablesOwned DEF OwnRows

(* No answer ever holds another account's row, whatever item ids the       *)
(* accounts share.                                                         *)
THEOREM AccountsApart == Spec => []OwnRowsOnly
<1>1. Init => OwnRows
  BY DEF Init, OwnRows, From, NoRows, NoRow, NoReply
<1>2. IInv /\ OwnRows /\ [Next]_vars => OwnRows'
  BY OwnRowsStep
<1>3. OwnRows => OwnRowsOnly
  BY DEF OwnRows, From, OwnRowsOnly
<1> QED BY <1>1, <1>2, <1>3, IInvHolds, PTL DEF Spec

-----------------------------------------------------------------------------
(* ItemStore implements RevStore: each request of the transactional code   *)
(* takes effect in one step, a commit, a read or a failure, and every      *)
(* other step of it is invisible.                                          *)

(* Two facts the abstract store asks of a write: the account exists, and   *)
(* so does the row a delete marks.                                         *)

RowsHaveAccounts ==
    \A u \in Users, i \in Items : items[u][i] # NoRow => u \in Accounts

WriterFits(r) ==
    /\ pc[r] \in {"set_item", "commit", "chg_items"} => call[r].user \in Accounts
    /\ pc[r] \in {"del_user", "commit"} /\ call[r].op = "delete" =>
        items[call[r].user][call[r].item] # NoRow

WritersFit == \A r \in Reqs : WriterFits(r)

RInv == IInv /\ RowsHaveAccounts /\ WritersFit

(* A row that exists goes on existing: nothing removes rows.               *)
LEMMA RowsStay ==
    ASSUME IInv, [Next]_vars, NEW u \in Users, NEW i \in Items, items[u][i] # NoRow
    PROVE  items'[u][i] # NoRow
<1>1. items'[u][i] = items[u][i] \/ items'[u][i].rev = currentRev[u] + 1
  BY TablesGrow DEF IInv
<1>2. currentRev[u] \in Nat
  BY DEF IInv, Typed, TypeOK
<1> QED BY <1>1, <1>2 DEF NoRow

LEMMA WriterFitsStep ==
    ASSUME RInv, [Next]_vars, NEW q \in Reqs
    PROVE  WriterFits(q)'
<1> USE DEF RInv, IInv
<1>1. ASSUME pc'[q] = pc[q], call'[q] = call[q] PROVE WriterFits(q)'
  <2>1. pc[q] \in {"del_user", "commit"} => call[q].user \in Users
    BY ArrivedFacts
  <2>2. pc[q] \in {"del_user", "commit"} => call[q].item \in Items
    BY ArrivedFacts DEF Typed, CallsFit
  <2> QED BY <1>1, <2>1, <2>2, RowsStay DEF WritersFit, WriterFits
<1>2. CASE UNCHANGED vars
  BY <1>1, <1>2 DEF vars
<1>3. ASSUME NEW r \in Reqs,
             \/ Arrive(r) \/ Refuse(r)
             \/ SetTakeRev(r) \/ SetUpsert(r) \/ DelMark(r) \/ DelBump(r) \/ ChgRev(r)
             \/ Failing(r) \/ Reading(r) \/ Committing(r)
      PROVE  WriterFits(q)'
  <2>1. CASE q # r
    BY <1>1, <1>3, <2>1, OthersUnmoved
  <2>2. CASE q = r
    <3> USE DEF Typed, TypeOK
    <3>1. CASE Arrive(r)
      <4>1. PICK c \in Calls : pc' = [pc EXCEPT ![r] = FirstStep(c.op)]
        BY <3>1 DEF Arrive
      <4>2. FirstStep(c.op) \notin {"set_item", "del_user", "commit", "chg_items"}
        BY DEF FirstStep
      <4> QED BY <2>2, <4>1, <4>2 DEF WriterFits
    <3>2. CASE Refuse(r)
      BY <2>2, <3>2 DEF Refuse, Finish, WriterFits
    <3>3. CASE SetTakeRev(r)
      BY <2>2, <3>3 DEF SetTakeRev, WriterFits
    <3>4. CASE SetUpsert(r)
      <4>1. call[r].op = "set"
        BY <3>4 DEF SetUpsert, CallsFit
      <4> QED BY <2>2, <3>4, <4>1 DEF SetUpsert, WritersFit, WriterFits
    <3>5. CASE DelMark(r)
      BY <2>2, <3>5 DEF DelMark, WriterFits
    <3>6. CASE DelBump(r)
      <4>1. /\ pc[r] = "del_user" /\ call[r].op = "delete"
            /\ UNCHANGED <<items, call>>
        BY <3>6 DEF DelBump, CallsFit
      <4>2. items[call[r].user][call[r].item] # NoRow
        BY <4>1 DEF WritersFit, WriterFits
      <4>3. call[r].user \in Users /\ call[r].item \in Items
        BY <4>1, ArrivedFacts
      <4>4. call[r].user \in Accounts
        BY <4>2, <4>3 DEF RowsHaveAccounts
      <4> QED BY <2>2, <4>1, <4>2, <4>4 DEF WriterFits
    <3>7. CASE ChgRev(r)
      BY <2>2, <3>7 DEF ChgRev, WriterFits
    <3>8. CASE Failing(r) \/ Reading(r) \/ Committing(r)
      BY <2>2, <3>8, FailingFacts, ReadingFacts, CommittingFacts DEF WriterFits
    <3> QED BY <1>3, <3>1, <3>2, <3>3, <3>4, <3>5, <3>6, <3>7, <3>8
  <2> QED BY <2>1, <2>2
<1> QED BY <1>2, <1>3, StepCases

LEMMA AccountsStep ==
    ASSUME RInv, [Next]_vars
    PROVE  RowsHaveAccounts'
<1>1. CASE UNCHANGED <<currentRev, items>>
  BY <1>1 DEF RInv, RowsHaveAccounts
<1>2. ASSUME NEW r \in Reqs, Committing(r), NEW u \in Users, NEW i \in Items,
             items'[u][i] # NoRow
      PROVE  u \in Accounts
  <2>1. CASE u # call[r].user
    BY <1>2, <2>1, CommitEffect DEF RInv, IInv, RowsHaveAccounts
  <2>2. CASE u = call[r].user
    BY <1>2, <2>2, CommittingFacts DEF RInv, WritersFit, WriterFits
  <2> QED BY <2>1, <2>2
<1> QED BY <1>1, <1>2, TablesChangeByCommit DEF RowsHaveAccounts

LEMMA RInvHolds == Spec => []RInv
<1>1. Init => RowsHaveAccounts /\ WritersFit
  BY DEF Init, RowsHaveAccounts, NoRows, WritersFit, WriterFits
<1>2. RInv /\ [Next]_vars => RowsHaveAccounts' /\ WritersFit'
  BY AccountsStep, WriterFitsStep DEF WritersFit
<1>3. RInv /\ [Next]_vars /\ IInv' => RInv'
  BY <1>2 DEF RInv
<1>4. Init /\ IInv => RInv
  BY <1>1 DEF RInv
<1> QED BY <1>3, <1>4, IInvHolds, PTL DEF Spec

-----------------------------------------------------------------------------
(* Both stores speak of the same rows, requests and answers.               *)
LEMMA SameRows ==
    /\ Atomic!NoRow = NoRow
    /\ Atomic!NoRows = NoRows
    /\ \A c, r, k : Atomic!RowWritten(c, r, k) = RowWritten(c, r, k)
    /\ \A table, i : Atomic!RowsOnly(table, i) = RowsOnly(table, i)
    /\ \A table, since : Atomic!RowsSince(table, since) = RowsSince(table, since)
BY DEF Atomic!NoRow, NoRow, Atomic!NoRows, NoRows, Atomic!RowWritten, RowWritten,
       Atomic!LiveRow, LiveRow, Atomic!TombRow, TombRow, Atomic!RowsOnly, RowsOnly,
       Atomic!RowsSince, RowsSince

LEMMA SameCalls ==
    /\ Atomic!Calls = Calls
    /\ Atomic!NoCall = NoCall
    /\ \A c : Atomic!IsWrite(c) <=> IsWrite(c)
    /\ \A c : Atomic!IsMalformed(c) <=> IsMalformed(c)
BY DEF Atomic!Calls, Calls, Atomic!NoCall, NoCall, Atomic!IsWrite, IsWrite,
       Atomic!IsMalformed, IsMalformed

LEMMA SameReplies ==
    /\ Atomic!NoReply = NoReply
    /\ \A status : Atomic!Failure(status) = Failure(status)
    /\ \A k, rows : Atomic!Answer(k, rows) = Answer(k, rows)
    /\ \A c, r, k : Atomic!WriteAnswer(c, r, k) = WriteAnswer(c, r, k)
    /\ \A table, since, k :
        Atomic!ChangesAnswer(table, since, k) = ChangesAnswer(table, since, k)
BY SameRows
DEF Atomic!NoReply, NoReply, Atomic!Failure, Failure, Atomic!Answer, Answer,
    Atomic!WriteAnswer, WriteAnswer, Atomic!ChangesAnswer, ChangesAnswer

-----------------------------------------------------------------------------
(* Steps that stay between arrival and answer are invisible.               *)
LEMMA Invisible ==
    ASSUME Typed, NEW r \in Reqs, NEW s \in Steps \ {"idle", "done"},
           pc[r] \notin {"idle", "done"}, pc' = [pc EXCEPT ![r] = s],
           UNCHANGED <<currentRev, items, call, reply, asked>>
    PROVE  UNCHANGED Atomic!vars
<1>1. Phase' = Phase
  BY DEF Phase, Active, Typed, TypeOK
<1> QED BY <1>1 DEF Atomic!vars

(* A step that ends a request is a reply.                                  *)
LEMMA Answering ==
    ASSUME Typed, NEW r \in Reqs, NEW answer, pc[r] \notin {"idle", "done"}, Finish(r, answer)
    PROVE  Phase[r] = "pending" /\ Atomic!Reply(r, answer)
<1>1. Phase' = [Phase EXCEPT ![r] = "done"] /\ Phase[r] = "pending"
  BY DEF Phase, Active, Finish, Typed, TypeOK
<1> QED BY <1>1 DEF Finish, Atomic!Reply

LEMMA StepSimulation ==
    ASSUME RInv, [Next]_vars
    PROVE  [Atomic!Next]_(Atomic!vars)
<1> USE DEF RInv, IInv
<1>1. ASSUME NEW r \in Reqs, Arrive(r) PROVE Atomic!Arrive(r)
  <2>1. PICK c \in Calls :
          /\ ~ IsMalformed(c)
          /\ call' = [call EXCEPT ![r] = c]
          /\ asked' = [asked EXCEPT ![r] = currentRev[c.user]]
          /\ pc' = [pc EXCEPT ![r] = FirstStep(c.op)]
    BY <1>1 DEF Arrive
  <2>2. FirstStep(c.op) \notin {"idle", "done"}
    BY DEF FirstStep
  <2>3. Phase' = [Phase EXCEPT ![r] = "pending"] /\ Phase[r] = "idle"
    BY <1>1, <2>1, <2>2 DEF Arrive, Phase, Active, Typed, TypeOK
  <2> QED BY <1>1, <2>1, <2>3, SameCalls DEF Arrive, Atomic!Arrive
<1>2. ASSUME NEW r \in Reqs, Refuse(r) PROVE Atomic!Arrive(r)
  <2>1. PICK c \in Calls :
          /\ IsMalformed(c)
          /\ call' = [call EXCEPT ![r] = c]
          /\ asked' = [asked EXCEPT ![r] = currentRev[c.user]]
    BY <1>2 DEF Refuse
  <2>2. Phase' = [Phase EXCEPT ![r] = "done"] /\ Phase[r] = "idle"
    BY <1>2 DEF Refuse, Finish, Phase, Active, Typed, TypeOK
  <2>3. Atomic!Reply(r, Failure("bad_request"))
    BY <1>2, <2>2 DEF Refuse, Finish, Atomic!Reply
  <2> QED BY <1>2, <2>1, <2>2, <2>3, SameCalls, SameReplies DEF Refuse, Atomic!Arrive
<1>3. ASSUME NEW r \in Reqs,
             SetTakeRev(r) \/ SetUpsert(r) \/ DelMark(r) \/ DelBump(r) \/ ChgRev(r)
      PROVE  UNCHANGED Atomic!vars
  <2>1. /\ pc[r] \notin {"idle", "done"}
        /\ \E s \in {"set_item", "commit", "del_user", "chg_items"} : pc' = [pc EXCEPT ![r] = s]
        /\ UNCHANGED <<currentRev, items, call, reply, asked>>
    BY <1>3 DEF SetTakeRev, SetUpsert, DelMark, DelBump, ChgRev
  <2> QED BY <2>1, Invisible DEF Steps
<1>4. ASSUME NEW r \in Reqs, Committing(r) PROVE Atomic!Write(r)
  <2>1. /\ pc[r] = "commit" /\ Apply(r) /\ UNCHANGED <<call, asked>>
        /\ \/ Finish(r, Failure("failed"))
           \/ Finish(r, WriteAnswer(call[r], r, rev[r]))
    BY <1>4 DEF Committing, Commit, CommitUnheard
  <2>2. rev[r] = currentRev[call[r].user] + 1
    BY <1>4, CommitEffect
  <2>3. /\ IsWrite(call[r])
        /\ call[r].user \in Accounts
        /\ call[r].op = "delete" => items[call[r].user][call[r].item] # NoRow
    BY <2>1 DEF Typed, CallsFit, IsWrite, WritersFit, WriterFits
  <2>4. /\ Phase[r] = "pending"
        /\ \/ Atomic!Reply(r, Failure("failed"))
           \/ Atomic!Reply(r, WriteAnswer(call[r], r, rev[r]))
    BY <2>1, Answering
  <2> QED BY <2>1, <2>2, <2>3, <2>4, SameRows, SameCalls, SameReplies DEF Apply, Atomic!Write
<1>5. ASSUME NEW r \in Reqs, SetNoUser(r) \/ DelNotFound(r) \/ ChgNoUser(r)
      PROVE  Atomic!Miss(r)
  <2>1. UNCHANGED <<currentRev, items, call, asked>> /\ pc[r] \notin {"idle", "done"}
    BY <1>5 DEF SetNoUser, DelNotFound, ChgNoUser
  <2>2. CASE SetNoUser(r)
    BY <2>1, <2>2, Answering, SameRows, SameCalls, SameReplies DEF SetNoUser, Atomic!Miss, Typed, CallsFit
  <2>3. CASE DelNotFound(r)
    BY <2>1, <2>3, Answering, SameRows, SameCalls, SameReplies DEF DelNotFound, Atomic!Miss, Typed, CallsFit
  <2>4. CASE ChgNoUser(r)
    BY <2>1, <2>4, Answering, SameRows, SameCalls, SameReplies DEF ChgNoUser, Atomic!Miss, Typed, CallsFit
  <2> QED BY <1>5, <2>2, <2>3, <2>4
<1>6. ASSUME NEW r \in Reqs, Abort(r) \/ DeadlockVictim(r) PROVE Atomic!Fail(r)
  <2>1. /\ UNCHANGED <<currentRev, items, call, asked>> /\ pc[r] \notin {"idle", "done"}
        /\ \E status \in {"failed", "retryable"} : Finish(r, Failure(status))
    BY <1>6 DEF Abort, Active, DeadlockVictim, Deadlocked, WaitsFor, WaitsForUser, WaitsForItem
  <2> QED BY <2>1, Answering, SameRows, SameCalls, SameReplies DEF Atomic!Fail
<1>7. ASSUME NEW r \in Reqs, ReadOne(r) PROVE Atomic!Read(r) \/ Atomic!Miss(r)
  <2>1. CASE items[call[r].user][call[r].item] = NoRow
    BY <1>7, <2>1, Answering, SameRows, SameCalls, SameReplies DEF ReadOne, Atomic!Miss
  <2>2. CASE items[call[r].user][call[r].item] # NoRow
    BY <1>7, <2>2, Answering, SameRows, SameCalls, SameReplies DEF ReadOne, Atomic!Read
  <2> QED BY <2>1, <2>2
<1>8. ASSUME NEW r \in Reqs, ReadAll(r) PROVE Atomic!Read(r)
  BY <1>8, Answering, SameRows, SameCalls, SameReplies DEF ReadAll, Atomic!Read
<1>9. ASSUME NEW r \in Reqs, ChgNothingNew(r) \/ ChgItems(r) PROVE Atomic!Changes(r)
  <2>1. /\ pc[r] \in {"chg_rev", "chg_items"} /\ call[r].op = "changes"
        /\ call[r].since >= 0
        /\ UNCHANGED <<currentRev, items, call, asked>>
    BY <1>9 DEF ChgNothingNew, ChgItems, Typed, CallsFit
  <2>2. /\ call[r].user \in Users /\ call[r].since \in Int
        /\ currentRev[call[r].user] \in Nat /\ rev[r] \in Nat /\ asked[r] \in Nat
        /\ asked[r] =< currentRev[call[r].user]
    BY <2>1, ArrivedFacts DEF Typed, TypeOK, PromisesKept, PromiseKept
  <2>3. CASE ChgNothingNew(r)
    <3>1. call[r].user \in Accounts /\ call[r].since >= currentRev[call[r].user]
      BY <2>1, <2>2, <2>3 DEF ChgNothingNew
    <3>2. Finish(r, ChangesAnswer(items[call[r].user], call[r].since, currentRev[call[r].user]))
      BY <2>3, <3>1 DEF ChgNothingNew, ChangesAnswer
    <3> QED BY <2>1, <2>2, <3>1, <3>2, Answering, SameRows, SameCalls, SameReplies DEF Atomic!Changes
  <2>4. CASE ChgItems(r)
    <3>1. /\ pc[r] = "chg_items"
          /\ Finish(r, Answer(rev[r], RowsSince(items[call[r].user], call[r].since)))
      BY <2>4 DEF ChgItems
    <3>2. /\ rev[r] \in asked[r] .. currentRev[call[r].user]
          /\ ~ (call[r].since >= rev[r])
      BY <2>2, <3>1 DEF PromisesKept, PromiseKept
    <3>3. Finish(r, ChangesAnswer(items[call[r].user], call[r].since, rev[r]))
      BY <3>1, <3>2 DEF ChangesAnswer
    <3>4. call[r].user \in Accounts
      BY <3>1 DEF WritersFit, WriterFits
    <3> QED BY <2>1, <2>2, <3>2, <3>3, <3>4, Answering, SameRows, SameCalls, SameReplies DEF Atomic!Changes
  <2> QED BY <1>9, <2>3, <2>4
<1>10. CASE UNCHANGED vars
  <2>1. Phase' = Phase
    BY <1>10 DEF vars, Phase, Active
  <2> QED BY <1>10, <2>1 DEF vars, Atomic!vars
<1> QED
  BY <1>1, <1>2, <1>3, <1>4, <1>5, <1>6, <1>7, <1>8, <1>9, <1>10, StepCases
  DEF Failing, Reading, Atomic!Next

(* Every behaviour of the routes is a behaviour of the atomic store.       *)
THEOREM Refinement == Spec => ImplementsRevStore
<1>1. Init => Atomic!Init
  BY SameRows, SameCalls, SameReplies DEF Init, Atomic!Init, Phase, Active
<1>2. RInv /\ [Next]_vars => [Atomic!Next]_(Atomic!vars)
  BY StepSimulation
<1> QED BY <1>1, <1>2, RInvHolds, PTL DEF Spec, ImplementsRevStore, Atomic!Spec
=============================================================================
