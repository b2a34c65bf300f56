--------------------------- MODULE Accounts_proofs ---------------------------
(***************************************************************************)
(* Accounts for any number of logins, passwords and requests.  The         *)
(* inductive invariant adds to the properties what the unique index keeps: *)
(* a login with an uncommitted row has no committed row and no second      *)
(* uncommitted one.                                                        *)
(***************************************************************************)
EXTENDS Accounts, TLAPS

OneDraft ==
    \A r \in Reqs :
        pc[r] = "commit" => Row(r) = NoRow /\ ~ Contested(r)

(* Only a request that has arrived has a call, and only a call that has    *)
(* arrived is answered anything but "none".                                *)
CallsFit ==
    \A r \in Reqs :
        /\ pc[r] # "idle" => call[r] \in Calls
        /\ pc[r] \in {"insert", "commit"} => call[r].op = "register"
        /\ pc[r] = "lookup" => call[r].op = "login"
        /\ reply[r].status # "none" => pc[r] = "done"

IInv == TypeOK /\ CallsFit /\ OneDraft /\ ConflictMeansAccount /\ LoginsAgree

USE ShortAssumption, NoOneAssumption, NoPasswordAssumption

LEMMA InitIInv == Init => IInv
BY DEF Init, IInv, TypeOK, CallsFit, OneDraft, ConflictMeansAccount, LoginsAgree,
       Succeeded, Rows, NoRow, Replies, Failure, Errors

LEMMA TypeStep ==
    ASSUME TypeOK, CallsFit, [Next]_vars
    PROVE  TypeOK'
<1> USE DEF TypeOK, Rows, NoRow, Replies, Failure, Errors, Calls, NoCall
<1>1. ASSUME NEW r \in Reqs, Arrive(r) PROVE TypeOK'
  BY <1>1 DEF Arrive
<1>2. ASSUME NEW r \in Reqs, Refuse(r) PROVE TypeOK'
  BY <1>2 DEF Refuse, Finish
<1>3. ASSUME NEW r \in Reqs, Insert(r) PROVE TypeOK'
  BY <1>3 DEF Insert
<1>4. ASSUME NEW r \in Reqs, LoginTaken(r) PROVE TypeOK'
  BY <1>4 DEF LoginTaken, Finish
<1>5. ASSUME NEW r \in Reqs, Commit(r) PROVE TypeOK'
  BY <1>5 DEF Commit, CreateUser, Finish, Draft, Answer, CallsFit
<1>6. ASSUME NEW r \in Reqs, CommitFails(r) PROVE TypeOK'
  BY <1>6 DEF CommitFails, Finish, Draft, Answer
<1>7. ASSUME NEW r \in Reqs, CommitUnheard(r) PROVE TypeOK'
  BY <1>7 DEF CommitUnheard, CreateUser, Finish, Draft, CallsFit
<1>8. ASSUME NEW r \in Reqs, LoginOk(r) PROVE TypeOK'
  <2>1. call[r] \in Calls
    BY <1>8 DEF LoginOk, CallsFit
  <2>2. Row(r) \in Rows
    BY <1>8, <2>1 DEF LoginOk, Row
  <2> QED
    BY <1>8, <2>2 DEF LoginOk, Finish, Answer
<1>9. ASSUME NEW r \in Reqs, LoginRefused(r) PROVE TypeOK'
  BY <1>9 DEF LoginRefused, Finish
<1>10. ASSUME NEW r \in Reqs, Abort(r) PROVE TypeOK'
  BY <1>10 DEF Abort, Finish
<1>11. CASE UNCHANGED vars
  BY <1>11 DEF vars
<1> QED
  BY <1>1, <1>2, <1>3, <1>4, <1>5, <1>6, <1>7, <1>8, <1>9, <1>10, <1>11
  DEF Next, Progress

LEMMA CallsStep ==
    ASSUME TypeOK, CallsFit, [Next]_vars
    PROVE  CallsFit'
<1> USE DEF TypeOK, CallsFit, Failure, Answer, Calls
<1>1. ASSUME NEW r \in Reqs, Arrive(r) PROVE CallsFit'
  BY <1>1 DEF Arrive
<1>2. ASSUME NEW r \in Reqs, Refuse(r) PROVE CallsFit'
  BY <1>2 DEF Refuse, Finish
<1>3. ASSUME NEW r \in Reqs, Progress(r) \/ CommitUnheard(r) \/ Abort(r)
      PROVE  CallsFit'
  BY <1>3 DEF Progress, Insert, LoginTaken, Commit, CommitFails, CommitUnheard,
              LoginOk, LoginRefused, Abort, Active, Finish
<1>4. CASE UNCHANGED vars
  BY <1>4 DEF vars
<1> QED
  BY <1>1, <1>2, <1>3, <1>4 DEF Next

LEMMA DraftStep ==
    ASSUME TypeOK, CallsFit, OneDraft, [Next]_vars
    PROVE  OneDraft'
<1> USE DEF TypeOK, OneDraft, Row, Contested
<1>1. ASSUME NEW r \in Reqs, Arrive(r) PROVE OneDraft'
  BY <1>1 DEF Arrive
<1>2. ASSUME NEW r \in Reqs, Refuse(r) PROVE OneDraft'
  BY <1>2 DEF Refuse, Finish
<1>3. ASSUME NEW r \in Reqs, Insert(r) PROVE OneDraft'
  BY <1>3 DEF Insert
<1>4. ASSUME NEW r \in Reqs, Commit(r) \/ CommitUnheard(r) PROVE OneDraft'
  <2> SUFFICES ASSUME NEW q \in Reqs, pc'[q] = "commit"
               PROVE  (Row(q) = NoRow /\ ~ Contested(q))'
    OBVIOUS
  <2>1. q # r /\ pc[q] = "commit" /\ call' = call
    BY <1>4 DEF Commit, CommitUnheard, Finish
  <2>2. call[q].login # call[r].login
    BY <1>4, <2>1 DEF Commit, CommitUnheard
  <2>3. call[q] \in Calls /\ call[r] \in Calls
    BY <1>4, <2>1 DEF Commit, CommitUnheard, CallsFit
  <2>4. Row(q)' = Row(q)
    BY <1>4, <2>1, <2>2, <2>3 DEF Commit, CommitUnheard, CreateUser, Calls
  <2> QED
    BY <1>4, <2>1, <2>4 DEF Commit, CommitUnheard, Finish
<1>5. ASSUME NEW r \in Reqs,
             LoginTaken(r) \/ CommitFails(r) \/ LoginOk(r) \/ LoginRefused(r) \/ Abort(r)
      PROVE  OneDraft'
  BY <1>5 DEF LoginTaken, CommitFails, LoginOk, LoginRefused, Abort, Finish
<1>6. CASE UNCHANGED vars
  BY <1>6 DEF vars
<1> QED
  BY <1>1, <1>2, <1>3, <1>4, <1>5, <1>6 DEF Next, Progress

(* A committed account is never touched again.                             *)
LEMMA AccountsStep ==
    ASSUME TypeOK, CallsFit, OneDraft, [Next]_vars
    PROVE  \A l \in Logins : users[l] # NoRow => users'[l] = users[l]
<1>1. ASSUME NEW r \in Reqs, Commit(r) \/ CommitUnheard(r),
             NEW l \in Logins, users[l] # NoRow
      PROVE  users'[l] = users[l]
  <2>1. call[r].login # l
    BY <1>1 DEF Commit, CommitUnheard, OneDraft, Row
  <2> QED
    BY <1>1, <2>1 DEF Commit, CommitUnheard, CreateUser, TypeOK
<1>2. ASSUME NEW r \in Reqs, ~ (Commit(r) \/ CommitUnheard(r)),
             Arrive(r) \/ Refuse(r) \/ Progress(r) \/ Abort(r)
      PROVE  users' = users
  BY <1>2 DEF Arrive, Refuse, Progress, Insert, LoginTaken, CommitFails, LoginOk,
              LoginRefused, Abort
<1> QED
  BY <1>1, <1>2 DEF Next, Progress, vars

LEMMA ConflictStep ==
    ASSUME TypeOK, CallsFit, OneDraft, ConflictMeansAccount, [Next]_vars
    PROVE  ConflictMeansAccount'
<1> SUFFICES ASSUME NEW q \in Reqs, reply'[q].status = "user_exists"
             PROVE  users'[call'[q].login] # NoRow
  BY DEF ConflictMeansAccount
<1>1. CASE reply[q].status = "user_exists"
  <2>1. pc[q] = "done" /\ call[q] \in Calls
    BY <1>1 DEF CallsFit
  <2>2. call'[q] = call[q]
    BY <2>1 DEF Next, Progress, Arrive, Refuse, Insert, LoginTaken, Commit, CommitFails,
                CommitUnheard, LoginOk, LoginRefused, Abort, vars, TypeOK
  <2>3. call[q].login \in Logins /\ users[call[q].login] # NoRow
    BY <1>1, <2>1 DEF ConflictMeansAccount, Calls
  <2> QED
    BY <2>2, <2>3, AccountsStep
<1>2. CASE reply[q].status # "user_exists"
  <2>1. LoginTaken(q)
    BY <1>2 DEF Next, Progress, Arrive, Refuse, Insert, LoginTaken, Commit, CommitFails,
                CommitUnheard, LoginOk, LoginRefused, Abort, Finish, Failure, Answer, vars,
                TypeOK
  <2> QED
    BY <2>1 DEF LoginTaken, Row
<1> QED
  BY <1>1, <1>2

LEMMA LoginsStep ==
    ASSUME TypeOK, CallsFit, OneDraft, LoginsAgree, [Next]_vars
    PROVE  LoginsAgree'
<1> SUFFICES ASSUME NEW q \in Reqs, Succeeded(q)', call'[q].op = "login"
             PROVE  users'[call'[q].login] =
                        [by |-> reply'[q].account, pass |-> call'[q].pass]
  BY DEF LoginsAgree
<1>1. CASE pc[q] = "done"
  <2>1. call'[q] = call[q] /\ reply'[q] = reply[q]
    BY <1>1 DEF Next, Progress, Arrive, Refuse, Insert, LoginTaken, Commit, CommitFails,
                CommitUnheard, LoginOk, LoginRefused, Abort, Active, Finish, vars, TypeOK
  <2>2. call[q] \in Calls
    BY <1>1 DEF CallsFit
  <2>3. users[call[q].login] = [by |-> reply[q].account, pass |-> call[q].pass]
    BY <1>1, <2>1 DEF LoginsAgree, Succeeded
  <2>4. users[call[q].login] # NoRow
    BY <2>2, <2>3 DEF NoRow, Calls
  <2> QED
    BY <2>1, <2>2, <2>3, <2>4, AccountsStep DEF Calls
<1>2. CASE pc[q] # "done"
  <2>1. LoginOk(q)
    BY <1>2 DEF Next, Progress, Arrive, Refuse, Insert, LoginTaken, Commit, CommitFails,
                CommitUnheard, LoginOk, LoginRefused, Abort, Finish, Failure, Answer, vars,
                TypeOK, CallsFit, Succeeded
  <2>2. call[q] \in Calls
    BY <2>1 DEF LoginOk, CallsFit
  <2>3. Row(q) \in Rows
    BY <2>1, <2>2 DEF LoginOk, Row, TypeOK, NoRow, Calls
  <2> QED
    BY <2>1, <2>3 DEF LoginOk, Finish, Answer, Row, Rows, TypeOK
<1> QED
  BY <1>1, <1>2

LEMMA NextIInv == IInv /\ [Next]_vars => IInv'
BY TypeStep, CallsStep, DraftStep, ConflictStep, LoginsStep DEF IInv

LEMMA IInvHolds == Spec => []IInv
BY InitIInv, NextIInv, PTL DEF Spec

(* Every reachable state of registration and login is well typed; an error *)
(* answer carries no account, a success always does.                       *)
THEOREM TypeCorrect == Spec => []TypeOK
<1>1. IInv => TypeOK
  BY DEF IInv
<1> QED
  BY <1>1, IInvHolds, PTL

(* 409 is answered only where a committed account stands, for any number   *)
(* of registrations racing, rolled back or cut off.                        *)
THEOREM ConflictsAreReal == Spec => []ConflictMeansAccount
<1>1. IInv => ConflictMeansAccount
  BY DEF IInv
<1> QED
  BY <1>1, IInvHolds, PTL

(* All successful logins of a name agree with the table, and so with each  *)
(* other, on account, salt and password.                                   *)
THEOREM LoginsCorrect == Spec => []LoginsAgree
<1>1. IInv => LoginsAgree
  BY DEF IInv
<1> QED
  BY <1>1, IInvHolds, PTL

(* No step replaces a committed account.                                   *)
THEOREM AccountsStay == Spec => AccountsNeverChange
<1>1. IInv /\ [Next]_vars => [\A l \in Logins : users[l] # NoRow => users'[l] = users[l]]_vars
  BY AccountsStep DEF IInv
<1> QED
  BY <1>1, IInvHolds, PTL DEF Spec, AccountsNeverChange
=============================================================================
