------------------------------ MODULE Accounts -------------------------------
(***************************************************************************)
(* Registration and login: the auth handlers, AuthService and              *)
(* internal/repository/auth_repository.go over the users table.            *)
(*                                                                         *)
(* A registration draws a salt, hashes the password and inserts a row in a *)
(* transaction of its own; the row's id comes from the database.  Id and   *)
(* salt are fresh for every attempt, so both are told by the request that  *)
(* made them.  A login reads the committed row and compares the password.  *)
(*                                                                         *)
(* users.login is unique: an INSERT that meets an uncommitted row of the   *)
(* same login waits for that transaction to end, and fails only if it      *)
(* commits.                                                                *)
(***************************************************************************)

CONSTANTS
    Logins,
    Passwords,  \* passwords as trimmed by checkAuthData, at most 72 bytes long
    Short,      \* those of them with fewer than 8 bytes
    Reqs,       \* requests, each used once
    NoOne,      \* uuid.Nil: the id in no account and in no answer
    NoPassword

ASSUME ShortAssumption == Short \subseteq Passwords
ASSUME NoOneAssumption == NoOne \notin Reqs
ASSUME NoPasswordAssumption == NoPassword \notin Passwords

VARIABLES
    users,   \* users[login]: the committed row
    call,    \* call[r]: the request
    pc,      \* pc[r]: where its handler is
    reply    \* reply[r]: what the handler answered

vars == <<users, call, pc, reply>>

(* A row: the request whose id and salt it holds, and the password hashed. *)
Rows == [by : Reqs, pass : Passwords]
NoRow == [by |-> NoOne, pass |-> NoPassword]

Calls == [op : {"register", "login"}, login : Logins, pass : Passwords]
NoCall == [op |-> "none", login |-> "none", pass |-> NoPassword]

(* checkAuthData: "password should be at leaast 8 characters".             *)
IsMalformed(c) == c.pass \in Short

Errors == {"none", "bad_request", "user_exists", "unauthorized", "failed"}

(* A success carries an account: its id, in the token, and its salt.       *)
Replies == [status : {"ok"}, account : Reqs] \cup [status : Errors, account : {NoOne}]
Failure(status) == [status |-> status, account |-> NoOne]
Answer(row) == [status |-> "ok", account |-> row.by]

Init ==
    /\ users = [l \in Logins |-> NoRow]
    /\ call = [r \in Reqs |-> NoCall]
    /\ pc = [r \in Reqs |-> "idle"]
    /\ reply = [r \in Reqs |-> Failure("none")]

Active(r) == pc[r] \notin {"idle", "done"}

Row(r) == users[call[r].login]

(* The row r inserts.                                                      *)
Draft(r) == [by |-> r, pass |-> call[r].pass]

Finish(r, answer) ==
    /\ pc' = [pc EXCEPT ![r] = "done"]
    /\ reply' = [reply EXCEPT ![r] = answer]

-----------------------------------------------------------------------------

Arrive(r) ==
    /\ pc[r] = "idle"
    /\ \E c \in Calls :
        /\ ~ IsMalformed(c)
        /\ call' = [call EXCEPT ![r] = c]
        /\ pc' = [pc EXCEPT ![r] = IF c.op = "register" THEN "insert" ELSE "lookup"]
    /\ UNCHANGED <<users, reply>>

Refuse(r) ==
    /\ pc[r] = "idle"
    /\ \E c \in Calls :
        /\ IsMalformed(c)
        /\ call' = [call EXCEPT ![r] = c]
    /\ Finish(r, Failure("bad_request"))
    /\ UNCHANGED users

-----------------------------------------------------------------------------
(* RegisterUser.                                                           *)

(* Someone else's insert of this login has not been committed yet.         *)
Contested(r) ==
    \E q \in Reqs \ {r} : pc[q] = "commit" /\ call[q].login = call[r].login

(* Fault: nothing makes an insert wait, as if login were not unique.       *)
Insert_NotUnique(r) ==
    /\ pc[r] = "insert"
    /\ Row(r) = NoRow
    /\ pc' = [pc EXCEPT ![r] = "commit"]
    /\ UNCHANGED <<users, call, reply>>

Insert(r) ==
    /\ pc[r] = "insert"
    /\ Row(r) = NoRow
    /\ ~ Contested(r)
    /\ pc' = [pc EXCEPT ![r] = "commit"]
    /\ UNCHANGED <<users, call, reply>>

(* Fault: a login somebody is about to take is reported as taken.          *)
LoginTaken_Early(r) ==
    /\ pc[r] = "insert"
    /\ Row(r) # NoRow \/ Contested(r)
    /\ Finish(r, Failure("user_exists"))
    /\ UNCHANGED <<users, call>>

(* A unique violation is ErrUserExists, 409.                               *)
LoginTaken(r) ==
    /\ pc[r] = "insert"
    /\ Row(r) # NoRow
    /\ Finish(r, Failure("user_exists"))
    /\ UNCHANGED <<users, call>>

CreateUser(r) == users' = [users EXCEPT ![call[r].login] = Draft(r)]

(* The deferred Commit.                                                    *)
Commit(r) ==
    /\ pc[r] = "commit"
    /\ CreateUser(r)
    /\ Finish(r, Answer(Draft(r)))
    /\ UNCHANGED call

(* Fault: a failed commit is tried again and again.                        *)
CommitFails_Retries(r) ==
    /\ pc[r] = "commit"
    /\ pc' = [pc EXCEPT ![r] = "insert"]
    /\ UNCHANGED <<users, call, reply>>

(* Commit fails (the three seconds are over, the connection is gone) and   *)
(* the row is rolled back.  The deferred function assigns the error to a   *)
(* local variable after "return id, nil" has set the results: the caller   *)
(* gets the id and no error, and the handler answers 200 with a token.     *)
CommitFails(r) ==
    /\ pc[r] = "commit"
    /\ Finish(r, Answer(Draft(r)))
    /\ UNCHANGED <<users, call>>

(* The account is created and its answer does not reach the caller.        *)
CommitUnheard(r) ==
    /\ pc[r] = "commit"
    /\ CreateUser(r)
    /\ Finish(r, Failure("failed"))
    /\ UNCHANGED call

-----------------------------------------------------------------------------
(* LoginUser.                                                              *)

(* Fault: the row is read at READ UNCOMMITTED.                             *)
LoginOk_Dirty(r) ==
    /\ pc[r] = "lookup"
    /\ \/ Row(r).pass = call[r].pass /\ Finish(r, Answer(Row(r)))
       \/ \E q \in Reqs :
            /\ pc[q] = "commit" /\ call[q].login = call[r].login
            /\ call[q].pass = call[r].pass
            /\ Finish(r, Answer(Draft(q)))
    /\ UNCHANGED <<users, call>>

(* Fault: a missing row is not told from a found one.                      *)
LoginOk_NoRow(r) ==
    /\ pc[r] = "lookup"
    /\ Row(r).pass \in {call[r].pass, NoPassword}
    /\ Finish(r, Answer(Row(r)))
    /\ UNCHANGED <<users, call>>

LoginOk(r) ==
    /\ pc[r] = "lookup"
    /\ Row(r).pass = call[r].pass
    /\ Finish(r, Answer(Row(r)))
    /\ UNCHANGED <<users, call>>

(* ErrUserNotFound and ErrInvalidCredentials are both 401.                 *)
LoginRefused(r) ==
    /\ pc[r] = "lookup"
    /\ Row(r).pass # call[r].pass
    /\ Finish(r, Failure("unauthorized"))
    /\ UNCHANGED <<users, call>>

-----------------------------------------------------------------------------

(* Any error before the commit, a crash included: an open transaction is   *)
(* rolled back and the caller gets 500, or nothing.                        *)
Abort(r) ==
    /\ Active(r)
    /\ Finish(r, Failure("failed"))
    /\ UNCHANGED <<users, call>>

Progress(r) ==
    \/ Insert(r) \/ LoginTaken(r) \/ Commit(r) \/ CommitFails(r)
    \/ LoginOk(r) \/ LoginRefused(r)

Next ==
    \E r \in Reqs :
        Arrive(r) \/ Refuse(r) \/ Progress(r) \/ CommitUnheard(r) \/ Abort(r)

Spec == Init /\ [][Next]_vars

(* A request that has arrived keeps being scheduled; nothing has to fail.  *)
FairSpec == Spec /\ \A r \in Reqs : WF_vars(Progress(r))

-----------------------------------------------------------------------------

TypeOK ==
    /\ users \in [Logins -> Rows \cup {NoRow}]
    /\ call \in [Reqs -> Calls \cup {NoCall}]
    /\ pc \in [Reqs -> {"idle", "insert", "commit", "lookup", "done"}]
    /\ reply \in [Reqs -> Replies]

Succeeded(r) == pc[r] = "done" /\ reply[r].status = "ok"

(* A registration refused with 409 means that the account is really there  *)
(* and stays there: a loser of a race is told so only after the winner has *)
(* committed, never on account of one that may still be rolled back.       *)
ConflictMeansAccount ==
    \A r \in Reqs :
        reply[r].status = "user_exists" => users[call[r].login] # NoRow

(* Every successful login of a name was answered with the account that     *)
(* stands in the table now, and whoever logged in knew its password.  So   *)
(* all logins ever answered agree on the id and on the KDF salt, and what  *)
(* one device encrypts the next one can decrypt.                           *)
LoginsAgree ==
    \A r \in Reqs :
        Succeeded(r) /\ call[r].op = "login" =>
            users[call[r].login] = [by |-> reply[r].account, pass |-> call[r].pass]

(* An account, once committed, is never replaced by a racing registration: *)
(* its id, salt and password hash stay what they are.                      *)
AccountsNeverChange ==
    [][\A l \in Logins : users[l] # NoRow => users'[l] = users[l]]_vars

(* A registration that waits for another one, and every login, is answered *)
(* in the end.                                                             *)
EveryRequestAnswered == \A r \in Reqs : Active(r) ~> pc[r] = "done"

(* "RegisterUser creates a new user record and returns its ID."            *)
(* (auth_repository.go:52): the account of a successful registration is in *)
(* the table.                                                              *)
RegisteredUserExists ==
    \A r \in Reqs :
        Succeeded(r) /\ call[r].op = "register" => users[call[r].login] = Draft(r)
=============================================================================
