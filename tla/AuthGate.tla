------------------------------- MODULE AuthGate --------------------------------
(***************************************************************************)
(* The life of an access token: GenerateToken (service/auth_service.go),   *)
(* WithAuth (middleware/auth_middleware.go) and the state file the client  *)
(* keeps the token in (clientapp/app.go), against the server's clock.      *)
(*                                                                         *)
(* now counts ticks, Sec to a second; a claim holds whole seconds only.    *)
(* Nothing renews a token and nothing revokes one: a command uses the      *)
(* token that was in the state when it started, whenever its request       *)
(* arrives and whoever has logged in since.  A body is read behind         *)
(* WithAuth, and http.Server sets no timeout for that.  Signing is taken   *)
(* as sound: a token that passes came from GenerateToken.  The clock does  *)
(* not go back.                                                            *)
(***************************************************************************)
EXTENDS Integers

CONSTANTS
    Users, Devices, Slots,
    Sec,      \* ticks in a second
    Life,     \* seconds a token lives, in the code 15 minutes
    Handle,   \* ticks a service may work on a request (the longest deadline)
    MaxTime,  \* bound: ticks
    Nobody    \* uuid.Nil, user of an empty state

ASSUME TimeAssumption ==
    /\ Sec \in Nat /\ Sec > 0
    /\ Life \in Nat /\ Handle \in Nat /\ MaxTime \in Nat
ASSUME NobodyAssumption == Nobody \notin Users

VARIABLES
    now,     \* the server's clock
    state,   \* state[d]: the token in the state file
    pc,      \* pc[p]: the step of the command of process p, "idle" if none
    cmd,     \* cmd[p]: "login", "sync", "set" or "delete"
    token,   \* token[p]: the token of the process
    loaded,  \* loaded[p]: the token in the state a sync loaded
    passed,  \* passed[p]: when WithAuth let the request pass
    since,   \* since[p]: when the service began, and its deadline with it
    last,    \* what came of the last request behind WithAuth
    saved    \* saved[d]: the token of the last login that was persisted

local == <<pc, cmd, token, loaded, passed, since>>
vars == <<now, state, pc, cmd, token, loaded, passed, since, last, saved>>

Procs == Devices \X Slots
Dev(p) == p[1]

(* The claims, in ticks; born is when exp was computed.                    *)
Time == 0 .. MaxTime
Exp == 0 .. MaxTime + Life * Sec
Tokens == [user : Users, exp : Exp, iat : Time, born : Time]
NoToken == [user |-> Nobody, exp |-> 0, iat |-> 0, born |-> 0]

Commands == {"none", "login", "sync", "set", "delete"}
Verdicts == {"none", "invalid", "expired", "served"}
Requests == [result : Verdicts, op : Commands, token : Tokens \cup {NoToken},
             passed : Time, at : Time]
NoRequest == [result |-> "none", op |-> "none", token |-> NoToken, passed |-> 0, at |-> 0]

Init ==
    /\ now = 0
    /\ state = [d \in Devices |-> NoToken]
    /\ pc = [p \in Procs |-> "idle"]
    /\ cmd = [p \in Procs |-> "none"]
    /\ token = [p \in Procs |-> NoToken]
    /\ loaded = [p \in Procs |-> NoToken]
    /\ passed = [p \in Procs |-> 0]
    /\ since = [p \in Procs |-> 0]
    /\ last = NoRequest
    /\ saved = [d \in Devices |-> NoToken]

Go(p, step) == pc' = [pc EXCEPT ![p] = step]

Exit(p) ==
    /\ Go(p, "idle")
    /\ cmd' = [cmd EXCEPT ![p] = "none"]
    /\ token' = [token EXCEPT ![p] = NoToken]
    /\ loaded' = [loaded EXCEPT ![p] = NoToken]
    /\ passed' = [passed EXCEPT ![p] = 0]
    /\ since' = [since EXCEPT ![p] = 0]

Tick ==
    /\ now < MaxTime
    /\ now' = now + 1
    /\ UNCHANGED <<state, local, last, saved>>

-----------------------------------------------------------------------------
(* jwt.NewNumericDate drops the fraction of a second.                      *)

(* Fault: the fraction is rounded up.                                      *)
NumericDate_Up(t) == IF t % Sec = 0 THEN t ELSE t - (t % Sec) + Sec

(* Fault: a claim is the second that comes next.                           *)
NumericDate_Next(t) == t - (t % Sec) + Sec

NumericDate(t) == t - (t % Sec)

(* The login request is accepted; GenerateToken reads the clock for exp.   *)
Login(p) ==
    /\ pc[p] = "idle"
    /\ \E u \in Users :
        token' = [token EXCEPT ![p] =
                    [user |-> u, exp |-> NumericDate(now + Life * Sec), iat |-> 0, born |-> now]]
    /\ cmd' = [cmd EXCEPT ![p] = "login"]
    /\ Go(p, "sign")
    /\ UNCHANGED <<now, state, loaded, passed, since, last, saved>>

(* It reads the clock again for iat, and signs.                            *)
Sign(p) ==
    /\ pc[p] = "sign"
    /\ token' = [token EXCEPT ![p].iat = NumericDate(now)]
    /\ Go(p, "save_login")
    /\ UNCHANGED <<now, state, cmd, loaded, passed, since, last, saved>>

(* The client has the answer and persists the state.                       *)
SaveLogin(p) ==
    /\ pc[p] = "save_login"
    /\ state' = [state EXCEPT ![Dev(p)] = token[p]]
    /\ saved' = [saved EXCEPT ![Dev(p)] = token[p]]
    /\ Go(p, "load")
    /\ UNCHANGED <<now, cmd, token, loaded, passed, since, last>>

(* PersistentPreRunE sets the token; without one no request is made.       *)
Start(p) ==
    /\ pc[p] = "idle"
    /\ state[Dev(p)] # NoToken
    /\ token' = [token EXCEPT ![p] = state[Dev(p)]]
    /\ \/ cmd' = [cmd EXCEPT ![p] = "sync"] /\ Go(p, "load")
       \/ \E c \in {"set", "delete"} : cmd' = [cmd EXCEPT ![p] = c] /\ Go(p, "send")
    /\ UNCHANGED <<now, state, loaded, passed, since, last, saved>>

(* Fault: a login's sync goes on with the state from before the login.     *)
Load_Stale(p) ==
    /\ pc[p] = "load"
    /\ loaded' = [loaded EXCEPT ![p] = IF cmd[p] = "login" THEN NoToken ELSE state[Dev(p)]]
    /\ Go(p, "send")
    /\ UNCHANGED <<now, state, cmd, token, passed, since, last, saved>>

(* SyncChanges loads the state.                                            *)
Load(p) ==
    /\ pc[p] = "load"
    /\ loaded' = [loaded EXCEPT ![p] = state[Dev(p)]]
    /\ Go(p, "send")
    /\ UNCHANGED <<now, state, cmd, token, passed, since, last, saved>>

-----------------------------------------------------------------------------
(* WithAuth.                                                               *)

(* The Authorization headers that hold no token of GenerateToken's: absent *)
(* or not Bearer, empty, no JWT, signed with another key or algorithm,     *)
(* without a user.                                                         *)
BadHeaders == {"no_bearer", "empty", "malformed", "bad_signature", "nil_user"}

(* Fault: a token is good through the second it expires in.                *)
Check_Leeway(t) ==
    IF ~ (now < t.exp + Sec) THEN "expired" ELSE IF t.iat > now THEN "invalid" ELSE "served"

Check(t) ==
    IF ~ (now < t.exp) THEN "expired" ELSE IF t.iat > now THEN "invalid" ELSE "served"

(* What came of p's request.                                               *)
Outcome(p, result) ==
    [result |-> result, op |-> cmd[p], token |-> token[p], passed |-> passed[p], at |-> now]

(* A request of another client that has no token.                          *)
Stray ==
    /\ \E h \in BadHeaders : last' = [NoRequest EXCEPT !.result = "invalid", !.at = now]
    /\ UNCHANGED <<now, state, local, saved>>

(* WithAuth hands on: only SetItem has a body to read, the others call the *)
(* service, which starts its deadline.                                     *)
Pass(p) ==
    /\ pc[p] = "send"
    /\ Check(token[p]) = "served"
    /\ passed' = [passed EXCEPT ![p] = now]
    /\ since' = [since EXCEPT ![p] = now]
    /\ Go(p, IF cmd[p] = "set" THEN "body" ELSE "handle")
    /\ UNCHANGED <<now, state, cmd, token, loaded, last, saved>>

(* 401, and the command fails.                                             *)
Reject(p) ==
    /\ pc[p] = "send"
    /\ Check(token[p]) # "served"
    /\ last' = Outcome(p, Check(token[p]))
    /\ Exit(p)
    /\ UNCHANGED <<now, state, saved>>

(* The last of the body is there, at any time.  Only now does the service  *)
(* start its deadline; the token is not looked at again.                   *)
BodyRead(p) ==
    /\ pc[p] = "body"
    /\ since' = [since EXCEPT ![p] = now]
    /\ Go(p, "handle")
    /\ UNCHANGED <<now, state, cmd, token, loaded, passed, last, saved>>

(* The service asks the database for the last time, to commit or to read,  *)
(* as the user of the token, before its deadline.                          *)
Serve(p) ==
    /\ pc[p] = "handle"
    /\ now =< since[p] + Handle
    /\ last' = Outcome(p, "served")
    /\ IF cmd[p] \in {"set", "delete"}
       THEN Exit(p)
       ELSE Go(p, "save_rev") /\ UNCHANGED <<cmd, token, loaded, passed, since>>
    /\ UNCHANGED <<now, state, saved>>

(* SyncChanges writes the whole state back that it loaded.                 *)
SaveRev(p) ==
    /\ pc[p] = "save_rev"
    /\ state' = [state EXCEPT ![Dev(p)] = loaded[p]]
    /\ Exit(p)
    /\ UNCHANGED <<now, last, saved>>

(* An error, a timeout, the end of the process.                            *)
Stop(p) ==
    /\ pc[p] # "idle"
    /\ Exit(p)
    /\ UNCHANGED <<now, state, last, saved>>

Step(p) ==
    \/ Login(p) \/ Sign(p) \/ SaveLogin(p) \/ Start(p) \/ Load(p)
    \/ Pass(p) \/ Reject(p) \/ BodyRead(p) \/ Serve(p) \/ SaveRev(p) \/ Stop(p)

Next == Tick \/ Stray \/ \E p \in Procs : Step(p)

Spec == Init /\ [][Next]_vars

-----------------------------------------------------------------------------

Steps == {"idle", "sign", "save_login", "load", "send", "body", "handle", "save_rev"}

TypeOK ==
    /\ now \in Time
    /\ state \in [Devices -> Tokens \cup {NoToken}]
    /\ pc \in [Procs -> Steps]
    /\ cmd \in [Procs -> Commands]
    /\ token \in [Procs -> Tokens \cup {NoToken}]
    /\ loaded \in [Procs -> Tokens \cup {NoToken}]
    /\ passed \in [Procs -> Time]
    /\ since \in [Procs -> Time]
    /\ last \in Requests
    /\ saved \in [Devices -> Tokens \cup {NoToken}]

(* Whatever is done behind WithAuth is done as a user who logged in, and   *)
(* passed WithAuth in the token's life.  A request without a body is over  *)
(* a handler's deadline later than that life: however long the command was *)
(* held up before its request, and whoever has logged in on the device     *)
(* since.  Of a set there is no such bound: its body is read behind        *)
(* WithAuth, for as long as its client takes.                              *)
AccessEndsInTime ==
    last.result = "served" =>
        /\ last.token.user \in Users
        /\ last.passed - last.token.born < Life * Sec
        /\ last.op # "set" => last.at - last.token.born < Life * Sec + Handle

(* A token from a login is refused for no other reason than its age, and   *)
(* not a full second before its time: neither the two clock readings of    *)
(* GenerateToken nor the dropped fractions make a fresh one unusable.      *)
RefusedOnlyWhenOld ==
    last.token # NoToken /\ last.result # "served" =>
        /\ last.result = "expired"
        /\ last.at - last.token.born > (Life - 1) * Sec

(* What a login persists stays until the next login: the state file holds  *)
(* the token of the last login.                                            *)
LoginPersisted == state = saved
=============================================================================
