---------------------------- MODULE ServerLifecycle ----------------------------
(***************************************************************************)
(* Start and stop of the server: main, runServer and gracefulStop          *)
(* (cmd/server/main.go) around the requests in flight.                     *)
(*                                                                         *)
(* Time is in seconds.  A handler works until its service method's         *)
(* deadline at the latest; reading a request's body and writing a long     *)
(* answer may take forever, no timeout of http.Server is set.              *)
(* Of net/http (external): Shutdown closes the listener, waits for the     *)
(* requests in flight and gives up with its context; a signal that nobody  *)
(* asked for kills the process.                                            *)
(***************************************************************************)
EXTENDS Integers

CONSTANTS
    Reqs,    \* requests in flight at a time
    Timeout  \* seconds gracefulStop waits, in the code 5

ASSUME TimeoutAssumption == Timeout \in Nat

VARIABLES
    main,       \* where the main goroutine is
    listener,   \* where ListenAndServe is, in a goroutine of its own
    signalled,  \* the context of NotifyContext is done
    waited,     \* seconds since Shutdown was called
    req,        \* req[r]: a request in flight
    outcome     \* how the process ended

vars == <<main, listener, signalled, waited, req, outcome>>

(* The routes, and the deadlines of their service methods.                 *)
WithBody == {"register", "login", "set"}
LongAnswer == {"get", "list", "changes"}
Routes == WithBody \cup {"get", "delete", "list", "changes"}

Limit(op) ==
    CASE op \in {"register", "login"} -> 3
      [] op \in {"get", "set"} -> 4
      [] op = "delete" -> 5
      [] op \in {"list", "changes"} -> 10

(* age: seconds since the handler called the service.                      *)
Requests == [stage : {"none", "body", "handle", "write"}, op : Routes, age : 0 .. 10]

NoRequest == [stage |-> "none", op |-> "get", age |-> 0]
InFlight(r) == req[r].stage # "none"
Handled(r) == req[r].stage = "handle"

Init ==
    /\ main = "init"
    /\ listener = "none"
    /\ signalled = FALSE
    /\ waited = 0
    /\ req = [r \in Reqs |-> NoRequest]
    /\ outcome = "none"

Alive == main # "exited"

(* The process ends; what is in flight stays without an answer.            *)
End(how) ==
    /\ main' = "exited"
    /\ outcome' = how

-----------------------------------------------------------------------------
(* The main goroutine.                                                     *)

(* No logger, no configuration or no database: Fatalw.                     *)
StartFails ==
    /\ main = "init"
    /\ End("fatal")
    /\ UNCHANGED <<listener, signalled, waited, req>>

(* Configuration, database and routes are ready: go runServer.             *)
GoServe ==
    /\ main = "init"
    /\ main' = "serving"
    /\ listener' = "starting"
    /\ UNCHANGED <<signalled, waited, req, outcome>>

(* gracefulStop begins: signals are asked for only now.                    *)
NotifyContext ==
    /\ main = "serving"
    /\ main' = "waiting"
    /\ UNCHANGED <<listener, signalled, waited, req, outcome>>

(* SIGINT or SIGTERM.  A second one is taken and goes unnoticed.           *)
Signal ==
    /\ Alive
    /\ IF main \in {"init", "serving"}
       THEN End("killed") /\ UNCHANGED signalled
       ELSE signalled' = TRUE /\ UNCHANGED <<main, outcome>>
    /\ UNCHANGED <<listener, waited, req>>

CallShutdown ==
    /\ main = "waiting"
    /\ signalled
    /\ main' = "closing"
    /\ listener' = IF listener = "on" THEN "closed" ELSE listener
    /\ UNCHANGED <<signalled, waited, req, outcome>>

(* Nothing is in flight: "http server stopped gracefully".                 *)
ShutdownDone ==
    /\ main = "closing"
    /\ \A r \in Reqs : ~ InFlight(r)
    /\ End("graceful")
    /\ UNCHANGED <<listener, signalled, waited, req>>

(* Fault: Shutdown without a timeout.                                      *)
ShutdownTimeout_Never ==
    /\ FALSE
    /\ UNCHANGED vars

(* Fault: the time is up one second too soon.                              *)
ShutdownTimeout_Early ==
    /\ main = "closing"
    /\ waited + 1 >= Timeout
    /\ End("timeout")
    /\ UNCHANGED <<listener, signalled, waited, req>>

(* The context is done first: main returns with requests in flight.        *)
ShutdownTimeout ==
    /\ main = "closing"
    /\ waited = Timeout
    /\ End("timeout")
    /\ UNCHANGED <<listener, signalled, waited, req>>

-----------------------------------------------------------------------------
(* The goroutine of runServer.                                             *)

Listen ==
    /\ Alive
    /\ listener = "starting"
    /\ listener' = IF main = "closing" THEN "closed" ELSE "on"
    /\ UNCHANGED <<main, signalled, waited, req, outcome>>

(* The address is taken, or accepting fails for good: Fatalw.              *)
ListenFails ==
    /\ Alive
    /\ \/ listener = "on"
       \/ listener = "starting" /\ main # "closing"
    /\ listener' = "failed"
    /\ End("fatal")
    /\ UNCHANGED <<signalled, waited, req>>

-----------------------------------------------------------------------------
(* The requests.                                                           *)

Accept(r) ==
    /\ Alive
    /\ listener = "on"
    /\ ~ InFlight(r)
    /\ \E op \in Routes :
        req' = [req EXCEPT ![r] = [stage |-> IF op \in WithBody THEN "body" ELSE "handle",
                                   op |-> op, age |-> 0]]
    /\ UNCHANGED <<main, listener, signalled, waited, outcome>>

(* parseJSONBody is done; a bad body is answered at once.                  *)
BodyRead(r) ==
    /\ Alive
    /\ req[r].stage = "body"
    /\ \/ req' = [req EXCEPT ![r].stage = "handle"]
       \/ req' = [req EXCEPT ![r] = NoRequest]
    /\ UNCHANGED <<main, listener, signalled, waited, outcome>>

(* The service is done.  A short answer fits the socket's buffer, a long   *)
(* one is written as the client reads it.                                  *)
Answer(r) ==
    /\ Alive
    /\ Handled(r)
    /\ \/ req' = [req EXCEPT ![r] = NoRequest]
       \/ /\ req[r].op \in LongAnswer
          /\ req' = [req EXCEPT ![r].stage = "write"]
    /\ UNCHANGED <<main, listener, signalled, waited, outcome>>

Written(r) ==
    /\ Alive
    /\ req[r].stage = "write"
    /\ req' = [req EXCEPT ![r] = NoRequest]
    /\ UNCHANGED <<main, listener, signalled, waited, outcome>>

-----------------------------------------------------------------------------

(* A second passes.  Deadlines are kept: a handler answers before time     *)
(* goes on, and so does Shutdown.                                          *)
Tick ==
    /\ Alive
    /\ \A r \in Reqs : Handled(r) => req[r].age < Limit(req[r].op)
    /\ req' = [r \in Reqs |-> IF Handled(r) THEN [req[r] EXCEPT !.age = @ + 1] ELSE req[r]]
    /\ IF main = "closing"
       THEN waited < Timeout /\ waited' = waited + 1
       ELSE UNCHANGED waited
    /\ UNCHANGED <<main, listener, signalled, outcome>>

Next ==
    \/ StartFails \/ GoServe \/ NotifyContext \/ Signal
    \/ CallShutdown \/ ShutdownDone \/ ShutdownTimeout
    \/ Listen \/ ListenFails
    \/ \E r \in Reqs : Accept(r) \/ BodyRead(r) \/ Answer(r) \/ Written(r)
    \/ Tick

Spec == Init /\ [][Next]_vars

(* The scheduler runs both goroutines and the handlers, and time passes.   *)
(* Nobody has to send a body, to read an answer, or to send a signal.      *)
Fairness ==
    /\ WF_vars(GoServe) /\ WF_vars(NotifyContext) /\ WF_vars(Listen)
    /\ WF_vars(CallShutdown) /\ WF_vars(ShutdownDone) /\ WF_vars(ShutdownTimeout)
    /\ \A r \in Reqs : WF_vars(Answer(r))
    /\ WF_vars(Tick)

FairSpec == Spec /\ Fairness

-----------------------------------------------------------------------------

TypeOK ==
    /\ main \in {"init", "serving", "waiting", "closing", "exited"}
    /\ listener \in {"none", "starting", "on", "closed", "failed"}
    /\ signalled \in BOOLEAN
    /\ waited \in 0 .. Timeout
    /\ req \in [Reqs -> Requests]
    /\ outcome \in {"none", "graceful", "timeout", "fatal", "killed"}

(* What a stop cuts off inside a service method, where a transaction may   *)
(* be open: after the signal it waited for, only requests whose body came  *)
(* late, and deletes, lists and syncs, whose deadlines are not below       *)
(* Shutdown's.  Logins, registrations, gets and sets that are under way    *)
(* finish, unless the listener fails or the signal comes before            *)
(* gracefulStop asks for it.                                               *)
ShortRequestsDrain ==
    \A r \in Reqs :
        main = "exited" /\ Handled(r) =>
            \/ outcome \in {"fatal", "killed"}
            \/ req[r].age < waited
            \/ req[r].op \in {"delete", "list", "changes"}

(* A server that got a signal it waited for ends, though a client may      *)
(* never finish a request.                                                 *)
SignalEndsIt == signalled ~> main = "exited"
=============================================================================
