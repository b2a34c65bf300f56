------------------------- MODULE ServerLifecycle_proofs -------------------------
(***************************************************************************)
(* Proofs about ServerLifecycle, for any number of requests in flight.     *)
(***************************************************************************)
EXTENDS ServerLifecycle, TLAPS

(* No service method has run past its deadline.                            *)
InTime == \A r \in Reqs : req[r].age <= Limit(req[r].op)

(* The process has an outcome when it ends: it gives up only when the time *)
(* is up, and stops gracefully only with nothing in flight, which is what  *)
(* net/http says of Shutdown.                                              *)
Ends ==
    /\ main = "exited" <=> outcome # "none"
    /\ outcome = "timeout" => waited = Timeout
    /\ outcome = "graceful" => \A r \in Reqs : ~ InFlight(r)

IInv == TypeOK /\ InTime /\ Ends

(* The deadlines of the service methods, as numbers up to ten.             *)
LEMMA LimitsBounded == \A op \in Routes : Limit(op) \in 3 .. 10
BY DEF Limit, Routes, WithBody

LEMMA RequestsTyped ==
    /\ NoRequest \in Requests /\ NoRequest.stage = "none" /\ NoRequest.age <= Limit(NoRequest.op)
    /\ \A op \in Routes, stage \in {"body", "handle"} :
          /\ [stage |-> stage, op |-> op, age |-> 0] \in Requests
          /\ 0 <= Limit(op)
<1>1. NoRequest \in Requests /\ NoRequest.stage = "none"
    BY DEF NoRequest, Requests, Routes
<1>2. ASSUME NEW op \in Routes, NEW stage \in {"body", "handle"}
      PROVE  [stage |-> stage, op |-> op, age |-> 0] \in Requests
    BY DEF Requests
<1>3. NoRequest.age <= Limit(NoRequest.op)
    <2>1. NoRequest.op \in Routes /\ NoRequest.age = 0
        BY DEF NoRequest, Routes
    <2> QED BY <2>1, LimitsBounded
<1> QED BY <1>1, <1>2, <1>3, LimitsBounded

LEMMA Initially == Init => IInv
<1> SUFFICES ASSUME Init
             PROVE  IInv
    OBVIOUS
<1>1. \A r \in Reqs : req[r] = NoRequest
    BY DEF Init
<1>2. TypeOK
    <2>1. waited \in 0 .. Timeout
        BY TimeoutAssumption DEF Init
    <2>2. req \in [Reqs -> Requests]
        BY RequestsTyped DEF Init
    <2> QED BY <2>1, <2>2 DEF Init, TypeOK
<1>3. InTime
    BY <1>1, RequestsTyped DEF InTime, Handled
<1>4. Ends
    BY DEF Init, Ends
<1> QED BY <1>2, <1>3, <1>4 DEF IInv

LEMMA Inductive == IInv /\ [Next]_vars => IInv'
<1> SUFFICES ASSUME IInv, [Next]_vars
             PROVE  IInv'
    OBVIOUS
<1> USE TimeoutAssumption DEF IInv
<1> USE DEF InFlight, Handled
<1>1. CASE UNCHANGED vars
    BY <1>1 DEF vars, TypeOK, InTime, Ends
<1>2. CASE StartFails
    BY <1>2 DEF StartFails, End, TypeOK, InTime, Ends
<1>3. CASE GoServe
    BY <1>3 DEF GoServe, TypeOK, InTime, Ends
<1>4. CASE NotifyContext
    BY <1>4 DEF NotifyContext, TypeOK, InTime, Ends
<1>5. CASE Signal
    BY <1>5 DEF Signal, Alive, End, TypeOK, InTime, Ends
<1>6. CASE CallShutdown
    BY <1>6 DEF CallShutdown, TypeOK, InTime, Ends
<1>7. CASE ShutdownDone
    BY <1>7 DEF ShutdownDone, End, TypeOK, InTime, Ends
<1>8. CASE ShutdownTimeout
    BY <1>8 DEF ShutdownTimeout, End, TypeOK, InTime, Ends
<1>9. CASE Listen
    BY <1>9 DEF Listen, Alive, TypeOK, InTime, Ends
<1>10. CASE ListenFails
    BY <1>10 DEF ListenFails, Alive, End, TypeOK, InTime, Ends
<1>11. ASSUME NEW r \in Reqs, Accept(r) \/ BodyRead(r) \/ Answer(r) \/ Written(r)
       PROVE  IInv'
    <2>1. /\ UNCHANGED <<main, listener, signalled, waited, outcome>>
          /\ main # "exited"
        BY <1>11 DEF Accept, BodyRead, Answer, Written, Alive
    <2>2. PICK new \in Requests :
              /\ req' = [req EXCEPT ![r] = new]
              /\ new.age <= Limit(new.op)
        <3>0. req[r] \in Requests
            BY DEF TypeOK
        <3>1. CASE Accept(r)
            <4>1. PICK op \in Routes, stage \in {"body", "handle"} :
                      req' = [req EXCEPT ![r] = [stage |-> stage, op |-> op, age |-> 0]]
                BY <3>1 DEF Accept
            <4>2. DEFINE new == [stage |-> stage, op |-> op, age |-> 0]
            <4>3. new \in Requests /\ new.age <= Limit(new.op)
                BY RequestsTyped
            <4> QED BY <4>1, <4>3
        <3>2. CASE req' = [req EXCEPT ![r] = NoRequest]
            BY <3>2, RequestsTyped
        <3>3. CASE BodyRead(r) /\ req' = [req EXCEPT ![r].stage = "handle"]
            <4>1. DEFINE new == [req[r] EXCEPT !.stage = "handle"]
            <4>2. new \in Requests /\ req' = [req EXCEPT ![r] = new]
                BY <3>0, <3>3 DEF Requests
            <4>3. new.age <= Limit(new.op)
                BY <3>0 DEF InTime, Requests
            <4> QED BY <4>2, <4>3
        <3>4. CASE Answer(r) /\ req' = [req EXCEPT ![r].stage = "write"]
            <4>1. DEFINE new == [req[r] EXCEPT !.stage = "write"]
            <4>2. new \in Requests /\ req' = [req EXCEPT ![r] = new]
                BY <3>0, <3>4 DEF Requests
            <4>3. new.age <= Limit(new.op)
                BY <3>0 DEF InTime, Requests
            <4> QED BY <4>2, <4>3
        <3> QED BY <1>11, <3>1, <3>2, <3>3, <3>4 DEF BodyRead, Answer, Written
    <2>3. TypeOK' /\ InTime'
        BY <2>1, <2>2 DEF TypeOK, InTime
    <2>4. Ends'
        BY <2>1 DEF TypeOK, Ends
    <2> QED BY <2>3, <2>4
<1>12. CASE Tick
    <2>1. /\ UNCHANGED <<main, listener, signalled, outcome>>
          /\ main # "exited"
        BY <1>12 DEF Tick, Alive
    <2>2. waited' \in 0 .. Timeout
        BY <1>12 DEF Tick, TypeOK
    <2>3. \A r \in Reqs :
              /\ req'[r] \in Requests
              /\ req'[r].age <= Limit(req'[r].op)
        <3> SUFFICES ASSUME NEW r \in Reqs
                     PROVE  /\ req'[r] \in Requests
                            /\ req'[r].age <= Limit(req'[r].op)
            OBVIOUS
        <3>1. CASE Handled(r)
            <4>1. req'[r] = [req[r] EXCEPT !.age = @ + 1] /\ req[r].age < Limit(req[r].op)
                BY <1>12, <3>1 DEF Tick
            <4>2. req[r] \in Requests
                BY DEF TypeOK
            <4>3. Limit(req[r].op) \in 3 .. 10 /\ req[r].age \in 0 .. 10
                BY <4>2, LimitsBounded DEF Requests
            <4>4. req[r].age + 1 \in 0 .. 10 /\ req[r].age + 1 <= Limit(req[r].op)
                BY <4>1, <4>3
            <4> QED BY <4>1, <4>2, <4>4 DEF Requests
        <3>2. CASE ~ Handled(r)
            BY <1>12, <3>2 DEF Tick, TypeOK, InTime
        <3> QED BY <3>1, <3>2
    <2>4. req' = [r \in Reqs |-> req'[r]]
        BY <1>12 DEF Tick
    <2>5. TypeOK' /\ InTime'
        BY <2>1, <2>2, <2>3, <2>4 DEF TypeOK, InTime
    <2>6. Ends'
        BY <2>1 DEF TypeOK, Ends
    <2> QED BY <2>5, <2>6
<1> QED BY <1>1, <1>2, <1>3, <1>4, <1>5, <1>6, <1>7, <1>8, <1>9, <1>10, <1>11, <1>12 DEF Next

LEMMA Always == Spec => []IInv
BY Initially, Inductive, PTL DEF Spec

(* The variables of a server keep their types.                             *)
THEOREM TypeCorrect == Spec => []TypeOK
<1>1. IInv => TypeOK
    BY DEF IInv
<1> QED BY <1>1, Always, PTL

(* What a stop cuts off in its handler, where a transaction may be open:   *)
(* after a signal the server waited for, only a request that came into its *)
(* handler after Shutdown was called, or one whose deadline is not below   *)
(* Shutdown's timeout.                                                     *)
DrainsBelow ==
    \A r \in Reqs :
        main = "exited" /\ Handled(r) =>
            \/ outcome \in {"fatal", "killed"}
            \/ req[r].age < waited
            \/ Limit(req[r].op) >= Timeout

(* gracefulStop waits long enough for every route whose deadline is below  *)
(* its timeout, whatever that timeout is.                                  *)
THEOREM DrainedByTimeout == Spec => []DrainsBelow
<1>1. IInv => DrainsBelow
    <2> SUFFICES ASSUME IInv, NEW r \in Reqs, main = "exited", Handled(r),
                        outcome \notin {"fatal", "killed"}, ~ (Limit(req[r].op) >= Timeout)
                 PROVE  req[r].age < waited
        BY DEF DrainsBelow
    <2>1. outcome = "timeout" /\ waited = Timeout
        BY DEF IInv, TypeOK, Ends, InFlight, Handled
    <2>2. req[r].age \in 0 .. 10 /\ Limit(req[r].op) \in 3 .. 10
          /\ req[r].age <= Limit(req[r].op)
        BY LimitsBounded DEF IInv, TypeOK, InTime, Requests
    <2> QED BY <2>1, <2>2, TimeoutAssumption
<1> QED BY <1>1, Always, PTL

(* With any timeout above four seconds, a stop cuts off no login,          *)
(* registration, get or set that was under way when it began.              *)
THEOREM ShortOnesDrain == Timeout > 4 => (Spec => []ShortRequestsDrain)
<1> SUFFICES ASSUME Timeout > 4
             PROVE  Spec => []ShortRequestsDrain
    OBVIOUS
<1>1. IInv /\ DrainsBelow => ShortRequestsDrain
    <2> SUFFICES ASSUME IInv, DrainsBelow, NEW r \in Reqs, main = "exited", Handled(r),
                        req[r].op \notin {"delete", "list", "changes"}
                 PROVE  outcome \in {"fatal", "killed"} \/ req[r].age < waited
        BY DEF ShortRequestsDrain
    <2>1. req[r].op \in {"register", "login", "get", "set"}
        BY DEF IInv, TypeOK, Requests, Routes, WithBody
    <2>2. Limit(req[r].op) \in 0 .. 4
        BY <2>1 DEF Limit
    <2> QED BY <2>2, TimeoutAssumption DEF DrainsBelow
<1> QED BY <1>1, Always, DrainedByTimeout, PTL
=============================================================================
