---------------------------- MODULE AuthGate_proofs ----------------------------
(***************************************************************************)
(* The two bounds on a token's life, for every length of a life, every     *)
(* resolution of the clock and any commands at a time; and that a login    *)
(* stays, if a device runs one command at a time.                          *)
(*                                                                         *)
(* The inductive invariant says of every token anywhere how its claims     *)
(* follow from the moment it was made, and of a request that passed that   *)
(* it did so before its token's exp; only a set's deadline starts later.   *)
(***************************************************************************)
EXTENDS AuthGate, TLAPS

Sound(t) ==
    t # NoToken =>
        /\ t \in Tokens
        /\ t.born =< now /\ t.iat =< now
        /\ t.exp = NumericDate(t.born + Life * Sec)

TokensSound ==
    /\ \A d \in Devices : Sound(state[d]) /\ Sound(saved[d])
    /\ \A p \in Procs : Sound(token[p]) /\ Sound(loaded[p])

Holding(p) ==
    /\ pc[p] # "idle" => token[p] # NoToken
    /\ pc[p] \in {"body", "handle"} => passed[p] =< now /\ passed[p] < token[p].exp
    /\ pc[p] = "body" => cmd[p] = "set"
    /\ pc[p] = "handle" => cmd[p] = "set" \/ since[p] = passed[p]

IInv ==
    /\ TypeOK
    /\ TokensSound
    /\ \A p \in Procs : Holding(p)
    /\ AccessEndsInTime
    /\ RefusedOnlyWhenOld

-----------------------------------------------------------------------------

LEMMA Numbers ==
    /\ Life * Sec \in Nat /\ Sec \in Nat /\ Sec > 0 /\ Handle \in Nat /\ MaxTime \in Nat
    /\ (Life - 1) * Sec = Life * Sec - Sec
<1>1. Life \in Nat /\ Sec \in Nat /\ Sec > 0 /\ Handle \in Nat /\ MaxTime \in Nat
  BY TimeAssumption
<1>2. \A m, n \in Nat : m * n \in Nat /\ (m - 1) * n = m * n - n
  OBVIOUS
<1> QED BY <1>1, <1>2

(* Dropping the fraction loses less than a second.                         *)
LEMMA WholeSeconds ==
    ASSUME NEW t \in Nat
    PROVE  /\ NumericDate(t) \in Nat
           /\ NumericDate(t) =< t /\ t < NumericDate(t) + Sec
<1>1. t % Sec \in 0 .. (Sec - 1) /\ t % Sec =< t
  BY Numbers
<1> QED BY <1>1, Numbers DEF NumericDate

LEMMA TypeInit == Init => IInv
<1> SUFFICES ASSUME Init PROVE IInv
  OBVIOUS
<1>1. 0 \in Time
  BY Numbers DEF Time
<1>2. TypeOK
  BY <1>1 DEF Init, TypeOK, NoRequest, Requests, Verdicts, Commands, Steps
<1>3. TokensSound
  BY DEF Init, TokensSound, Sound
<1>4. \A p \in Procs : Holding(p)
  BY DEF Init, Holding
<1>5. AccessEndsInTime /\ RefusedOnlyWhenOld
  BY DEF Init, AccessEndsInTime, RefusedOnlyWhenOld, NoRequest
<1> QED BY <1>2, <1>3, <1>4, <1>5 DEF IInv

(* What Check says of a sound token.                                       *)
LEMMA CheckFacts ==
    ASSUME NEW t, t # NoToken, Sound(t), now \in Time
    PROVE  /\ Check(t) \in {"expired", "served"}
           /\ Check(t) = "served" => now < t.exp
           /\ Check(t) = "expired" => now - t.born > (Life - 1) * Sec
           /\ t.exp =< t.born + Life * Sec
<1>1. t.born \in Nat /\ t.iat \in Nat /\ now \in Nat /\ t.born + Life * Sec \in Nat
  BY Numbers DEF Sound, Tokens, Time
<1>2. t.exp \in Nat /\ t.exp =< t.born + Life * Sec /\ t.born + Life * Sec < t.exp + Sec
  BY <1>1, WholeSeconds DEF Sound
<1>3. Check(t) = "served" <=> now < t.exp
  BY <1>1 DEF Check, Sound
<1>4. Check(t) = "expired" <=> ~ (now < t.exp)
  BY <1>1 DEF Check, Sound
<1> QED BY <1>1, <1>2, <1>3, <1>4, Numbers

LEMMA InvStep == IInv /\ [Next]_vars => IInv'
<1> SUFFICES ASSUME IInv, [Next]_vars PROVE IInv'
  OBVIOUS
<1>0. /\ TypeOK /\ TokensSound /\ AccessEndsInTime /\ RefusedOnlyWhenOld
      /\ \A p \in Procs : Holding(p)
  BY DEF IInv
<1>a. /\ NoToken \in Tokens \cup {NoToken} /\ 0 \in Time /\ now \in Nat
      /\ \A p \in Procs : Dev(p) \in Devices
  BY <1>0, Numbers DEF TypeOK, Time, Procs, Dev
<1>1. CASE Tick
  <2>1. now' = now + 1 /\ now' \in Time /\ UNCHANGED <<state, pc, cmd, token, loaded, passed, since, last, saved>>
    BY <1>0, <1>1, <1>a, Numbers DEF Tick, local, Time
  <2>2. TypeOK'
    BY <1>0, <2>1 DEF TypeOK
  <2>3. \A t : Sound(t) => Sound(t)'
    BY <1>a, <2>1 DEF Sound, Tokens, Time
  <2>4. TokensSound'
    BY <1>0, <2>1, <2>3 DEF TokensSound, Sound
  <2>5. \A p \in Procs : Holding(p)'
    BY <1>0, <1>a, <2>1 DEF Holding, TypeOK, Time
  <2>6. AccessEndsInTime' /\ RefusedOnlyWhenOld'
    BY <1>0, <2>1 DEF AccessEndsInTime, RefusedOnlyWhenOld
  <2> QED BY <2>2, <2>4, <2>5, <2>6 DEF IInv
<1>2. CASE Stray
  <2>1. /\ last' \in Requests
        /\ last'.result = "invalid" /\ last'.token = NoToken
        /\ UNCHANGED <<now, state, pc, cmd, token, loaded, passed, since, saved>>
    BY <1>0, <1>2, <1>a DEF Stray, local, TypeOK, NoRequest, Requests, Verdicts, Commands
  <2>2. TypeOK'
    BY <1>0, <2>1 DEF TypeOK
  <2>3. TokensSound' /\ \A p \in Procs : Holding(p)'
    BY <1>0, <2>1 DEF TokensSound, Sound, Holding
  <2>4. AccessEndsInTime' /\ RefusedOnlyWhenOld'
    BY <2>1 DEF AccessEndsInTime, RefusedOnlyWhenOld
  <2> QED BY <2>2, <2>3, <2>4 DEF IInv
<1>3. ASSUME NEW p \in Procs, Login(p) PROVE IInv'
  <2>1. PICK u \in Users :
          token' = [token EXCEPT ![p] = [user |-> u, exp |-> NumericDate(now + Life * Sec),
                                         iat |-> 0, born |-> now]]
    BY <1>3 DEF Login
  <2> DEFINE t == [user |-> u, exp |-> NumericDate(now + Life * Sec), iat |-> 0, born |-> now]
  <2>2. /\ pc' = [pc EXCEPT ![p] = "sign"] /\ cmd' = [cmd EXCEPT ![p] = "login"]
        /\ UNCHANGED <<now, state, loaded, passed, since, last, saved>>
    BY <1>3 DEF Login, Go
  <2>3. now + Life * Sec \in Nat /\ NumericDate(now + Life * Sec) \in Exp
    BY <1>0, <1>a, Numbers, WholeSeconds DEF TypeOK, Time, Exp
  <2>4. t \in Tokens /\ t # NoToken /\ Sound(t)
    BY <1>0, <1>a, <2>3, NobodyAssumption DEF Tokens, NoToken, Sound, TypeOK
  <2> QED BY <1>0, <2>1, <2>2, <2>4
          DEF IInv, TypeOK, Steps, Commands, TokensSound, Sound, Holding, AccessEndsInTime, RefusedOnlyWhenOld
<1>4. ASSUME NEW p \in Procs, Sign(p) PROVE IInv'
  <2>1. /\ pc' = [pc EXCEPT ![p] = "save_login"]
        /\ token' = [token EXCEPT ![p] = [token[p] EXCEPT !.iat = NumericDate(now)]]
        /\ pc[p] = "sign"
        /\ UNCHANGED <<now, state, cmd, loaded, passed, since, last, saved>>
    BY <1>0, <1>4 DEF Sign, Go, TypeOK
  <2> DEFINE t == [token[p] EXCEPT !.iat = NumericDate(now)]
  <2>2. token[p] \in Tokens /\ Sound(token[p]) /\ token[p] # NoToken
    BY <1>0, <2>1 DEF TokensSound, Sound, Holding
  <2>3. NumericDate(now) \in Time /\ NumericDate(now) =< now
    BY <1>0, <1>a, WholeSeconds, Numbers DEF TypeOK, Time
  <2>4. t \in Tokens /\ t # NoToken /\ Sound(t)
    <3>1. t \in Tokens /\ t.user \in Users
      BY <2>2, <2>3 DEF Tokens
    <3>2. t.born = token[p].born /\ t.exp = token[p].exp /\ t.iat = NumericDate(now)
      BY <2>2 DEF Tokens
    <3>3. t # NoToken
      BY <3>1, NobodyAssumption DEF NoToken
    <3> QED BY <2>2, <2>3, <3>1, <3>2, <3>3 DEF Sound
  <2> QED BY <1>0, <2>1, <2>4
          DEF IInv, TypeOK, Steps, Commands, TokensSound, Sound, Holding, AccessEndsInTime, RefusedOnlyWhenOld
<1>5. ASSUME NEW p \in Procs, SaveLogin(p) PROVE IInv'
  <2>1. /\ pc' = [pc EXCEPT ![p] = "load"] /\ pc[p] = "save_login"
        /\ state' = [state EXCEPT ![Dev(p)] = token[p]]
        /\ saved' = [saved EXCEPT ![Dev(p)] = token[p]]
        /\ UNCHANGED <<now, cmd, token, loaded, passed, since, last>>
    BY <1>5 DEF SaveLogin, Go
  <2> QED BY <1>0, <1>a, <2>1
          DEF IInv, TypeOK, Steps, Commands, TokensSound, Sound, Holding, AccessEndsInTime, RefusedOnlyWhenOld
<1>6. ASSUME NEW p \in Procs, Start(p) PROVE IInv'
  <2>1. PICK s \in {"load", "send"}, c \in {"sync", "set", "delete"} :
          pc' = [pc EXCEPT ![p] = s] /\ cmd' = [cmd EXCEPT ![p] = c]
    BY <1>6 DEF Start, Go
  <2>2. /\ token' = [token EXCEPT ![p] = state[Dev(p)]] /\ state[Dev(p)] # NoToken
        /\ UNCHANGED <<now, state, loaded, passed, since, last, saved>>
    BY <1>6 DEF Start
  <2> QED BY <1>0, <1>a, <2>1, <2>2
          DEF IInv, TypeOK, Steps, Commands, TokensSound, Sound, Holding, AccessEndsInTime, RefusedOnlyWhenOld
<1>7. ASSUME NEW p \in Procs, Load(p) PROVE IInv'
  <2>1. /\ pc' = [pc EXCEPT ![p] = "send"] /\ pc[p] = "load"
        /\ loaded' = [loaded EXCEPT ![p] = state[Dev(p)]]
        /\ UNCHANGED <<now, state, cmd, token, passed, since, last, saved>>
    BY <1>7 DEF Load, Go
  <2> QED BY <1>0, <1>a, <2>1
          DEF IInv, TypeOK, Steps, Commands, TokensSound, Sound, Holding, AccessEndsInTime, RefusedOnlyWhenOld
<1>8. ASSUME NEW p \in Procs, Pass(p) PROVE IInv'
  <2>1. /\ pc[p] = "send" /\ Check(token[p]) = "served"
        /\ passed' = [passed EXCEPT ![p] = now] /\ since' = [since EXCEPT ![p] = now]
        /\ UNCHANGED <<now, state, cmd, token, loaded, last, saved>>
    BY <1>8 DEF Pass
  <2>2. PICK s \in {"body", "handle"} : pc' = [pc EXCEPT ![p] = s] /\ (s = "body" => cmd[p] = "set")
    BY <1>8 DEF Pass, Go
  <2>3. now < token[p].exp
    BY <1>0, <2>1, CheckFacts DEF TypeOK, TokensSound, Holding
  <2> QED BY <1>0, <1>a, <2>1, <2>2, <2>3
          DEF IInv, TypeOK, Steps, Commands, TokensSound, Sound, Holding, AccessEndsInTime, RefusedOnlyWhenOld
<1>8b. ASSUME NEW p \in Procs, BodyRead(p) PROVE IInv'
  <2>1. /\ pc' = [pc EXCEPT ![p] = "handle"] /\ pc[p] = "body"
        /\ since' = [since EXCEPT ![p] = now]
        /\ UNCHANGED <<now, state, cmd, token, loaded, passed, last, saved>>
    BY <1>8b DEF BodyRead, Go
  <2> QED BY <1>0, <1>a, <2>1
          DEF IInv, TypeOK, Steps, Commands, TokensSound, Sound, Holding, AccessEndsInTime, RefusedOnlyWhenOld
<1>9. ASSUME NEW p \in Procs, Exit(p), UNCHANGED <<now, saved>>,
             \A d \in Devices : Sound(state'[d]) /\ state'[d] \in Tokens \cup {NoToken},
             state' \in [Devices -> Tokens \cup {NoToken}],
             last' \in Requests,
             AccessEndsInTime', RefusedOnlyWhenOld'
      PROVE  IInv'
  <2>1. /\ pc' = [pc EXCEPT ![p] = "idle"] /\ cmd' = [cmd EXCEPT ![p] = "none"]
        /\ token' = [token EXCEPT ![p] = NoToken] /\ loaded' = [loaded EXCEPT ![p] = NoToken]
        /\ passed' = [passed EXCEPT ![p] = 0] /\ since' = [since EXCEPT ![p] = 0]
    BY <1>9 DEF Exit, Go
  <2>2. TypeOK'
    BY <1>0, <1>9, <1>a, <2>1 DEF TypeOK, Steps, Commands
  <2>3. TokensSound'
    BY <1>0, <1>9, <2>1 DEF TokensSound, Sound, TypeOK
  <2>4. ASSUME NEW q \in Procs PROVE Holding(q)'
    BY <1>0, <1>9, <2>1 DEF Holding, TypeOK
  <2> QED BY <1>9, <2>2, <2>3, <2>4 DEF IInv
<1>10. ASSUME NEW p \in Procs, Reject(p) PROVE IInv'
  <2>1. /\ pc[p] = "send" /\ Check(token[p]) # "served" /\ Exit(p)
        /\ last' = Outcome(p, Check(token[p]))
        /\ UNCHANGED <<now, state, saved>>
    BY <1>10 DEF Reject
  <2>2. Check(token[p]) = "expired" /\ now - token[p].born > (Life - 1) * Sec
    BY <1>0, <2>1, CheckFacts DEF TypeOK, TokensSound, Holding
  <2>3. last' \in Requests
    BY <1>0, <2>1, <2>2 DEF TypeOK, Outcome, Requests, Verdicts
  <2>4. AccessEndsInTime' /\ RefusedOnlyWhenOld'
    BY <2>1, <2>2 DEF Outcome, AccessEndsInTime, RefusedOnlyWhenOld
  <2> QED BY <1>0, <1>9, <2>1, <2>3, <2>4 DEF TypeOK, TokensSound
<1>11. ASSUME NEW p \in Procs, Serve(p) PROVE IInv'
  <2>1. /\ pc[p] = "handle" /\ now =< since[p] + Handle
        /\ last' = Outcome(p, "served")
        /\ UNCHANGED <<now, state, saved>>
    BY <1>11 DEF Serve
  <2>2. /\ token[p] \in Tokens /\ token[p] # NoToken /\ Sound(token[p])
        /\ passed[p] < token[p].exp /\ passed[p] =< now
        /\ cmd[p] = "set" \/ since[p] = passed[p]
    BY <1>0, <2>1 DEF TokensSound, Holding, Sound
  <2>3. /\ passed[p] - token[p].born < Life * Sec
        /\ cmd[p] # "set" => now - token[p].born < Life * Sec + Handle
    <3>1. token[p].exp =< token[p].born + Life * Sec
      BY <1>0, <2>2, CheckFacts DEF TypeOK
    <3>2. /\ token[p].born \in Nat /\ token[p].exp \in Nat
          /\ passed[p] \in Nat /\ since[p] \in Nat
      BY <1>0, <2>2, Numbers DEF Tokens, Time, Exp, TypeOK
    <3> QED BY <1>a, <2>1, <2>2, <3>1, <3>2, Numbers
  <2>4. AccessEndsInTime' /\ RefusedOnlyWhenOld'
    BY <2>1, <2>2, <2>3 DEF Outcome, AccessEndsInTime, RefusedOnlyWhenOld, Tokens
  <2>5. last' \in Requests
    BY <1>0, <2>1 DEF TypeOK, Outcome, Requests, Verdicts
  <2>6. CASE Exit(p)
    BY <1>0, <1>9, <2>1, <2>4, <2>5, <2>6 DEF TypeOK, TokensSound
  <2>7. CASE Go(p, "save_rev") /\ UNCHANGED <<cmd, token, loaded, passed, since>>
    BY <1>0, <2>1, <2>2, <2>4, <2>5, <2>7 DEF IInv, Go, TypeOK, Steps, TokensSound, Sound, Holding
  <2> QED BY <1>11, <2>6, <2>7 DEF Serve
<1>12. ASSUME NEW p \in Procs, SaveRev(p) PROVE IInv'
  <2>1. /\ state' = [state EXCEPT ![Dev(p)] = loaded[p]] /\ Exit(p)
        /\ UNCHANGED <<now, last, saved>>
    BY <1>12 DEF SaveRev
  <2>2. /\ \A d \in Devices : Sound(state'[d]) /\ state'[d] \in Tokens \cup {NoToken}
        /\ state' \in [Devices -> Tokens \cup {NoToken}]
    BY <1>0, <1>a, <2>1 DEF TypeOK, TokensSound
  <2> QED BY <1>0, <1>9, <2>1, <2>2 DEF TypeOK, AccessEndsInTime, RefusedOnlyWhenOld
<1>13. ASSUME NEW p \in Procs, Stop(p) PROVE IInv'
  <2>1. Exit(p) /\ UNCHANGED <<now, state, last, saved>>
    BY <1>13 DEF Stop
  <2> QED BY <1>0, <1>9, <2>1
          DEF TypeOK, TokensSound, AccessEndsInTime, RefusedOnlyWhenOld
<1>14. CASE UNCHANGED vars
  BY <1>0, <1>14 DEF vars, local, IInv, TypeOK, TokensSound, Sound, Holding,
                     AccessEndsInTime, RefusedOnlyWhenOld
<1> QED
  BY <1>1, <1>2, <1>3, <1>4, <1>5, <1>6, <1>7, <1>8, <1>10, <1>11, <1>12, <1>13, <1>14, <1>8b
  DEF Next, Step

LEMMA IInvHolds == Spec => []IInv
BY TypeInit, InvStep, PTL DEF Spec

(* Every reachable state is typed.                                         *)
THEOREM TypeCorrect == Spec => []TypeOK
<1>1. IInv => TypeOK
  BY DEF IInv
<1> QED BY <1>1, IInvHolds, PTL

(* Nothing passes WithAuth later than a token's life after a login of that *)
(* user, and what passes is done a handler's deadline later at most, save  *)
(* for a set, whose body may come at any time.                             *)
THEOREM AccessBounded == Spec => []AccessEndsInTime
<1>1. IInv => AccessEndsInTime
  BY DEF IInv
<1> QED BY <1>1, IInvHolds, PTL

(* No token of a login is refused a full second before its time.           *)
THEOREM RefusalsBounded == Spec => []RefusedOnlyWhenOld
<1>1. IInv => RefusedOnlyWhenOld
  BY DEF IInv
<1> QED BY <1>1, IInvHolds, PTL

-----------------------------------------------------------------------------
(* One command at a time: a sync writes back the token it found, and no    *)
(* login came between.  With two commands this is false.                   *)

Sequential == \A s, t \in Slots : s = t

Syncing(p) ==
    \/ pc[p] \in {"send", "body", "handle"} /\ cmd[p] \notin {"set", "delete"}
    \/ pc[p] = "save_rev"

LInv ==
    /\ IInv
    /\ LoginPersisted
    /\ \A p \in Procs : Syncing(p) => loaded[p] = state[Dev(p)]

LEMMA OneProcess ==
    ASSUME Sequential, NEW p \in Procs, NEW q \in Procs, Dev(p) = Dev(q)
    PROVE  p = q
BY DEF Sequential, Procs, Dev

LEMMA LInvStep == Sequential /\ LInv /\ [Next]_vars => LInv'
<1> SUFFICES ASSUME Sequential, LInv, [Next]_vars PROVE LInv'
  OBVIOUS
<1>0. /\ TypeOK /\ state = saved
      /\ \A p \in Procs : Syncing(p) => loaded[p] = state[Dev(p)]
      /\ \A p \in Procs : Dev(p) \in Devices
  BY DEF LInv, IInv, LoginPersisted, Procs, Dev
<1>1. IInv'
  BY InvStep DEF LInv
<1>2. CASE Tick \/ Stray \/ UNCHANGED vars
  <2>1. UNCHANGED <<state, saved, pc, cmd, loaded>>
    BY <1>2 DEF Tick, Stray, vars, local
  <2> QED BY <1>0, <1>1, <2>1 DEF LInv, LoginPersisted, Syncing
<1>3. ASSUME NEW p \in Procs, SaveLogin(p) PROVE LInv'
  <2>1. /\ pc' = [pc EXCEPT ![p] = "load"]
        /\ state' = [state EXCEPT ![Dev(p)] = token[p]]
        /\ saved' = [saved EXCEPT ![Dev(p)] = token[p]]
        /\ UNCHANGED <<cmd, loaded>>
    BY <1>3 DEF SaveLogin, Go
  <2>2. LoginPersisted'
    BY <1>0, <2>1 DEF LoginPersisted
  <2>3. ASSUME NEW q \in Procs, Syncing(q)' PROVE loaded'[q] = state'[Dev(q)]
    <3>1. q # p
      BY <1>0, <2>1, <2>3 DEF Syncing, TypeOK
    <3>2. Syncing(q) /\ Dev(q) # Dev(p)
      BY <1>0, <2>1, <2>3, <3>1, OneProcess DEF Syncing, TypeOK
    <3> QED BY <1>0, <2>1, <3>2 DEF TypeOK
  <2> QED BY <1>1, <2>2, <2>3 DEF LInv
<1>4. ASSUME NEW p \in Procs, Load(p) PROVE LInv'
  <2>1. /\ loaded' = [loaded EXCEPT ![p] = state[Dev(p)]]
        /\ pc' = [pc EXCEPT ![p] = "send"]
        /\ UNCHANGED <<state, saved, cmd>>
    BY <1>4 DEF Load, Go
  <2>2. \A q \in Procs : Syncing(q)' => loaded'[q] = state'[Dev(q)]
    BY <1>0, <2>1 DEF Syncing, TypeOK
  <2> QED BY <1>0, <1>1, <2>1, <2>2 DEF LInv, LoginPersisted
<1>5. ASSUME NEW p \in Procs, SaveRev(p) PROVE LInv'
  <2>1. /\ pc[p] = "save_rev" /\ state' = [state EXCEPT ![Dev(p)] = loaded[p]]
        /\ Exit(p) /\ UNCHANGED saved
    BY <1>5 DEF SaveRev
  <2>2. loaded[p] = state[Dev(p)]
    BY <1>0, <2>1 DEF Syncing
  <2>3. state' = state
    BY <1>0, <2>1, <2>2 DEF TypeOK
  <2>4. \A q \in Procs : Syncing(q)' => loaded'[q] = state'[Dev(q)]
    BY <1>0, <2>1, <2>3 DEF Exit, Go, Syncing, TypeOK
  <2> QED BY <1>0, <1>1, <2>1, <2>3, <2>4 DEF LInv, LoginPersisted
<1>6. ASSUME NEW p \in Procs, Login(p) \/ Sign(p) \/ Start(p) PROVE LInv'
  <2>1. UNCHANGED <<state, saved, loaded>> /\ \A q \in Procs : q # p => pc'[q] = pc[q] /\ cmd'[q] = cmd[q]
    BY <1>0, <1>6 DEF Login, Sign, Start, Go, TypeOK
  <2>2. ~ Syncing(p)'
    BY <1>0, <1>6 DEF Login, Sign, Start, Go, Syncing, TypeOK
  <2> QED BY <1>0, <1>1, <2>1, <2>2 DEF LInv, LoginPersisted, Syncing
<1>7. ASSUME NEW p \in Procs, Pass(p) \/ BodyRead(p) \/ Serve(p) \/ Reject(p) \/ Stop(p) PROVE LInv'
  <2>1. UNCHANGED <<state, saved>>
    BY <1>7 DEF Pass, BodyRead, Serve, Reject, Stop
  <2>2. \A q \in Procs : q # p => pc'[q] = pc[q] /\ cmd'[q] = cmd[q] /\ loaded'[q] = loaded[q]
    BY <1>0, <1>7 DEF Pass, BodyRead, Serve, Reject, Stop, Exit, Go, TypeOK
  <2>3. Syncing(p)' => Syncing(p) /\ loaded'[p] = loaded[p]
    BY <1>0, <1>7 DEF Pass, BodyRead, Serve, Reject, Stop, Exit, Go, Syncing, TypeOK
  <2> QED BY <1>0, <1>1, <2>1, <2>2, <2>3 DEF LInv, LoginPersisted, Syncing
<1> QED BY <1>2, <1>3, <1>4, <1>5, <1>6, <1>7 DEF Next, Step

(* If a device runs one command at a time, its state file holds the token  *)
(* of its last login.                                                      *)
THEOREM LoginsStay == Sequential => (Spec => []LoginPersisted)
<1> SUFFICES ASSUME Sequential PROVE Spec => []LoginPersisted
  OBVIOUS
<1>1. Init => LInv
  BY TypeInit DEF LInv, Init, LoginPersisted, Syncing
<1>2. LInv /\ [Next]_vars => LInv'
  BY LInvStep
<1>3. LInv => LoginPersisted
  BY DEF LInv
<1> QED BY <1>1, <1>2, <1>3, PTL DEF Spec
=============================================================================
