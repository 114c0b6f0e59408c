--------------------------- MODULE SessionsProofs ---------------------------
(***************************************************************************)
(* Proofs about authentication behind the rate limiter, for any number of  *)
(* requests, users and tokens.                                             *)
(***************************************************************************)
EXTENDS Sessions, RateLimitProofs

-----------------------------------------------------------------------------
(* The limiter inside *)

\* A request never touches a counter but through the limiter.
LEMMA NextLimited == [Next]_vars => [LimitNext]_limitVars
<1> SUFFICES ASSUME [Next]_vars PROVE [LimitNext]_limitVars
  OBVIOUS
<1>1. CASE LimiterNext
  BY <1>1 DEF LimiterNext, LimitNext
<1>2. CASE ArriveNext
  <2>1. ASSUME NEW c \in Callers, NEW client \in Clients, NEW new, Arrive(c, client, new)
        PROVE  LimitNext
    <3> DEFINE r == [path |-> "auth", client |-> client, user |-> Nobody,
                     tenant |-> Nobody, apiKey |-> Nobody]
    <3>1. r \in [path : {"auth", "messages", "other"}, client : Clients,
                 user : Users \cup {Nobody}, tenant : Tenants \cup {Nobody},
                 apiKey : Bots \cup {Nobody}]
      OBVIOUS
    <3>2. <<Classify(r.path, r.client, r.user, r.tenant, r.apiKey)>> \in RequestKeys
      BY <3>1 DEF RequestKeys
    <3>3. <<Classify("auth", client, Nobody, Nobody, Nobody)>> \in RequestKeys
      BY <3>2
    <3> QED
      BY <2>1, <3>3 DEF Arrive, LimitNext
  <2> QED
    BY <1>2, <2>1 DEF ArriveNext, Register, Login, Refresh, SwitchOrganization
<1>3. CASE HandlerNext
  <2>1. PICK c \in Callers :
           \/ Handle(c) \/ LimiterDies(c)
           \/ ReadEmail(c) \/ SelectToken(c) \/ Revoke(c) \/ CheckUser(c)
           \/ CheckMember(c) \/ Commit(c) \/ RequestDies(c)
           \/ \E u \in Users : InsertUser(c, u)
           \/ \E t \in Tokens : Issue(c, t)
    BY <1>3 DEF HandlerNext
  <2>2. CASE Handle(c)
    BY <2>2 DEF Handle, LimitNext
  <2>3. CASE LimiterDies(c)
    BY <2>3 DEF LimiterDies, LimitNext
  <2>4. CASE \/ ReadEmail(c) \/ SelectToken(c) \/ Revoke(c) \/ CheckUser(c)
             \/ CheckMember(c) \/ Commit(c) \/ RequestDies(c)
             \/ \E u \in Users : InsertUser(c, u)
             \/ \E t \in Tokens : Issue(c, t)
    BY <2>4 DEF ReadEmail, SelectToken, Revoke, CheckUser, CheckMember, Commit,
                RequestDies, InsertUser, Issue, Continue, Fail
  <2> QED
    BY <2>1, <2>2, <2>3, <2>4
<1>4. ASSUME NEW u \in Users, NEW tenant \in Tenants, AddMember(u, tenant)
      PROVE  UNCHANGED limitVars
  BY <1>4 DEF AddMember
<1>5. CASE UNCHANGED vars
  BY <1>5 DEF vars
<1> QED
  BY <1>1, <1>2, <1>3, <1>4, <1>5 DEF Next

\* Requests use the limiter as it is meant to be used: authentication with its
\* limiter implements the limiter alone.
THEOREM SessionsImplementLimiter == Spec => LimitSpec
<1>1. Init => LimitInit
  BY DEF Init
<1> QED
  BY <1>1, NextLimited, PTL DEF Spec, LimitSpec

\* So that no auth window, and no throttle's, lets more than the limit through.
THEOREM SessionsWithinLimit == Spec => []WithinLimit
BY SessionsImplementLimiter, LimitHolds

\* And that one counter a death at most is left behind without an expiry.
THEOREM SessionsLeaveFewCounters == Spec => []CountersExpire
BY SessionsImplementLimiter, CountersAreAccountedFor

-----------------------------------------------------------------------------
(* One user per email *)

RequestType ==
    [pc : PCs, kind : {"none", "register", "login", "refresh", "switch"},
     email : Emails \cup {Nobody}, user : Users \cup {Nobody},
     tenant : Tenants \cup {Nobody}, token : Tokens \cup {0},
     stale : BOOLEAN, row : Tokens \cup {0}, issued : Nat]

TokenType ==
    [state : {"none", "active", "revoked"}, user : Users \cup {Nobody},
     tenant : Tenants \cup {Nobody}, issued : Nat, session : Tokens \cup {0}]

SessionsTyped ==
    /\ now \in Nat
    /\ users \in [Users -> Emails \cup {Nobody}]
    /\ tokens \in [Tokens -> TokenType]
    /\ req \in [Callers -> RequestType]

\* A request is on the way of its kind, and has the email or the token that its
\* kind needs.
Staged(r) ==
    /\ r.kind \in {"register", "login"} => r.email \in Emails
    /\ r.kind \in {"refresh", "switch"} => r.token \in Tokens
    /\ r.pc = "limiter" => r.kind # "none"
    /\ r.pc = "select" => r.kind = "refresh"
    /\ r.pc = "user" => r.kind = "switch"
    /\ r.pc = "insert" => r.kind = "register"
    /\ r.kind = "register" => r.pc \in {"limiter", "email", "insert", "commit"}

Registering(r) == r.kind = "register" /\ r.pc = "commit"

\* A registration about to be committed has a row and an email that no user
\* and no other registration has.
Reserved ==
    \A c \in Callers : Registering(req[c]) =>
        /\ req[c].user \in Users /\ users[req[c].user] = Nobody
        /\ \A v \in Users : users[v] # req[c].email
        /\ \A d \in Callers \ {c} : Registering(req[d]) =>
              req[d].email # req[c].email /\ req[d].user # req[c].user

EmailInv ==
    /\ SessionsTyped
    /\ \A c \in Callers : Staged(req[c])
    /\ Reserved
    /\ OneUserPerEmail

\* There is one user at most to begin with.
LEMMA EmailInitInv == Init => EmailInv
<1> SUFFICES ASSUME Init PROVE EmailInv
  OBVIOUS
<1>1. now \in Nat
  BY DEF Init, LimitInit
<1>2. users \in [Users -> Emails \cup {Nobody}] /\ OneUserPerEmail
  <2>1. CASE users = [u \in Users |-> Nobody]
    BY <2>1, SessionsAssumption DEF OneUserPerEmail
  <2>2. CASE \E u \in Users, e \in Emails :
                users = [v \in Users |-> IF v = u THEN e ELSE Nobody]
    BY <2>2, SessionsAssumption DEF OneUserPerEmail
  <2> QED
    BY <2>1, <2>2 DEF Init
<1>3. tokens \in [Tokens -> TokenType]
  <2>1. NoToken \in TokenType
    BY DEF NoToken, TokenType
  <2>2. \A u \in Users, t \in Tokens :
           [NoToken EXCEPT !.state = "active", !.user = u, !.session = t] \in TokenType
    BY DEF NoToken, TokenType
  <2> QED
    BY <2>1, <2>2 DEF Init
<1>4. /\ Idle \in RequestType
      /\ Staged(Idle) /\ ~Registering(Idle)
  BY DEF Idle, RequestType, PCs, Staged, Registering
<1>5. req = [c \in Callers |-> Idle]
  BY DEF Init
<1> QED
  BY <1>1, <1>2, <1>3, <1>4, <1>5 DEF EmailInv, SessionsTyped, Reserved

\* A request that goes on, without anything to commit that registers a user,
\* disturbs no registration.
LEMMA RequestGoesOn ==
    ASSUME EmailInv, NEW c \in Callers, NEW next \in RequestType,
           Staged(next), ~Registering(next),
           req' = [req EXCEPT ![c] = next], now' \in Nat,
           UNCHANGED <<users, tokens>>
    PROVE  EmailInv'
<1>1. SessionsTyped' /\ OneUserPerEmail'
  BY DEF EmailInv, SessionsTyped, OneUserPerEmail
<1>2. \A d \in Callers : req'[d] = IF d = c THEN next ELSE req[d]
  BY DEF EmailInv, SessionsTyped
<1>3. \A d \in Callers : Staged(req'[d])
  BY <1>2 DEF EmailInv
<1>4. \A d \in Callers : Registering(req'[d]) => d # c /\ req'[d] = req[d]
  BY <1>2
<1>5. Reserved'
  BY <1>4 DEF EmailInv, Reserved
<1> QED
  BY <1>1, <1>3, <1>5 DEF EmailInv, Staged

\* Every request may be refused.
LEMMA IdleGoesOn == Idle \in RequestType /\ Staged(Idle) /\ ~Registering(Idle)
BY DEF Idle, RequestType, PCs, Staged, Registering

\* INSERT reserves the email and the row.
LEMMA InsertUserInv ==
    ASSUME EmailInv, NEW c \in Callers, NEW u \in Users, InsertUser(c, u)
    PROVE  EmailInv'
<1>1. /\ req[c] \in RequestType /\ req[c].pc = "insert"
      /\ req[c].kind = "register" /\ req[c].email \in Emails
      /\ users[u] = Nobody /\ now' = now
      /\ UNCHANGED <<users, tokens>> /\ now \in Nat
  BY DEF InsertUser, Continue, Fail, EmailInv, SessionsTyped, Staged, limitVars
<1>2. CASE \E v \in Users : users[v] = req[c].email
  BY <1>1, <1>2, IdleGoesOn, RequestGoesOn DEF InsertUser, Continue, Fail
<1>3. CASE ~\E v \in Users : users[v] = req[c].email
  <2> DEFINE next == [req[c] EXCEPT !.pc = "commit", !.user = u]
  <2>1. req' = [req EXCEPT ![c] = next]
    BY <1>3 DEF InsertUser, Continue
  <2>2. /\ next \in RequestType /\ next.user = u /\ next.email = req[c].email
        /\ next.kind = "register" /\ next.pc = "commit"
    BY <1>1 DEF RequestType, PCs
  <2>3. Staged(next)
    BY <1>1, <2>2 DEF Staged
  <2> HIDE DEF next
  <2>4. \A d \in Callers : req'[d] = IF d = c THEN next ELSE req[d]
    BY <2>1 DEF EmailInv, SessionsTyped
  <2>5. SessionsTyped' /\ OneUserPerEmail'
    BY <1>1, <2>1, <2>2 DEF EmailInv, SessionsTyped, OneUserPerEmail
  <2>6. \A d \in Callers : Staged(req'[d])
    BY <2>3, <2>4 DEF EmailInv
  <2>7. \A d \in Callers \ {c} : Registering(req[d]) =>
           req[d].email # next.email /\ req[d].user # next.user
    BY <2>2 DEF InsertUser, Registering
  <2>8. Reserved'
    <3> SUFFICES ASSUME NEW d \in Callers, Registering(req'[d])
                 PROVE  /\ req'[d].user \in Users /\ users[req'[d].user] = Nobody
                        /\ \A v \in Users : users[v] # req'[d].email
                        /\ \A e \in Callers \ {d} : Registering(req'[e]) =>
                              /\ req'[e].email # req'[d].email
                              /\ req'[e].user # req'[d].user
      BY <1>1 DEF Reserved, Registering
    <3>1. CASE d = c
      BY <1>1, <1>3, <2>2, <2>4, <2>7, <3>1
    <3>2. CASE d # c
      BY <2>4, <2>7, <3>2 DEF EmailInv, Reserved
    <3> QED
      BY <3>1, <3>2
  <2> QED
    BY <2>5, <2>6, <2>8 DEF EmailInv, Staged
<1> QED
  BY <1>2, <1>3

\* The commit of a registration gives the reserved email to the reserved row.
LEMMA CommitInv ==
    ASSUME EmailInv, NEW c \in Callers, Commit(c)
    PROVE  EmailInv'
<1>1. /\ req[c] \in RequestType /\ req[c].pc = "commit"
      /\ tokens' = Rotated(c) /\ now' = now /\ now \in Nat
      /\ users' = IF req[c].kind = "register"
                  THEN [users EXCEPT ![req[c].user] = req[c].email] ELSE users
      /\ req' = [req EXCEPT ![c] = Idle]
  BY DEF Commit, EmailInv, SessionsTyped, limitVars
<1>2. NewToken(c) \in [state : {"active"}, user : Users \cup {Nobody},
                       tenant : Tenants \cup {Nobody}, issued : Nat,
                       session : Tokens \cup {0}]
  <2>1. req[c].kind = "refresh" => tokens[req[c].token].session \in Tokens \cup {0}
    BY DEF EmailInv, Staged, SessionsTyped, TokenType
  <2> QED
    BY <1>1, <2>1 DEF NewToken, RequestType
<1>3. \A t \in Tokens : [tokens[t] EXCEPT !.state = "revoked"] \in TokenType
  BY DEF EmailInv, SessionsTyped, TokenType
<1>4. tokens' \in [Tokens -> TokenType]
  BY <1>1, <1>2, <1>3 DEF Rotated, EmailInv, SessionsTyped, TokenType
<1>5. \A d \in Callers : req'[d] = IF d = c THEN Idle ELSE req[d]
  BY <1>1 DEF EmailInv, SessionsTyped
<1>6. \A d \in Callers : Staged(req'[d])
  BY <1>5, IdleGoesOn DEF EmailInv
<1>7. req' \in [Callers -> RequestType]
  BY <1>1, IdleGoesOn DEF EmailInv, SessionsTyped
<1>8. \A d \in Callers : Registering(req'[d]) => d # c /\ req'[d] = req[d]
  BY <1>5, IdleGoesOn
<1>9. CASE req[c].kind # "register"
  <2>1. users' = users
    BY <1>1, <1>9
  <2>2. Reserved' /\ OneUserPerEmail'
    BY <1>8, <2>1 DEF EmailInv, Reserved, OneUserPerEmail
  <2> QED
    BY <1>1, <1>4, <1>6, <1>7, <2>1, <2>2 DEF EmailInv, SessionsTyped, Staged
<1>10. CASE req[c].kind = "register"
  <2>1. Registering(req[c]) /\ req[c].email \in Emails
    BY <1>1, <1>10 DEF Registering, EmailInv, Staged
  <2>2. /\ req[c].user \in Users /\ users[req[c].user] = Nobody
        /\ \A v \in Users : users[v] # req[c].email
        /\ \A d \in Callers \ {c} : Registering(req[d]) =>
              req[d].email # req[c].email /\ req[d].user # req[c].user
    BY <2>1 DEF EmailInv, Reserved
  <2>3. \A v \in Users : users'[v] = IF v = req[c].user THEN req[c].email ELSE users[v]
    BY <1>1, <1>10, <2>2 DEF EmailInv, SessionsTyped
  <2>4. users' \in [Users -> Emails \cup {Nobody}]
    BY <1>1, <1>10, <2>1 DEF EmailInv, SessionsTyped
  <2>5. OneUserPerEmail'
    BY <2>2, <2>3 DEF EmailInv, OneUserPerEmail
  <2>6. Reserved'
    <3> SUFFICES ASSUME NEW d \in Callers, Registering(req'[d])
                 PROVE  /\ req'[d].user \in Users /\ users'[req'[d].user] = Nobody
                        /\ \A v \in Users : users'[v] # req'[d].email
                        /\ \A e \in Callers \ {d} : Registering(req'[e]) =>
                              /\ req'[e].email # req'[d].email
                              /\ req'[e].user # req'[d].user
      BY DEF Reserved, Registering
    <3>1. d # c /\ req'[d] = req[d] /\ Registering(req[d])
      BY <1>8
    <3>2. /\ req[d].user \in Users /\ users[req[d].user] = Nobody
          /\ \A v \in Users : users[v] # req[d].email
          /\ \A e \in Callers \ {d} : Registering(req[e]) =>
                req[e].email # req[d].email /\ req[e].user # req[d].user
      BY <3>1 DEF EmailInv, Reserved
    <3> QED
      BY <1>8, <2>2, <2>3, <3>1, <3>2
  <2> QED
    BY <1>1, <1>4, <1>6, <1>7, <2>4, <2>5, <2>6 DEF EmailInv, SessionsTyped, Staged
<1> QED
  BY <1>9, <1>10

\* Every step.
LEMMA EmailNextInv == EmailInv /\ LimitInv' /\ [Next]_vars => EmailInv'
<1> SUFFICES ASSUME EmailInv, LimitInv', [Next]_vars PROVE EmailInv'
  OBVIOUS
<1>1. now' \in Nat
  BY DEF LimitInv
<1>2. ASSUME UNCHANGED sessionVars PROVE EmailInv'
  BY <1>1, <1>2 DEF sessionVars, EmailInv, SessionsTyped, Reserved, OneUserPerEmail
<1>3. ASSUME NEW c \in Callers, NEW next \in RequestType, Staged(next),
             ~Registering(next), req' = [req EXCEPT ![c] = next],
             UNCHANGED <<users, tokens>>
      PROVE  EmailInv'
  BY <1>1, <1>3, RequestGoesOn
<1>4. CASE LimiterNext
  BY <1>2, <1>4 DEF LimiterNext
<1>5. CASE ArriveNext
  <2>1. ASSUME NEW d \in Callers, NEW cl \in Clients, NEW e \in Emails,
               Register(d, cl, e) \/ Login(d, cl, e)
        PROVE  EmailInv'
    <3>1. PICK kind \in {"register", "login"} :
             Arrive(d, cl, [Idle EXCEPT !.kind = kind, !.email = e])
      BY <2>1 DEF Register, Login
    <3> DEFINE new == [Idle EXCEPT !.kind = kind, !.email = e]
    <3>2. /\ [new EXCEPT !.pc = "limiter"] \in RequestType
          /\ Staged([new EXCEPT !.pc = "limiter"])
          /\ ~Registering([new EXCEPT !.pc = "limiter"])
      BY DEF Idle, RequestType, PCs, Staged, Registering
    <3> QED
      BY <1>3, <3>1, <3>2 DEF Arrive
  <2>2. ASSUME NEW d \in Callers, NEW cl \in Clients, NEW t \in Tokens, Refresh(d, cl, t)
        PROVE  EmailInv'
    <3> DEFINE new == [Idle EXCEPT !.kind = "refresh", !.token = t,
                                   !.stale = tokens[t].state = "revoked"]
    <3>1. Arrive(d, cl, new)
      BY <2>2 DEF Refresh
    <3>2. ASSUME NEW stale \in BOOLEAN,
                 NEW arrived, arrived = [Idle EXCEPT !.pc = "limiter", !.kind = "refresh",
                                                     !.token = t, !.stale = stale]
          PROVE  arrived \in RequestType /\ Staged(arrived) /\ ~Registering(arrived)
      BY <3>2 DEF Idle, RequestType, PCs, Staged, Registering
    <3>3. [new EXCEPT !.pc = "limiter"] =
             [Idle EXCEPT !.pc = "limiter", !.kind = "refresh", !.token = t,
                          !.stale = tokens[t].state = "revoked"]
      BY DEF Idle
    <3> QED
      BY <1>3, <3>1, <3>2, <3>3 DEF Arrive
  <2>3. ASSUME NEW d \in Callers, NEW cl \in Clients, NEW t \in Tokens,
               NEW tenant \in Tenants, SwitchOrganization(d, cl, t, tenant)
        PROVE  EmailInv'
    <3> DEFINE new == [Idle EXCEPT !.kind = "switch", !.token = t, !.tenant = tenant]
    <3>1. Arrive(d, cl, new)
      BY <2>3 DEF SwitchOrganization
    <3>2. /\ [new EXCEPT !.pc = "limiter"] \in RequestType
          /\ Staged([new EXCEPT !.pc = "limiter"])
          /\ ~Registering([new EXCEPT !.pc = "limiter"])
      BY DEF Idle, RequestType, PCs, Staged, Registering
    <3> QED
      BY <1>3, <3>1, <3>2 DEF Arrive
  <2> QED
    BY <1>5, <2>1, <2>2, <2>3 DEF ArriveNext
<1>6. ASSUME NEW c \in Callers,
             \/ Handle(c) \/ LimiterDies(c) \/ ReadEmail(c) \/ SelectToken(c)
             \/ Revoke(c) \/ CheckUser(c) \/ CheckMember(c) \/ RequestDies(c)
             \/ \E t \in Tokens : Issue(c, t)
      PROVE  EmailInv'
  <2>1. /\ req[c] \in RequestType /\ Staged(req[c]) /\ now \in Nat
        /\ \A t \in Tokens : tokens[t] \in TokenType
    BY DEF EmailInv, SessionsTyped
  <2>2. ASSUME req' = [req EXCEPT ![c] = Idle], UNCHANGED <<users, tokens>>
        PROVE  EmailInv'
    BY <1>3, <2>2, IdleGoesOn
  <2>3. CASE Handle(c)
    <3> DEFINE next == [req[c] EXCEPT !.pc = FirstStep(req[c].kind)]
    <3>1. req[c].kind # "none"
      BY <2>1, <2>3 DEF Handle, Staged
    <3>2. next \in RequestType /\ Staged(next) /\ ~Registering(next)
      BY <2>1, <3>1 DEF FirstStep, RequestType, PCs, Staged, Registering
    <3>3. req' = [req EXCEPT ![c] = next] \/ req' = [req EXCEPT ![c] = Idle]
      BY <2>3 DEF Handle
    <3>4. UNCHANGED <<users, tokens>>
      BY <2>3 DEF Handle
    <3> HIDE DEF next
    <3> QED
      BY <1>3, <2>2, <3>2, <3>3, <3>4
  <2>4. CASE LimiterDies(c)
    BY <2>2, <2>4 DEF LimiterDies
  <2>5. CASE RequestDies(c)
    BY <2>2, <2>5 DEF RequestDies, Fail, Continue
  <2>6. CASE ReadEmail(c)
    <3>1. ASSUME req[c].kind = "register", Continue(c, [req[c] EXCEPT !.pc = "insert"])
          PROVE  EmailInv'
      <4> DEFINE next == [req[c] EXCEPT !.pc = "insert"]
      <4>1. next \in RequestType /\ Staged(next) /\ ~Registering(next)
        BY <2>1, <3>1 DEF RequestType, PCs, Staged, Registering
      <4> QED
        BY <1>3, <3>1, <4>1 DEF Continue
    <3>2. ASSUME NEW u \in Users, req[c].kind = "login",
                 Continue(c, [req[c] EXCEPT !.pc = "issue", !.user = u])
          PROVE  EmailInv'
      <4> DEFINE next == [req[c] EXCEPT !.pc = "issue", !.user = u]
      <4>1. next \in RequestType /\ Staged(next) /\ ~Registering(next)
        BY <2>1, <3>2 DEF RequestType, PCs, Staged, Registering
      <4> QED
        BY <1>3, <3>2, <4>1 DEF Continue
    <3>3. CASE Fail(c)
      BY <2>2, <3>3 DEF Fail, Continue
    <3> QED
      BY <2>6, <3>1, <3>2, <3>3 DEF ReadEmail, Owners
  <2>7. CASE SelectToken(c)
    <3> DEFINE t == tokens[req[c].token]
               next == [req[c] EXCEPT !.pc = "revoke", !.user = t.user,
                                      !.tenant = t.tenant]
    <3>1. /\ req[c].kind = "refresh"
          /\ t.user \in Users \cup {Nobody} /\ t.tenant \in Tenants \cup {Nobody}
      BY <2>1, <2>7 DEF SelectToken, Staged, TokenType
    <3>2. next \in RequestType
      BY <2>1, <3>1 DEF RequestType, PCs
    <3>3. next.pc = "revoke" /\ next.kind = "refresh" /\ next.token = req[c].token
      BY <2>1, <3>1 DEF RequestType
    <3>4. Staged(next) /\ ~Registering(next)
      BY <2>1, <3>1, <3>3 DEF Staged, Registering
    <3> QED
      BY <1>3, <2>2, <2>7, <3>2, <3>4 DEF SelectToken, Continue, Fail
  <2>8. CASE Revoke(c)
    <3> DEFINE next == [req[c] EXCEPT !.pc = "issue"]
    <3>1. next \in RequestType /\ Staged(next) /\ ~Registering(next)
      BY <2>1, <2>8 DEF Revoke, RequestType, PCs, Staged, Registering
    <3> QED
      BY <1>3, <2>8, <3>1 DEF Revoke, Continue
  <2>9. CASE CheckUser(c)
    <3> DEFINE t == tokens[req[c].token]
               next == [req[c] EXCEPT !.pc = "member", !.user = t.user]
    <3>1. req[c].kind = "switch" /\ t \in TokenType
      BY <2>1, <2>9 DEF CheckUser, Staged
    <3>2. t.user \in Users \cup {Nobody}
      BY <3>1 DEF TokenType
    <3>3. next \in RequestType /\ next.pc = "member" /\ next.kind = "switch"
          /\ next.token = req[c].token
      BY <2>1, <3>1, <3>2 DEF RequestType, PCs
    <3>4. Staged(next) /\ ~Registering(next)
      BY <2>1, <3>1, <3>3 DEF Staged, Registering
    <3> QED
      BY <1>3, <2>2, <2>9, <3>3, <3>4 DEF CheckUser, Continue, Fail
  <2>10. CASE CheckMember(c)
    <3> DEFINE next == [req[c] EXCEPT !.pc = "issue"]
    <3>1. next \in RequestType /\ Staged(next) /\ ~Registering(next)
      BY <2>1, <2>10 DEF CheckMember, RequestType, PCs, Staged, Registering
    <3> QED
      BY <1>3, <2>2, <2>10, <3>1 DEF CheckMember, Continue, Fail
  <2>11. ASSUME NEW t \in Tokens, Issue(c, t) PROVE EmailInv'
    <3> DEFINE next == [req[c] EXCEPT !.pc = "commit", !.row = t, !.issued = now]
    <3>1. req[c].pc = "issue"
      BY <2>11 DEF Issue
    <3>2. next \in RequestType /\ Staged(next) /\ ~Registering(next)
      BY <2>1, <3>1 DEF RequestType, PCs, Staged, Registering
    <3> QED
      BY <1>3, <2>11, <3>2 DEF Issue, Continue
  <2> QED
    BY <1>6, <2>3, <2>4, <2>5, <2>6, <2>7, <2>8, <2>9, <2>10, <2>11
<1>7. CASE HandlerNext
  BY <1>6, <1>7, InsertUserInv, CommitInv DEF HandlerNext
<1>8. ASSUME NEW u \in Users, NEW tenant \in Tenants, AddMember(u, tenant)
      PROVE  EmailInv'
  BY <1>1, <1>8 DEF AddMember, EmailInv, SessionsTyped, Reserved, OneUserPerEmail
<1>9. CASE UNCHANGED vars
  BY <1>2, <1>9 DEF vars
<1> QED
  BY <1>4, <1>5, <1>7, <1>8, <1>9 DEF Next

\* However many registrations race, an email belongs to one user.
THEOREM EmailsUnique == Spec => []OneUserPerEmail
<1>1. EmailInv => OneUserPerEmail
  BY DEF EmailInv
<1>2. Init => LimitInv
  BY LimitInitInv DEF Init
<1>3. LimitInv /\ [Next]_vars => LimitInv'
  BY NextLimited, LimitNextInv
<1> QED
  BY <1>1, <1>2, <1>3, EmailInitInv, EmailNextInv, PTL DEF Spec

-----------------------------------------------------------------------------
(* Sessions fork only by overlap *)

ActiveOf(s) == {t \in Tokens : tokens[t].session = s /\ tokens[t].state = "active"}

\* A request has a row of refresh_tokens when it is about to commit it, and a
\* rotation goes on only if it arrived with a token that was not revoked yet.
Rotating(r) ==
    /\ r.row # 0 <=> r.pc = "commit" /\ r.kind # "register"
    /\ r.kind = "refresh" => tokens[r.token].state # "none"
    /\ r.stale => /\ r.kind = "refresh" /\ tokens[r.token].state = "revoked"
                  /\ r.pc \in {"limiter", "select"}

\* The row of a request is nobody else's.
RowsFree ==
    \A c \in Callers : req[c].row # 0 =>
        /\ tokens[req[c].row].state = "none"
        /\ \A d \in Callers \ {c} : req[d].row # req[c].row

\* Every token is of a session that a login began.
Rooted ==
    \A t \in Tokens : tokens[t].state # "none" =>
        /\ tokens[t].session \in Tokens
        /\ tokens[tokens[t].session].state # "none"
        /\ tokens[tokens[t].session].session = tokens[t].session

ForksCounted ==
    /\ forks \in [Tokens -> Nat]
    /\ \A s \in Tokens : tokens[s].state = "none" => forks[s] = 0
    /\ \A s \in Tokens : IsFiniteSet(ActiveOf(s))

ForkInv ==
    /\ \A c \in Callers : Rotating(req[c])
    /\ RowsFree
    /\ Rooted
    /\ ForksCounted
    /\ SessionsForkOnlyByOverlap

LEMMA ForkInitInv == Init => ForkInv
<1> SUFFICES ASSUME Init PROVE ForkInv
  OBVIOUS
<1>1. /\ \A c \in Callers : req[c] = Idle
      /\ forks = [t \in Tokens |-> 0]
  BY DEF Init
<1>2. CASE tokens = [t \in Tokens |-> NoToken]
  <2>1. \A t \in Tokens : tokens[t].state = "none"
    BY <1>2 DEF NoToken
  <2>2. \A s \in Tokens : ActiveOf(s) = {}
    BY <2>1 DEF ActiveOf
  <2>3. \A s \in Tokens : IsFiniteSet(ActiveOf(s))
    BY <2>2, FS_EmptySet
  <2> QED
    BY <1>1, <2>1, <2>3
    DEF ForkInv, Rotating, Idle, RowsFree, Rooted, ForksCounted, SessionsForkOnlyByOverlap
<1>3. ASSUME NEW u \in Users,
             tokens = [t \in Tokens |->
                         IF \A s \in Tokens : t <= s
                         THEN [NoToken EXCEPT !.state = "active",
                                              !.user = u, !.session = t]
                         ELSE NoToken]
      PROVE  ForkInv
  <2>1. \A t \in Tokens :
           /\ tokens[t].state = "active" /\ tokens[t].session = t /\ \A s \in Tokens : t <= s
           \/ tokens[t].state = "none"
    BY <1>3 DEF NoToken
  <2>2. \A t, s \in Tokens : t <= s /\ s <= t => t = s
    BY SessionsAssumption
  <2>3. ASSUME NEW s \in Tokens
        PROVE  ActiveOf(s) = IF tokens[s].state = "active" THEN {s} ELSE {}
    BY <2>1, <2>2 DEF ActiveOf
  <2>4. \A s \in Tokens : /\ IsFiniteSet(ActiveOf(s))
                          /\ tokens[s].state = "active" => Cardinality(ActiveOf(s)) = 1
    BY <2>3, FS_EmptySet, FS_Singleton
  <2>5. SessionsForkOnlyByOverlap
    BY <1>1, <2>1, <2>4 DEF SessionsForkOnlyByOverlap, ActiveOf
  <2> QED
    BY <1>1, <2>1, <2>4, <2>5
    DEF ForkInv, Rotating, Idle, RowsFree, Rooted, ForksCounted
<1> QED
  BY <1>2, <1>3 DEF Init

\* A request that goes on without a row, and every other step that leaves the
\* tokens alone.
LEMMA TokensStay ==
    ASSUME ForkInv, req' \in [Callers -> RequestType], UNCHANGED <<tokens, forks>>,
           \A d \in Callers : req'[d] # req[d] => Rotating(req'[d]) /\ req'[d].row = 0
    PROVE  ForkInv'
<1>1. /\ ForksCounted' /\ Rooted' /\ SessionsForkOnlyByOverlap'
  BY DEF ForkInv, ForksCounted, Rooted, SessionsForkOnlyByOverlap, ActiveOf
<1>2. \A r : Rotating(r)' <=> Rotating(r)
  BY DEF Rotating
<1>3. \A d \in Callers : Rotating(req'[d])
  BY DEF ForkInv
<1>4. RowsFree'
  BY DEF ForkInv, RowsFree
<1> QED
  BY <1>1, <1>3, <1>4 DEF ForkInv, Rotating

\* Issue reserves a row.
LEMMA IssueFork ==
    ASSUME EmailInv, ForkInv, NEW c \in Callers, NEW t \in Tokens, Issue(c, t)
    PROVE  ForkInv'
<1> DEFINE next == [req[c] EXCEPT !.pc = "commit", !.row = t, !.issued = now]
<1>1. /\ req[c] \in RequestType /\ req[c].pc = "issue" /\ req[c].kind # "register"
      /\ Rotating(req[c]) /\ t # 0
  BY SessionsAssumption DEF Issue, EmailInv, SessionsTyped, Staged, ForkInv
<1>2. \A d \in Callers : req'[d] = IF d = c THEN next ELSE req[d]
  BY DEF Issue, Continue, EmailInv, SessionsTyped
<1>3. UNCHANGED <<tokens, forks>>
  BY DEF Issue, Continue
<1>4. /\ tokens[t].state = "none" /\ \A d \in Callers : req[d].row # t
  BY DEF Issue, FreeTokens
<1>5. /\ next.row = t /\ next.pc = "commit" /\ next.kind = req[c].kind
      /\ next.token = req[c].token /\ next.stale = req[c].stale
  BY <1>1 DEF RequestType
<1> HIDE DEF next
<1>6. /\ ForksCounted' /\ Rooted' /\ SessionsForkOnlyByOverlap'
  BY <1>3 DEF ForkInv, ForksCounted, Rooted, SessionsForkOnlyByOverlap, ActiveOf
<1>7. Rotating(next)
  BY <1>1, <1>5 DEF Rotating
<1>8. \A d \in Callers : Rotating(req'[d])
  BY <1>2, <1>7 DEF ForkInv
<1>9. RowsFree'
  BY <1>2, <1>3, <1>4, <1>5 DEF ForkInv, RowsFree
<1> QED
  BY <1>3, <1>6, <1>8, <1>9 DEF ForkInv, Rotating

\* A commit gives its session a token, and takes away the token it rotated: if
\* that was taken already, since the request arrived, the session forks.
LEMMA CommitFork ==
    ASSUME EmailInv, ForkInv, NEW c \in Callers, Commit(c)
    PROVE  ForkInv'
<1> SUFFICES ASSUME NEW row, row = req[c].row, NEW old, old = req[c].token,
                    NEW home, home = IF req[c].kind = "refresh"
                                     THEN tokens[old].session ELSE row
             PROVE  ForkInv'
  OBVIOUS
<1>1. /\ req[c] \in RequestType /\ req[c].pc = "commit"
      /\ Staged(req[c]) /\ Rotating(req[c])
      /\ \A d \in Callers : req'[d] = IF d = c THEN Idle ELSE req[d]
      /\ tokens \in [Tokens -> TokenType]
  BY DEF Commit, EmailInv, SessionsTyped, ForkInv
<1>2. ~req[c].stale
  BY <1>1 DEF Rotating
<1>3. CASE req[c].kind = "register"
  <2>1. row = 0
    BY <1>1, <1>3 DEF Rotating
  <2>2. tokens' = tokens
    BY <1>1, <1>3, <2>1, SessionsAssumption DEF Commit, Rotated
  <2>3. forks' = forks
    BY <1>3 DEF Commit
  <2>4. req' \in [Callers -> RequestType]
    BY CommitInv DEF EmailInv, SessionsTyped
  <2>5. Rotating(Idle) /\ Idle.row = 0
    BY DEF Rotating, Idle
  <2> QED
    BY <1>1, <2>2, <2>3, <2>4, <2>5, TokensStay
<1>4. CASE req[c].kind # "register"
  <2>1. /\ row \in Tokens /\ tokens[row].state = "none"
        /\ \A d \in Callers \ {c} : req[d].row # row
    <3>1. row # 0
      BY <1>1, <1>4 DEF Rotating
    <3> QED
      BY <1>1, <3>1 DEF RequestType, ForkInv, RowsFree
  <2>2. req[c].kind = "refresh" => /\ old \in Tokens /\ tokens[old].state # "none"
                                   /\ old # row
    BY <1>1, <2>1 DEF Staged, Rotating
  <2>3. req[c].kind = "refresh" =>
           /\ home \in Tokens /\ home # row
           /\ tokens[home].state # "none" /\ tokens[home].session = home
    BY <2>1, <2>2 DEF ForkInv, Rooted
  <2>4. /\ tokens'[row].state = "active" /\ tokens'[row].session = home
        /\ \A t \in Tokens \ {row} :
              /\ tokens'[t].session = tokens[t].session
              /\ tokens'[t].state = IF req[c].kind = "refresh" /\ t = old
                                    THEN "revoked" ELSE tokens[t].state
    <3>1. NewToken(c).state = "active" /\ NewToken(c).session = home
      BY DEF NewToken
    <3>2. \A t \in Tokens : tokens'[t] =
             IF t = row THEN NewToken(c)
             ELSE IF req[c].kind = "refresh" /\ t = old
                  THEN [tokens[t] EXCEPT !.state = "revoked"]
                  ELSE tokens[t]
      BY DEF Commit, Rotated
    <3>3. \A t \in Tokens : /\ [tokens[t] EXCEPT !.state = "revoked"].state = "revoked"
                            /\ [tokens[t] EXCEPT !.state = "revoked"].session = tokens[t].session
      BY <1>1 DEF TokenType
    <3> QED
      BY <2>1, <3>1, <3>2, <3>3
  <2>5. forks' = IF req[c].kind = "refresh" /\ tokens[old].state = "revoked"
                 THEN [forks EXCEPT ![home] = @ + 1] ELSE forks
    BY <1>2 DEF Commit
  <2>6. /\ forks' \in [Tokens -> Nat]
        /\ \A s \in Tokens : forks'[s] =
              IF req[c].kind = "refresh" /\ tokens[old].state = "revoked" /\ s = home
              THEN forks[s] + 1 ELSE forks[s]
    BY <2>3, <2>5, SMTT(20) DEF ForkInv, ForksCounted
  <2>7. Rooted'
    BY <2>1, <2>2, <2>3, <2>4 DEF ForkInv, Rooted
  <2>8. \A d \in Callers : Rotating(req[d])'
    <3> SUFFICES ASSUME NEW d \in Callers PROVE Rotating(req[d])'
      OBVIOUS
    <3>1. CASE d = c
      <4>1. req'[d] = Idle
        BY <1>1, <3>1
      <4> QED
        BY <4>1 DEF Rotating, Idle
    <3>2. CASE d # c
      <4>1. Rotating(req[d]) /\ Staged(req[d]) /\ req'[d] = req[d]
        BY <1>1, <3>2 DEF EmailInv, ForkInv
      <4> QED
        BY <2>1, <2>4, <4>1 DEF Rotating, Staged
    <3> QED
      BY <3>1, <3>2
  <2>9. RowsFree'
    <3> SUFFICES ASSUME NEW d \in Callers, req'[d].row # 0
                 PROVE  /\ tokens'[req'[d].row].state = "none"
                        /\ \A e \in Callers \ {d} : req'[e].row # req'[d].row
      BY DEF RowsFree
    <3>1. d # c /\ req'[d] = req[d]
      BY <1>1 DEF Idle
    <3>2. /\ tokens[req[d].row].state = "none" /\ req[d].row \in Tokens \ {row}
          /\ \A e \in Callers \ {d} : req[e].row # req[d].row
      BY <2>1, <3>1 DEF ForkInv, RowsFree, EmailInv, SessionsTyped, RequestType
    <3> QED
      BY <1>1, <2>2, <2>4, <3>1, <3>2 DEF Idle
  <2>10. \A s \in Tokens \ {home} : ActiveOf(s)' = ActiveOf(s)
    BY <2>1, <2>2, <2>3, <2>4 DEF ActiveOf
  <2>11. home \in Tokens
    BY <2>1, <2>3
  <2>12. /\ IsFiniteSet(ActiveOf(home)')
         /\ Cardinality(ActiveOf(home)') = 1 + forks'[home]
    <3>1. row \notin ActiveOf(home) /\ IsFiniteSet(ActiveOf(home))
      BY <2>1, <2>11 DEF ActiveOf, ForkInv, ForksCounted
    <3>2. CASE req[c].kind # "refresh"
      <4>1. home = row
        BY <3>2
      <4>2. ActiveOf(home)' = {row}
        BY <2>1, <2>4, <3>2, <4>1 DEF ActiveOf, ForkInv, Rooted
      <4>3. forks'[home] = 0
        BY <2>1, <2>6, <3>2, <4>1 DEF ForkInv, ForksCounted
      <4>4. IsFiniteSet({row}) /\ Cardinality({row}) = 1
        BY FS_Singleton
      <4> QED
        BY <4>2, <4>3, <4>4
    <3>3. CASE req[c].kind = "refresh"
      <4>1. Cardinality(ActiveOf(home)) = 1 + forks[home] /\ forks[home] \in Nat
        BY <2>3, <3>3 DEF ForkInv, SessionsForkOnlyByOverlap, ForksCounted, ActiveOf
      <4>2. tokens[old].session = home
        BY <3>3
      <4>3. CASE tokens[old].state = "active"
        <5>1. ActiveOf(home)' = (ActiveOf(home) \ {old}) \cup {row}
          BY <2>1, <2>2, <2>4, <3>3, <4>2, <4>3 DEF ActiveOf
        <5>2. old \in ActiveOf(home)
          BY <2>2, <3>3, <4>2, <4>3 DEF ActiveOf
        <5>3. /\ IsFiniteSet(ActiveOf(home) \ {old})
              /\ Cardinality(ActiveOf(home) \ {old}) = Cardinality(ActiveOf(home)) - 1
          BY <3>1, <5>2, FS_RemoveElement
        <5>4. row \notin ActiveOf(home) \ {old}
          BY <3>1
        <5>5. ASSUME NEW S, IsFiniteSet(S), row \notin S
              PROVE  /\ IsFiniteSet(S \cup {row})
                     /\ Cardinality(S \cup {row}) = Cardinality(S) + 1
          BY <5>5, FS_AddElement
        <5>6. /\ IsFiniteSet(ActiveOf(home)')
              /\ Cardinality(ActiveOf(home)') = Cardinality(ActiveOf(home) \ {old}) + 1
          BY <5>1, <5>3, <5>4, <5>5
        <5>7. forks'[home] = forks[home]
          BY <2>6, <2>11, <4>3
        <5>8. Cardinality(ActiveOf(home) \ {old}) = forks[home]
          BY <4>1, <5>3
        <5> QED
          BY <4>1, <5>6, <5>7, <5>8
      <4>4. CASE tokens[old].state = "revoked"
        <5>1. ActiveOf(home)' = ActiveOf(home) \cup {row}
          BY <2>1, <2>2, <2>4, <3>3, <4>2, <4>4 DEF ActiveOf
        <5>2. /\ IsFiniteSet(ActiveOf(home)')
              /\ Cardinality(ActiveOf(home)') = Cardinality(ActiveOf(home)) + 1
          BY <3>1, <5>1, FS_AddElement
        <5>3. forks'[home] = forks[home] + 1
          BY <2>6, <2>11, <3>3, <4>4
        <5> QED
          BY <4>1, <5>2, <5>3
      <4>5. tokens[old].state \in {"active", "revoked"}
        BY <1>1, <2>2, <3>3 DEF TokenType
      <4> QED
        BY <4>3, <4>4, <4>5
    <3> QED
      BY <3>2, <3>3
  <2>13. ForksCounted'
    <3>1. \A s \in Tokens : IsFiniteSet(ActiveOf(s)')
      BY <2>10, <2>12 DEF ForkInv, ForksCounted
    <3>2. \A s \in Tokens : tokens'[s].state = "none" =>
             tokens[s].state = "none" /\ (req[c].kind = "refresh" => s # home)
      BY <2>1, <2>2, <2>3, <2>4
    <3>3. \A s \in Tokens : tokens'[s].state = "none" => forks'[s] = 0
      BY <2>6, <3>2 DEF ForkInv, ForksCounted
    <3> QED
      BY <2>6, <3>1, <3>3 DEF ForksCounted, ActiveOf
  <2>14. SessionsForkOnlyByOverlap'
    <3> SUFFICES ASSUME NEW s \in Tokens, tokens'[s].state # "none", tokens'[s].session = s
                 PROVE  Cardinality(ActiveOf(s)') = 1 + forks'[s]
      BY DEF SessionsForkOnlyByOverlap, ActiveOf
    <3>1. CASE s = home
      BY <2>12, <3>1
    <3>2. CASE s # home
      <4>1. s # row
        BY <2>4, <3>2
      <4>2. tokens[s].state # "none" /\ tokens[s].session = s
        BY <2>2, <2>4, <4>1
      <4>3. Cardinality(ActiveOf(s)) = 1 + forks[s]
        BY <4>2 DEF ForkInv, SessionsForkOnlyByOverlap, ActiveOf
      <4> QED
        BY <2>6, <2>10, <3>2, <4>3
    <3> QED
      BY <3>1, <3>2
  <2> QED
    BY <2>7, <2>8, <2>9, <2>13, <2>14 DEF ForkInv
<1> QED
  BY <1>3, <1>4

\* Every step.
LEMMA ForkNextInv == EmailInv /\ EmailInv' /\ ForkInv /\ [Next]_vars => ForkInv'
<1> SUFFICES ASSUME EmailInv, EmailInv', ForkInv, [Next]_vars PROVE ForkInv'
  OBVIOUS
<1>1. ASSUME UNCHANGED <<tokens, req, forks>> PROVE ForkInv'
  BY <1>1, TokensStay DEF EmailInv, SessionsTyped
<1>2. ASSUME NEW c \in Callers, NEW next, req' = [req EXCEPT ![c] = next],
             Rotating(next), next.row = 0, UNCHANGED <<tokens, forks>>
      PROVE  ForkInv'
  <2>1. \A d \in Callers : req'[d] # req[d] => req'[d] = next
    BY <1>2 DEF EmailInv, SessionsTyped
  <2> QED
    BY <1>2, <2>1, TokensStay DEF EmailInv, SessionsTyped
<1>3. CASE LimiterNext
  BY <1>1, <1>3 DEF LimiterNext, sessionVars
<1>4. CASE ArriveNext
  <2>1. ASSUME NEW c \in Callers, NEW client \in Clients, NEW kind, kind # "refresh",
               NEW new, Arrive(c, client, new), new.kind = kind, new.row = 0, ~new.stale,
               new \in RequestType
        PROVE  ForkInv'
    <3>1. /\ [new EXCEPT !.pc = "limiter"].row = 0
          /\ Rotating([new EXCEPT !.pc = "limiter"])
      BY <2>1 DEF Rotating, RequestType
    <3> QED
      BY <1>2, <2>1, <3>1 DEF Arrive
  <2>2. ASSUME NEW c \in Callers, NEW client \in Clients, NEW e \in Emails,
               Register(c, client, e) \/ Login(c, client, e)
        PROVE  ForkInv'
    <3>1. PICK kind \in {"register", "login"} :
             Arrive(c, client, [Idle EXCEPT !.kind = kind, !.email = e])
      BY <2>2 DEF Register, Login
    <3> DEFINE new == [Idle EXCEPT !.kind = kind, !.email = e]
    <3>2. /\ new \in RequestType /\ new.kind = kind /\ kind # "refresh"
          /\ new.row = 0 /\ ~new.stale
      BY DEF Idle, RequestType, PCs
    <3> QED
      BY <2>1, <3>1, <3>2
  <2>3. ASSUME NEW c \in Callers, NEW client \in Clients, NEW t \in Tokens,
               Refresh(c, client, t)
        PROVE  ForkInv'
    <3> DEFINE stale == tokens[t].state = "revoked"
               new == [Idle EXCEPT !.kind = "refresh", !.token = t, !.stale = stale]
               arrived == [new EXCEPT !.pc = "limiter"]
    <3>1. Arrive(c, client, new) /\ tokens[t].state # "none"
      BY <2>3 DEF Refresh
    <3>2. /\ arrived.row = 0 /\ arrived.kind = "refresh" /\ arrived.token = t
          /\ arrived.pc = "limiter" /\ arrived.stale = stale
      BY DEF Idle
    <3>3. Rotating(arrived)
      BY <3>1, <3>2 DEF Rotating
    <3> QED
      BY <1>2, <3>1, <3>2, <3>3 DEF Arrive
  <2>4. ASSUME NEW c \in Callers, NEW client \in Clients, NEW t \in Tokens,
               NEW tenant \in Tenants, SwitchOrganization(c, client, t, tenant)
        PROVE  ForkInv'
    <3> DEFINE new == [Idle EXCEPT !.kind = "switch", !.token = t, !.tenant = tenant]
    <3>1. Arrive(c, client, new)
      BY <2>4 DEF SwitchOrganization
    <3>2. /\ new \in RequestType /\ new.kind = "switch" /\ new.row = 0 /\ ~new.stale
      BY DEF Idle, RequestType, PCs
    <3> QED
      BY <2>1, <3>1, <3>2
  <2> QED
    BY <1>4, <2>2, <2>3, <2>4 DEF ArriveNext
<1>5. ASSUME NEW c \in Callers,
             \/ Handle(c) \/ LimiterDies(c) \/ ReadEmail(c) \/ SelectToken(c)
             \/ Revoke(c) \/ CheckUser(c) \/ CheckMember(c) \/ RequestDies(c)
             \/ \E u \in Users : InsertUser(c, u)
      PROVE  ForkInv'
  <2>1. req[c] \in RequestType /\ Staged(req[c]) /\ Rotating(req[c])
    BY DEF EmailInv, SessionsTyped, ForkInv
  <2>2. UNCHANGED <<tokens, forks>>
    BY <1>5 DEF Handle, LimiterDies, ReadEmail, SelectToken, Revoke, CheckUser, CheckMember,
                RequestDies, InsertUser, Fail, Continue
  <2>3. ASSUME req' = [req EXCEPT ![c] = Idle] PROVE ForkInv'
    <3>1. Rotating(Idle) /\ Idle.row = 0
      BY DEF Rotating, Idle
    <3> QED
      BY <1>2, <2>2, <2>3, <3>1
  <2>4. ASSUME NEW next, req' = [req EXCEPT ![c] = next],
               next.row = req[c].row, next.kind = req[c].kind, next.token = req[c].token,
               next.stale = req[c].stale, req[c].pc # "commit",
               next.pc = "commit" => next.kind = "register",
               next.stale => next.pc = "select"
        PROVE  ForkInv'
    BY <1>2, <2>1, <2>2, <2>4 DEF Rotating
  <2>5. CASE Handle(c)
    <3> DEFINE next == [req[c] EXCEPT !.pc = FirstStep(req[c].kind)]
    <3>1. /\ next.row = req[c].row /\ next.kind = req[c].kind
          /\ next.token = req[c].token /\ next.stale = req[c].stale
          /\ next.pc = FirstStep(req[c].kind)
      BY <2>1 DEF RequestType
    <3>2. req[c].kind # "none" /\ req[c].pc = "limiter"
      BY <2>1, <2>5 DEF Handle, Staged
    <3>3. next.pc # "commit" /\ (next.stale => next.pc = "select")
      BY <2>1, <3>1, <3>2 DEF FirstStep, Rotating, RequestType
    <3>4. req' = [req EXCEPT ![c] = next] \/ req' = [req EXCEPT ![c] = Idle]
      BY <2>5 DEF Handle
    <3> HIDE DEF next
    <3> QED
      BY <2>3, <2>4, <3>1, <3>2, <3>3, <3>4
  <2>6. CASE LimiterDies(c) \/ RequestDies(c)
    BY <2>3, <2>6 DEF LimiterDies, RequestDies, Fail, Continue
  <2>7. CASE ReadEmail(c)
    <3>1. ~req[c].stale /\ req[c].pc = "email"
      BY <2>1, <2>7 DEF Rotating, ReadEmail
    <3>2. ASSUME NEW u, Continue(c, [req[c] EXCEPT !.pc = "issue", !.user = u])
          PROVE  ForkInv'
      <4> DEFINE next == [req[c] EXCEPT !.pc = "issue", !.user = u]
      <4>1. /\ next.row = req[c].row /\ next.kind = req[c].kind /\ next.pc = "issue"
            /\ next.token = req[c].token /\ next.stale = req[c].stale
        BY <2>1 DEF RequestType
      <4> QED
        BY <2>4, <3>1, <3>2, <4>1 DEF Continue
    <3>3. ASSUME Continue(c, [req[c] EXCEPT !.pc = "insert"])
          PROVE  ForkInv'
      <4> DEFINE next == [req[c] EXCEPT !.pc = "insert"]
      <4>1. /\ next.row = req[c].row /\ next.kind = req[c].kind /\ next.pc = "insert"
            /\ next.token = req[c].token /\ next.stale = req[c].stale
        BY <2>1 DEF RequestType
      <4> QED
        BY <2>4, <3>1, <3>3, <4>1 DEF Continue
    <3> QED
      BY <2>3, <2>7, <3>2, <3>3 DEF ReadEmail, Fail, Continue
  <2>8. CASE SelectToken(c)
    <3>1. CASE Fail(c)
      BY <2>3, <3>1 DEF Fail, Continue
    <3>2. CASE ~Fail(c)
      <4> DEFINE t == tokens[req[c].token]
                 next == [req[c] EXCEPT !.pc = "revoke", !.user = t.user,
                                        !.tenant = t.tenant]
      <4>1. t.state = "active" /\ req' = [req EXCEPT ![c] = next] /\ req[c].pc = "select"
        BY <2>8, <3>2 DEF SelectToken, Continue
      <4>2. ~req[c].stale
        BY <2>1, <4>1 DEF Rotating
      <4>3. /\ next.row = req[c].row /\ next.kind = req[c].kind /\ next.pc = "revoke"
            /\ next.token = req[c].token /\ next.stale = req[c].stale
        BY <2>1 DEF RequestType
      <4> QED
        BY <2>4, <4>1, <4>2, <4>3
    <3> QED
      BY <3>1, <3>2
  <2>9. CASE Revoke(c) \/ CheckMember(c)
    <3> DEFINE next == [req[c] EXCEPT !.pc = "issue"]
    <3>1. /\ next.row = req[c].row /\ next.kind = req[c].kind /\ next.pc = "issue"
          /\ next.token = req[c].token /\ next.stale = req[c].stale
      BY <2>1 DEF RequestType
    <3>2. ~req[c].stale /\ req[c].pc # "commit"
      BY <2>1, <2>9 DEF Rotating, Revoke, CheckMember
    <3>3. req' = [req EXCEPT ![c] = next] \/ req' = [req EXCEPT ![c] = Idle]
      BY <2>9 DEF Revoke, CheckMember, Fail, Continue
    <3> HIDE DEF next
    <3> QED
      BY <2>3, <2>4, <3>1, <3>2, <3>3
  <2>10. CASE CheckUser(c)
    <3> DEFINE next == [req[c] EXCEPT !.pc = "member",
                                      !.user = tokens[req[c].token].user]
    <3>1. /\ next.row = req[c].row /\ next.kind = req[c].kind /\ next.pc = "member"
          /\ next.token = req[c].token /\ next.stale = req[c].stale
      BY <2>1 DEF RequestType
    <3>2. ~req[c].stale /\ req[c].pc = "user"
      BY <2>1, <2>10 DEF Rotating, CheckUser
    <3>3. req' = [req EXCEPT ![c] = next] \/ req' = [req EXCEPT ![c] = Idle]
      BY <2>10 DEF CheckUser, Fail, Continue
    <3> HIDE DEF next
    <3> QED
      BY <2>3, <2>4, <3>1, <3>2, <3>3
  <2>11. ASSUME NEW u \in Users, InsertUser(c, u) PROVE ForkInv'
    <3> DEFINE next == [req[c] EXCEPT !.pc = "commit", !.user = u]
    <3>1. /\ next.row = req[c].row /\ next.kind = req[c].kind /\ next.pc = "commit"
          /\ next.token = req[c].token /\ next.stale = req[c].stale
      BY <2>1 DEF RequestType
    <3>2. ~req[c].stale /\ req[c].pc = "insert" /\ req[c].kind = "register"
      BY <2>1, <2>11 DEF Rotating, InsertUser, Staged
    <3>3. req' = [req EXCEPT ![c] = next] \/ req' = [req EXCEPT ![c] = Idle]
      BY <2>11 DEF InsertUser, Fail, Continue
    <3> HIDE DEF next
    <3> QED
      BY <2>3, <2>4, <3>1, <3>2, <3>3
  <2> QED
    BY <1>5, <2>5, <2>6, <2>7, <2>8, <2>9, <2>10, <2>11
<1>6. CASE HandlerNext
  BY <1>5, <1>6, IssueFork, CommitFork DEF HandlerNext
<1>7. ASSUME NEW u \in Users, NEW tenant \in Tenants, AddMember(u, tenant)
      PROVE  ForkInv'
  BY <1>1, <1>7 DEF AddMember
<1>8. CASE UNCHANGED vars
  BY <1>1, <1>8 DEF vars, sessionVars
<1> QED
  BY <1>3, <1>4, <1>6, <1>7, <1>8 DEF Next

\* However many refreshes, logins and crashes there are: a session has one
\* active refresh token and one more for every rotation that overlapped
\* another's commit.
THEOREM SessionsRotate == Spec => []SessionsForkOnlyByOverlap
<1>1. ForkInv => SessionsForkOnlyByOverlap
  BY DEF ForkInv
<1>2. Init => LimitInv
  BY LimitInitInv DEF Init
<1>3. LimitInv /\ [Next]_vars => LimitInv'
  BY NextLimited, LimitNextInv
<1> QED
  BY <1>1, <1>2, <1>3, EmailInitInv, EmailNextInv, ForkInitInv, ForkNextInv, PTL DEF Spec

-----------------------------------------------------------------------------
(* Types and bounds *)

\* Memberships are of users in organizations, and a token is issued at a time
\* that the clock has shown.
IssuedInv ==
    /\ members \subseteq Users \X Tenants
    /\ \A t \in Tokens : tokens[t].issued \in Times
    /\ \A c \in Callers : req[c].issued \in Times

LEMMA IssuedInitInv == Init => IssuedInv
<1> SUFFICES ASSUME Init PROVE IssuedInv
  OBVIOUS
<1>1. 0 \in Times
  BY RateLimitAssumption DEF Times
<1>2. /\ NoToken.issued = 0 /\ Idle.issued = 0
      /\ \A u \in Users, t \in Tokens :
            [NoToken EXCEPT !.state = "active", !.user = u, !.session = t].issued = 0
  BY DEF NoToken, Idle
<1>3. \A t \in Tokens : tokens[t].issued = 0
  BY <1>2 DEF Init
<1>4. members = {} /\ \A c \in Callers : req[c].issued = 0
  BY <1>2 DEF Init
<1> QED
  BY <1>1, <1>3, <1>4 DEF IssuedInv

LEMMA IssuedNextInv == EmailInv /\ LimitTypeOK /\ IssuedInv /\ [Next]_vars => IssuedInv'
<1> SUFFICES ASSUME EmailInv, LimitTypeOK, IssuedInv, [Next]_vars PROVE IssuedInv'
  OBVIOUS
<1>1. /\ req \in [Callers -> RequestType] /\ tokens \in [Tokens -> TokenType]
      /\ now \in Times /\ 0 \in Times
  BY RateLimitAssumption DEF EmailInv, SessionsTyped, LimitTypeOK, Times
<1>2. ASSUME NEW c \in Callers, UNCHANGED <<members, tokens>>,
             NEW next, req' = [req EXCEPT ![c] = next], next.issued \in Times
      PROVE  IssuedInv'
  BY <1>1, <1>2 DEF IssuedInv
<1>3. ASSUME UNCHANGED <<members, tokens, req>> PROVE IssuedInv'
  BY <1>3 DEF IssuedInv
<1>4. CASE LimiterNext
  BY <1>3, <1>4 DEF LimiterNext, sessionVars
<1>5. CASE ArriveNext
  <2>1. \E c \in Callers, client \in Clients : \E new :
           Arrive(c, client, new) /\ new.issued = 0
                                  /\ [new EXCEPT !.pc = "limiter"].issued = 0
    <3>1. \A e \in Emails : \A kind :
             LET new == [Idle EXCEPT !.kind = kind, !.email = e]
             IN  new.issued = 0 /\ [new EXCEPT !.pc = "limiter"].issued = 0
      BY DEF Idle
    <3>2. \A t \in Tokens : \A stale :
             LET new == [Idle EXCEPT !.kind = "refresh", !.token = t, !.stale = stale]
             IN  new.issued = 0 /\ [new EXCEPT !.pc = "limiter"].issued = 0
      BY DEF Idle
    <3>3. \A t \in Tokens, tenant \in Tenants :
             LET new == [Idle EXCEPT !.kind = "switch", !.token = t, !.tenant = tenant]
             IN  new.issued = 0 /\ [new EXCEPT !.pc = "limiter"].issued = 0
      BY DEF Idle
    <3>4. PICK c \in Callers, client \in Clients :
             \/ \E e \in Emails : Register(c, client, e) \/ Login(c, client, e)
             \/ \E t \in Tokens : Refresh(c, client, t)
             \/ \E t \in Tokens, tenant \in Tenants :
                   SwitchOrganization(c, client, t, tenant)
      BY <1>5 DEF ArriveNext
    <3>5. CASE \E e \in Emails : Register(c, client, e) \/ Login(c, client, e)
      BY <3>1, <3>5 DEF Register, Login
    <3>6. CASE \E t \in Tokens : Refresh(c, client, t)
      <4>1. PICK t \in Tokens : Refresh(c, client, t)
        BY <3>6
      <4> DEFINE new == [Idle EXCEPT !.kind = "refresh", !.token = t,
                                     !.stale = tokens[t].state = "revoked"]
      <4>2. new.issued = 0 /\ [new EXCEPT !.pc = "limiter"].issued = 0
        BY <3>2
      <4> QED
        BY <4>1, <4>2 DEF Refresh
    <3>7. CASE \E t \in Tokens, tenant \in Tenants :
                  SwitchOrganization(c, client, t, tenant)
      BY <3>3, <3>7 DEF SwitchOrganization
    <3> QED
      BY <3>4, <3>5, <3>6, <3>7
  <2>2. ASSUME NEW c \in Callers, NEW client \in Clients, NEW new,
               Arrive(c, client, new), new.issued = 0,
               [new EXCEPT !.pc = "limiter"].issued = 0
        PROVE  IssuedInv'
    BY <1>1, <1>2, <2>2 DEF Arrive
  <2> QED
    BY <2>1, <2>2, Zenon
<1>6. ASSUME NEW c \in Callers,
             \/ Handle(c) \/ LimiterDies(c) \/ ReadEmail(c) \/ SelectToken(c)
             \/ Revoke(c) \/ CheckUser(c) \/ CheckMember(c) \/ RequestDies(c)
             \/ \E u \in Users : InsertUser(c, u)
             \/ \E t \in Tokens : Issue(c, t)
      PROVE  IssuedInv'
  <2>1. req[c].issued \in Times /\ req[c] \in RequestType /\ Idle.issued \in Times
    BY <1>1 DEF IssuedInv, Idle
  <2>2. UNCHANGED <<members, tokens>>
    BY <1>6 DEF Handle, LimiterDies, ReadEmail, SelectToken, Revoke, CheckUser,
                CheckMember, RequestDies, InsertUser, Issue, Fail, Continue
  <2>3. \E next : req' = [req EXCEPT ![c] = next] /\ next.issued \in Times
    <3>1. CASE Handle(c)
      <4>1. [req[c] EXCEPT !.pc = FirstStep(req[c].kind)].issued \in Times
        BY <2>1 DEF RequestType
      <4>2. \/ req' = [req EXCEPT ![c] = [req[c] EXCEPT !.pc = FirstStep(req[c].kind)]]
            \/ req' = [req EXCEPT ![c] = Idle]
        BY <3>1 DEF Handle
      <4> QED
        BY <2>1, <4>1, <4>2
    <3>2. CASE LimiterDies(c)
      BY <2>1, <3>2 DEF LimiterDies
    <3>3. CASE RequestDies(c)
      BY <2>1, <3>3 DEF RequestDies, Fail, Continue
    <3>4. CASE ReadEmail(c)
      <4>1. /\ [req[c] EXCEPT !.pc = "insert"].issued \in Times
            /\ \A u : [req[c] EXCEPT !.pc = "issue", !.user = u].issued \in Times
        BY <2>1 DEF RequestType
      <4>2. CASE Continue(c, Idle)
        BY <2>1, <4>2 DEF Continue
      <4>3. CASE Continue(c, [req[c] EXCEPT !.pc = "insert"])
        BY <4>1, <4>3 DEF Continue
      <4>4. CASE \E u \in Users : Continue(c, [req[c] EXCEPT !.pc = "issue", !.user = u])
        BY <4>1, <4>4 DEF Continue
      <4> QED
        BY <3>4, <4>2, <4>3, <4>4 DEF ReadEmail, Owners, Fail
    <3>5. CASE SelectToken(c)
      <4>1. \A u, o : [req[c] EXCEPT !.pc = "revoke", !.user = u, !.tenant = o].issued
                         \in Times
        BY <2>1 DEF RequestType
      <4>2. CASE Continue(c, Idle)
        BY <2>1, <4>2 DEF Continue
      <4>3. CASE \E u, o : Continue(c, [req[c] EXCEPT !.pc = "revoke", !.user = u,
                                                       !.tenant = o])
        BY <4>1, <4>3 DEF Continue
      <4> QED
        BY <3>5, <4>2, <4>3 DEF SelectToken, Fail
    <3>6. CASE Revoke(c) \/ CheckMember(c)
      <4>1. [req[c] EXCEPT !.pc = "issue"].issued \in Times
        BY <2>1 DEF RequestType
      <4>2. \/ req' = [req EXCEPT ![c] = [req[c] EXCEPT !.pc = "issue"]]
            \/ req' = [req EXCEPT ![c] = Idle]
        BY <3>6 DEF Revoke, CheckMember, Fail, Continue
      <4> QED
        BY <2>1, <4>1, <4>2
    <3>7. CASE CheckUser(c)
      <4>1. \A u : [req[c] EXCEPT !.pc = "member", !.user = u].issued \in Times
        BY <2>1 DEF RequestType
      <4>2. \/ \E u : req' = [req EXCEPT ![c] = [req[c] EXCEPT !.pc = "member", !.user = u]]
            \/ req' = [req EXCEPT ![c] = Idle]
        BY <3>7 DEF CheckUser, Fail, Continue
      <4> QED
        BY <2>1, <4>1, <4>2
    <3>8. CASE \E u \in Users : InsertUser(c, u)
      <4>1. \A u : [req[c] EXCEPT !.pc = "commit", !.user = u].issued \in Times
        BY <2>1 DEF RequestType
      <4>2. \/ \E u : req' = [req EXCEPT ![c] = [req[c] EXCEPT !.pc = "commit", !.user = u]]
            \/ req' = [req EXCEPT ![c] = Idle]
        BY <3>8 DEF InsertUser, Fail, Continue
      <4> QED
        BY <2>1, <4>1, <4>2
    <3>9. CASE \E t \in Tokens : Issue(c, t)
      <4>1. \A t : [req[c] EXCEPT !.pc = "commit", !.row = t, !.issued = now].issued = now
        BY <2>1 DEF RequestType
      <4>2. PICK t \in Tokens :
               req' = [req EXCEPT ![c] = [req[c] EXCEPT !.pc = "commit", !.row = t,
                                                        !.issued = now]]
        BY <3>9 DEF Issue, Continue
      <4> QED
        BY <1>1, <4>1, <4>2
    <3> QED
      BY <1>6, <3>1, <3>2, <3>3, <3>4, <3>5, <3>6, <3>7, <3>8, <3>9
  <2> QED
    BY <1>2, <2>2, <2>3
<1>7. ASSUME NEW c \in Callers, Commit(c) PROVE IssuedInv'
  <2>1. \A d \in Callers : req'[d].issued \in {req[d].issued, 0}
    BY <1>1, <1>7 DEF Commit, Idle
  <2>2. NewToken(c).issued = req[c].issued
    BY DEF NewToken
  <2>3. \A t \in Tokens : [tokens[t] EXCEPT !.state = "revoked"].issued = tokens[t].issued
    BY <1>1 DEF TokenType
  <2>4. \A t \in Tokens : tokens'[t].issued \in {tokens[t].issued, req[c].issued}
    BY <1>7, <2>2, <2>3 DEF Commit, Rotated
  <2>5. members' = members
    BY <1>7 DEF Commit
  <2> QED
    BY <1>1, <2>1, <2>4, <2>5 DEF IssuedInv
<1>8. CASE HandlerNext
  BY <1>6, <1>7, <1>8 DEF HandlerNext
<1>9. ASSUME NEW u \in Users, NEW tenant \in Tenants, AddMember(u, tenant)
      PROVE  IssuedInv'
  BY <1>9 DEF AddMember, IssuedInv
<1>10. CASE UNCHANGED vars
  BY <1>3, <1>10 DEF vars, sessionVars
<1> QED
  BY <1>4, <1>5, <1>8, <1>9, <1>10 DEF Next

\* Authentication and its limiter keep to their types: no counter exceeds the
\* calls there were, and no request has a row, a token or a time of another kind.
THEOREM SessionsTypeCorrect == Spec => []TypeOK
<1>1. LimitTypeOK /\ EmailInv /\ ForkInv /\ IssuedInv => TypeOK
  <2> SUFFICES ASSUME LimitTypeOK, EmailInv, ForkInv, IssuedInv PROVE TypeOK
    OBVIOUS
  <2>1. tokens \in [Tokens -> [state : {"none", "active", "revoked"},
                               user : Users \cup {Nobody},
                               tenant : Tenants \cup {Nobody},
                               issued : Times, session : Tokens \cup {0}]]
    BY DEF EmailInv, SessionsTyped, TokenType, IssuedInv
  <2>2. req \in [Callers ->
                   [pc : PCs, email : Emails \cup {Nobody},
                    kind : {"none", "register", "login", "refresh", "switch"},
                    user : Users \cup {Nobody}, tenant : Tenants \cup {Nobody},
                    token : Tokens \cup {0}, stale : BOOLEAN,
                    row : Tokens \cup {0}, issued : Times]]
    BY DEF EmailInv, SessionsTyped, RequestType, IssuedInv
  <2> QED
    BY <2>1, <2>2 DEF TypeOK, EmailInv, SessionsTyped, ForkInv, ForksCounted, IssuedInv
<1>2. Init => CountInv
  BY CountInitInv DEF Init
<1>3. CountInv /\ [Next]_vars => CountInv'
  BY NextLimited, CountNextInv
<1>4. CountInv => LimitInv /\ LimitTypeOK
  BY CountTypes DEF CountInv
<1> QED
  BY <1>1, <1>2, <1>3, <1>4, EmailInitInv, EmailNextInv, ForkInitInv, ForkNextInv,
     IssuedInitInv, IssuedNextInv, PTL DEF Spec
=============================================================================
