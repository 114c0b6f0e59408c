------------------------------ MODULE Sessions ------------------------------
(***************************************************************************)
(* Registration, login, refresh and switching of organizations             *)
(* (modules/auth), behind the limiter's auth bucket.  A request that the   *)
(* middleware lets through runs its statements one by one in a READ        *)
(* COMMITTED transaction and answers with a token pair after its commit.   *)
(***************************************************************************)
EXTENDS RateLimit

CONSTANTS
    Emails,
    Tokens,        \* rows of refresh_tokens, an initial segment of 1, 2, ...
    ACCESS_EXPIRE, \* lifetimes, in seconds
    REFRESH_EXPIRE

ASSUME SessionsAssumption ==
    /\ Tokens \subseteq Nat \ {0}
    /\ ACCESS_EXPIRE \in Nat /\ REFRESH_EXPIRE \in Nat
    /\ Nobody \notin Users \cup Emails \cup Tenants

VARIABLES
    users,   \* User rows: the email of each, once it is committed
    members, \* organization_memberships
    tokens,  \* RefreshToken rows, each with the access token issued beside it
    req,     \* the auth requests
    forks    \* session |-> refreshes that overlapped with another's commit

sessionVars == <<users, members, tokens, req, forks>>
vars == <<limitVars, sessionVars>>

\* A session is named after the token of its login.
NoToken == [state |-> "none", user |-> Nobody, tenant |-> Nobody,
            issued |-> 0, session |-> 0]

Idle == [pc |-> "idle", kind |-> "none", email |-> Nobody, user |-> Nobody,
         tenant |-> Nobody, token |-> 0, stale |-> FALSE,
         row |-> 0, issued |-> 0]

PCs == {"idle", "limiter", "email", "insert", "select", "revoke", "user",
        "member", "issue", "commit"}

TypeOK ==
    /\ LimitTypeOK
    /\ users \in [Users -> Emails \cup {Nobody}]
    /\ members \subseteq Users \X Tenants
    /\ tokens \in [Tokens -> [state : {"none", "active", "revoked"},
                              user : Users \cup {Nobody},
                              tenant : Tenants \cup {Nobody},
                              issued : Times, session : Tokens \cup {0}]]
    /\ req \in [Callers ->
                  [pc : PCs, email : Emails \cup {Nobody},
                   kind : {"none", "register", "login", "refresh", "switch"},
                   user : Users \cup {Nobody}, tenant : Tenants \cup {Nobody},
                   token : Tokens \cup {0}, stale : BOOLEAN,
                   row : Tokens \cup {0}, issued : Times]]
    /\ forks \in [Tokens -> Nat]

\* There may be a user who is logged in already.
Init ==
    /\ LimitInit
    /\ \/ /\ users = [u \in Users |-> Nobody]
          /\ tokens = [t \in Tokens |-> NoToken]
       \/ \E u \in Users, e \in Emails :
             /\ users = [v \in Users |-> IF v = u THEN e ELSE Nobody]
             /\ tokens = [t \in Tokens |->
                            IF \A s \in Tokens : t <= s
                            THEN [NoToken EXCEPT !.state = "active",
                                                 !.user = u, !.session = t]
                            ELSE NoToken]
    /\ members = {}
    /\ req = [c \in Callers |-> Idle]
    /\ forks = [t \in Tokens |-> 0]

-----------------------------------------------------------------------------
(* Through the limiter *)

Arrive(c, client, new) ==
    /\ req[c].pc = "idle"
    /\ StartCall(c, <<Classify("auth", client, Nobody, Nobody, Nobody)>>)
    /\ req' = [req EXCEPT ![c] = [new EXCEPT !.pc = "limiter"]]
    /\ UNCHANGED <<users, members, tokens, forks>>

Register(c, client, email) ==
    Arrive(c, client, [Idle EXCEPT !.kind = "register", !.email = email])

Login(c, client, email) ==
    Arrive(c, client, [Idle EXCEPT !.kind = "login", !.email = email])

Refresh(c, client, t) ==
    /\ tokens[t].state # "none"
    /\ Arrive(c, client, [Idle EXCEPT !.kind = "refresh", !.token = t,
                                      !.stale = tokens[t].state = "revoked"])

SwitchOrganization(c, client, t, tenant) ==
    /\ tokens[t].state # "none"
    /\ Arrive(c, client, [Idle EXCEPT !.kind = "switch", !.token = t,
                                      !.tenant = tenant])

FirstStep(kind) ==
    CASE kind \in {"register", "login"} -> "email"
      [] kind = "refresh" -> "select"
      [] kind = "switch" -> "user"

\* 429, or on to the handler.
Handle(c) ==
    /\ req[c].pc = "limiter"
    /\ Answer(c)
    /\ req' = [req EXCEPT ![c] = IF call[c].ok
                                 THEN [@ EXCEPT !.pc = FirstStep(req[c].kind)]
                                 ELSE Idle]
    /\ UNCHANGED <<users, members, tokens, forks>>

-----------------------------------------------------------------------------
(* The handlers *)

Continue(c, next) ==
    /\ req' = [req EXCEPT ![c] = next]
    /\ UNCHANGED <<limitVars, users, members, tokens, forks>>

\* An error response: the session closes without a commit.
Fail(c) == Continue(c, Idle)

\* get_by_email
Owners(email) == {u \in Users : users[u] = email}

\* register, and authenticate, whose password is right or not.
ReadEmail(c) ==
    /\ req[c].pc = "email"
    /\ \/ Owners(req[c].email) # {} /\ req[c].kind = "register" /\ Fail(c)
       \/ /\ Owners(req[c].email) = {} /\ req[c].kind = "register"
          /\ Continue(c, [req[c] EXCEPT !.pc = "insert"])
       \/ req[c].kind = "login" /\ Fail(c)
       \/ \E u \in Owners(req[c].email) :
             /\ req[c].kind = "login"
             /\ Continue(c, [req[c] EXCEPT !.pc = "issue", !.user = u])

\* Mutant: users.email has no unique index.
InsertUserUnchecked(c, u) ==
    /\ req[c].pc = "insert"
    /\ users[u] = Nobody /\ \A d \in Callers : req[d].user # u
    /\ Continue(c, [req[c] EXCEPT !.pc = "commit", !.user = u])

\* INSERT: it waits for an uncommitted insert of the same email, and is an
\* IntegrityError if there is a committed one.
InsertUser(c, u) ==
    /\ req[c].pc = "insert"
    /\ \A d \in Callers \ {c} :
          req[d].kind = "register" /\ req[d].pc = "commit" =>
             req[d].email # req[c].email /\ req[d].user # u
    /\ users[u] = Nobody
    /\ IF \E v \in Users : users[v] = req[c].email
       THEN Fail(c)
       ELSE Continue(c, [req[c] EXCEPT !.pc = "commit", !.user = u])

\* Mutant: get_active_by_hash finds a revoked token.
SelectAnyToken(c) ==
    LET t == tokens[req[c].token]
    IN  /\ req[c].pc = "select"
        /\ Continue(c, [req[c] EXCEPT !.pc = "revoke", !.user = t.user,
                                      !.tenant = t.tenant])

\* decode_token, get_active_by_hash, expires_at and the user, who is active.
SelectToken(c) ==
    LET t == tokens[req[c].token]
    IN  /\ req[c].pc = "select"
        /\ IF t.state = "active" /\ now <= t.issued + REFRESH_EXPIRE
           THEN Continue(c, [req[c] EXCEPT !.pc = "revoke", !.user = t.user,
                                           !.tenant = t.tenant])
           ELSE Fail(c)

\* UPDATE of the row that was read, whatever it is by now; it waits for an
\* uncommitted UPDATE of the row.
Revoke(c) ==
    /\ req[c].pc = "revoke"
    /\ \A d \in Callers \ {c} :
          ~(/\ req[d].kind = "refresh" /\ req[d].pc \in {"issue", "commit"}
            /\ req[d].token = req[c].token)
    /\ Continue(c, [req[c] EXCEPT !.pc = "issue"])

\* get_current_user of an access token that has not expired.
CheckUser(c) ==
    /\ req[c].pc = "user"
    /\ IF now <= tokens[req[c].token].issued + ACCESS_EXPIRE
       THEN Continue(c, [req[c] EXCEPT !.pc = "member",
                                       !.user = tokens[req[c].token].user])
       ELSE Fail(c)

CheckMember(c) ==
    /\ req[c].pc = "member"
    /\ IF <<req[c].user, req[c].tenant>> \in members
       THEN Continue(c, [req[c] EXCEPT !.pc = "issue"])
       ELSE Fail(c)

FreeTokens == {t \in Tokens : /\ tokens[t].state = "none"
                              /\ \A d \in Callers : req[d].row # t}

\* issue_token_pair inserts a row, its hash unique.
Issue(c, t) ==
    /\ req[c].pc = "issue"
    /\ t \in FreeTokens /\ \A s \in FreeTokens : t <= s
    /\ Continue(c, [req[c] EXCEPT !.pc = "commit", !.row = t, !.issued = now])

\* RefreshTokenRepository.create
NewToken(c) ==
    LET r == req[c]
    IN  [state |-> "active", user |-> r.user, tenant |-> r.tenant,
         issued |-> r.issued,
         session |-> IF r.kind = "refresh" THEN tokens[r.token].session ELSE r.row]

\* What the flushed statements did to refresh_tokens.
Rotated(c) ==
    LET r == req[c]
    IN  [t \in Tokens |->
            IF t = r.row THEN NewToken(c)
            ELSE IF r.kind = "refresh" /\ t = r.token
                 THEN [tokens[t] EXCEPT !.state = "revoked"]
                 ELSE tokens[t]]

\* Mutant: the request leaves its transaction open behind its answer.
CommitKeepsRequest(c) ==
    /\ req[c].pc = "commit"
    /\ tokens' = Rotated(c)
    /\ req' = [req EXCEPT ![c].pc = "answered"]
    /\ UNCHANGED <<limitVars, users, members, forks>>

\* The router commits and answers.
Commit(c) ==
    LET r == req[c]
        forked == /\ r.kind = "refresh" /\ ~r.stale
                  /\ tokens[r.token].state = "revoked"
    IN  /\ r.pc = "commit"
        /\ users' = IF r.kind = "register" THEN [users EXCEPT ![r.user] = r.email]
                                           ELSE users
        /\ tokens' = Rotated(c)
        /\ forks' = IF forked THEN [forks EXCEPT ![tokens[r.token].session] = @ + 1]
                              ELSE forks
        /\ req' = [req EXCEPT ![c] = Idle]
        /\ UNCHANGED <<limitVars, members>>

\* The process or its connection dies before the commit.
RequestDies(c) == req[c].pc \notin {"idle", "limiter"} /\ Fail(c)

LimiterDies(c) ==
    /\ CallDies(c)
    /\ req' = [req EXCEPT ![c] = Idle]
    /\ UNCHANGED <<users, members, tokens, forks>>

\* Somebody adds the user to an organization; nothing ever removes one.
AddMember(u, tenant) ==
    /\ users[u] # Nobody
    /\ <<u, tenant>> \notin members
    /\ members' = members \cup {<<u, tenant>>}
    /\ UNCHANGED <<limitVars, users, tokens, req, forks>>

-----------------------------------------------------------------------------
\* Steps of the limiter alone, the send task's throttle among them.  Requests
\* to other endpoints consume keys of their own and are left out.
LimiterNext ==
    /\ \/ \E c \in Callers :
             \/ \E keys \in ThrottleKeys : req[c].pc = "idle" /\ StartCall(c, keys)
             \/ ReadClock(c)
             \/ Incr(c)
             \/ SetExpiry(c)
             \/ req[c].pc = "idle" /\ Answer(c)
       \/ Tick
    /\ UNCHANGED sessionVars

ArriveNext ==
    \E c \in Callers, client \in Clients :
       \/ \E e \in Emails : Register(c, client, e) \/ Login(c, client, e)
       \/ \E t \in Tokens :
             \/ Refresh(c, client, t)
             \/ \E tenant \in Tenants : SwitchOrganization(c, client, t, tenant)

HandlerNext ==
    \E c \in Callers :
       \/ Handle(c)
       \/ ReadEmail(c)
       \/ \E u \in Users : InsertUser(c, u)
       \/ SelectToken(c)
       \/ Revoke(c)
       \/ CheckUser(c)
       \/ CheckMember(c)
       \/ \E t \in Tokens : Issue(c, t)
       \/ Commit(c)
       \/ RequestDies(c)
       \/ LimiterDies(c)

Next ==
    \/ LimiterNext
    \/ ArriveNext
    \/ HandlerNext
    \/ \E u \in Users, tenant \in Tenants : AddMember(u, tenant)

Spec == Init /\ [][Next]_vars

-----------------------------------------------------------------------------
(* Properties *)

\* However registrations race, an email belongs to one user: get_by_email
\* would raise for every later login otherwise.
OneUserPerEmail ==
    \A u, v \in Users : users[u] # Nobody /\ users[u] = users[v] => u = v

\* A session has one active refresh token, whichever requests fail or are
\* repeated, and one more for every two refreshes of a token that overlapped:
\* a token that was rotated before a request arrived buys nothing, and a
\* rotation never leaves a session without a token.
SessionsForkOnlyByOverlap ==
    \A s \in Tokens :
        tokens[s].state # "none" /\ tokens[s].session = s =>
           Cardinality({t \in Tokens : /\ tokens[t].session = s
                                       /\ tokens[t].state = "active"})
           = 1 + forks[s]
=============================================================================
