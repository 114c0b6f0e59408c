--------------------------- MODULE MessageAccess ---------------------------
(***************************************************************************)
(* Who may send and see messages (core/deps, modules/messaging): a request *)
(* is authenticated by a bot's API key or by an access token, then         *)
(* authorized and validated in a row of SELECTs, each of which sees what   *)
(* is committed by then (READ COMMITTED).  Meanwhile bots are registered   *)
(* and deleted and keys regenerated (BotRegistry), and other requests      *)
(* change roles, assignments, subscriptions, templates and organizations.  *)
(***************************************************************************)
EXTENDS BotRegistry

CONSTANTS
    Users,
    Dests,
    Templates,
    Bodies,    \* texts a template may have
    MaxRequests, \* bounds on the requests that are run step by step,
    MaxChanges   \* and on the changes that others commit meanwhile

ASSUME MessageAccessAssumption ==
    /\ Nobody \notin Users \cup Bodies \cup Templates
    /\ Dests \cap ({"credential", "active", "bot", "access"} \cup Bodies) = {}
    /\ MaxRequests \in Nat /\ MaxChanges \in Nat

VARIABLES
    role,       \* memberships; "admin" stands for OWNER and ADMIN
    orgs,       \* active or soft-deleted
    assigned,   \* active BotAssignments
    subscribed, \* <<bot, destination>> actively subscribed
    templates,  \* MessageTemplate rows
    messages,   \* bots that have a message
    acc,        \* the requests
    seen,       \* of each request: the conditions that have held at some time
                \* since it began
    requests,
    changes

accessVars == <<role, orgs, assigned, subscribed, templates, messages, changes>>
vars == <<registryVars, accessVars, acc, seen, requests>>

NoTemplate == [status |-> "none", tenant |-> Nobody, body |-> Nobody]

IdleAcc == [pc |-> "idle", kind |-> "none", key |-> 0, user |-> Nobody,
            tenant |-> Nobody, principal |-> 0, bot |-> 0, todo |-> {},
            template |-> Nobody, body |-> Nobody]

MessageKinds == {"create", "view"}
TemplateKinds == {"draft", "edit", "drop"}

\* A destination stands for its subscription.
Conditions == {"credential", "active", "bot", "access"} \cup Dests

TypeOK ==
    /\ RegistryTypeOK
    /\ role \in [Users \X Tenants -> {"none", "member", "admin"}]
    /\ orgs \in [Tenants -> {"active", "deleted"}]
    /\ assigned \subseteq Users \X Rows
    /\ subscribed \subseteq Rows \X Dests
    /\ templates \in [Templates -> [status : {"none", "live", "deleted"},
                                    tenant : Tenants \cup {Nobody},
                                    body : Bodies \cup {Nobody}]]
    /\ messages \subseteq Rows
    /\ acc \in [Requests ->
                  [pc : {"idle", "key", "user", "member", "org", "target",
                         "access", "assigned", "dests", "text", "template",
                         "write", "commit", "answer"},
                   kind : MessageKinds \cup TemplateKinds \cup {"none"},
                   key : ApiKeys \cup {0}, user : Users \cup {Nobody},
                   tenant : Tenants \cup {Nobody},
                   principal : Rows \cup {0}, bot : Rows \cup {0},
                   todo : SUBSET Dests, template : Templates \cup {Nobody},
                   body : Bodies \cup {Nobody}]]
    /\ seen \in [Requests -> SUBSET (Conditions \cup Bodies)]
    /\ requests \in 0..MaxRequests /\ changes \in 0..MaxChanges

\* The bot that is registered already, if any, has a message, and its
\* organization a template and members.
Init ==
    /\ RegistryInit
    /\ LET known == {r \in Rows : Live(r)}
           homes == {bots[r].tenant : r \in known}
       IN  /\ role \in {f \in [Users \X Tenants -> {"none", "member", "admin"}] :
                          \A x \in Users \X Tenants : f[x] # "none" <=> x[2] \in homes}
           /\ assigned \in SUBSET (Users \X known)
           /\ subscribed = known \X Dests
           /\ messages = known
           /\ templates \in [Templates -> {NoTemplate} \cup
                                [status : {"live"}, tenant : homes, body : Bodies]]
    /\ orgs = [t \in Tenants |-> "active"]
    /\ acc = [p \in Requests |-> IdleAcc]
    /\ seen = [p \in Requests |-> {}]
    /\ requests = 0 /\ changes = 0

-----------------------------------------------------------------------------
(* What a request has to be entitled to *)

Entitled(u, t, r) == role[<<u, t>>] = "admin" \/ <<u, r>> \in assigned

Holds(q, c) ==
    CASE c = "credential" ->
            IF q.key # 0 THEN \E r \in Rows : Live(r) /\ bots[r].key = q.key
                         ELSE role[<<q.user, q.tenant>>] # "none"
      [] c = "active" -> q.key # 0 \/ orgs[q.tenant] = "active"
      [] c = "bot" -> q.bot # 0 /\ Live(q.bot)
      [] c = "access" ->
            /\ q.bot # 0
            /\ IF q.key # 0 THEN bots[q.bot].key = q.key
               ELSE /\ bots[q.bot].tenant = q.tenant
                    /\ Entitled(q.user, q.tenant, q.bot)
      [] c \in Dests -> <<q.bot, c>> \in subscribed

\* Texts the templates have.
Texts == {templates[x].body : x \in {y \in Templates : templates[y].status = "live"}}

\* What a request needs before it is let through.
Required(q) ==
    CASE q.kind = "create" -> Conditions \cup (IF q.body = Nobody THEN {} ELSE {q.body})
      [] q.kind = "view" -> {"credential", "active", "access"}
      [] OTHER -> {"credential", "active"}

HeldNow(q) ==
    LET texts == IF q.kind = "create" THEN Texts ELSE {}
    IN  {c \in Required([q EXCEPT !.body = Nobody]) : Holds(q, c)} \cup texts

-----------------------------------------------------------------------------
(* A request *)

Go(p, next) ==
    /\ acc' = [acc EXCEPT ![p] = next]
    /\ UNCHANGED accessVars

\* An error response: the session closes without a commit.
Refuse(p) == Go(p, IdleAcc)

Move(p, pc) == Go(p, [acc[p] EXCEPT !.pc = pc])

KnownAs(p, r) ==
    Go(p, [acc[p] EXCEPT !.pc = "target", !.principal = r, !.tenant = bots[r].tenant])

\* POST /messages, GET /messages/{id} and its status, with an API key or with
\* an access token that names an organization (a token beside a key must
\* decode, and is not looked at further).
BeginMessage(p, kind, k, u, t, r) ==
    /\ kind = "view" => r \in messages
    /\ Go(p, [IdleAcc EXCEPT !.pc = "key", !.kind = kind, !.key = k, !.user = u,
                             !.tenant = t, !.bot = r,
                             !.todo = IF kind = "create" THEN Dests ELSE {}])

\* POST, PATCH, DELETE /message-templates, with an access token.
BeginTemplate(p, kind, u, t, x, body) ==
    /\ kind = "draft" <=> templates[x].status = "none"
    /\ Go(p, [IdleAcc EXCEPT !.pc = "user", !.kind = kind, !.user = u, !.tenant = t,
                             !.template = x, !.body = body])

\* get_bot_by_api_key
OwnersOf(k) == {r \in Rows : Live(r) /\ bots[r].key = k}

\* get_bot_from_api_key: without a key the access token decides, but a key
\* that is not found is an error whatever the token.
FindBotByKey(p) ==
    /\ acc[p].pc = "key"
    /\ \/ acc[p].key = 0 /\ Move(p, "user")
       \/ acc[p].key # 0 /\ OwnersOf(acc[p].key) = {} /\ Refuse(p)
       \/ acc[p].key # 0 /\ \E r \in OwnersOf(acc[p].key) : KnownAs(p, r)

\* decode_token and the user: the token may be missing or have expired.
ResolveUser(p) ==
    /\ acc[p].pc = "user"
    /\ Refuse(p) \/ (acc[p].user # Nobody /\ Move(p, "member"))

\* check_permission: the membership, whose role allows all of this ...
CheckMembership(p) ==
    /\ acc[p].pc = "member"
    /\ IF role[<<acc[p].user, acc[p].tenant>>] = "none" THEN Refuse(p) ELSE Move(p, "org")

\* ... and the organization.
CheckOrganization(p) ==
    /\ acc[p].pc = "org"
    /\ IF orgs[acc[p].tenant] = "deleted" THEN Refuse(p)
       ELSE Move(p, CASE acc[p].kind \in MessageKinds -> "target"
                      [] acc[p].kind = "draft" -> "write"
                      [] OTHER -> "template")

\* get_bot of the tenant; or the message of the tenant, whatever became of its
\* bot.
FindTarget(p) ==
    LET r == acc[p].bot
        found == /\ bots[r].tenant = acc[p].tenant
                 /\ IF acc[p].kind = "create" THEN Live(r) ELSE r \in messages
    IN  /\ acc[p].pc = "target"
        /\ IF found THEN Move(p, "access") ELSE Refuse(p)

Granted(p) == Move(p, IF acc[p].kind = "create" THEN "dests" ELSE "answer")

\* Mutant: an API key is good for every bot of its tenant.
AssertBotAccessTenantWide(p) ==
    /\ acc[p].pc = "access"
    /\ IF acc[p].principal # 0 \/ role[<<acc[p].user, acc[p].tenant>>] = "admin"
       THEN Granted(p) ELSE Move(p, "assigned")

\* _assert_bot_access: restrict_to_bot_id, then the role ...
AssertBotAccess(p) ==
    /\ acc[p].pc = "access"
    /\ \/ acc[p].principal # 0 /\ acc[p].principal = acc[p].bot /\ Granted(p)
       \/ acc[p].principal # 0 /\ acc[p].principal # acc[p].bot /\ Refuse(p)
       \/ /\ acc[p].principal = 0
          /\ IF role[<<acc[p].user, acc[p].tenant>>] = "admin"
             THEN Granted(p) ELSE Move(p, "assigned")

\* ... then is_assigned.
CheckAssigned(p) ==
    /\ acc[p].pc = "assigned"
    /\ IF <<acc[p].user, acc[p].bot>> \in assigned THEN Granted(p) ELSE Refuse(p)

\* get_destination and is_actively_subscribed: a destination is deleted along
\* with its subscriptions.
CheckDestination(p, d) ==
    /\ acc[p].pc = "dests" /\ d \in acc[p].todo
    /\ IF <<acc[p].bot, d>> \in subscribed
       THEN Go(p, [acc[p] EXCEPT !.todo = @ \ {d},
                                 !.pc = IF acc[p].todo = {d} THEN "text" ELSE "dests"])
       ELSE Refuse(p)

\* MessageTemplateRepository.get_active
LiveTemplates(t) ==
    {x \in Templates : templates[x].status = "live" /\ templates[x].tenant = t}

\* render_template_text of a template that get_message_template found.
Render(p, x) ==
    /\ x \in LiveTemplates(acc[p].tenant)
    /\ Go(p, [acc[p] EXCEPT !.pc = "commit", !.body = templates[x].body])

\* The text is the request's own or a template's; a missing template or
\* variable, or a schedule in the past, refuses the request.  Then the message
\* and its logs are inserted.
ResolveText(p) ==
    /\ acc[p].pc = "text"
    /\ \/ Refuse(p)
       \/ Move(p, "commit")
       \/ \E x \in Templates : Render(p, x)

\* get_message_template of update_ and delete_message_template.
FindTemplate(p) ==
    /\ acc[p].pc = "template"
    /\ IF acc[p].template \in LiveTemplates(acc[p].tenant)
       THEN Move(p, "write") ELSE Refuse(p)

\* INSERT of a template, or UPDATE of its body or of deleted_at: it waits for
\* an uncommitted UPDATE of the row.
WriteTemplate(p) ==
    /\ acc[p].pc = "write"
    /\ \A q \in Requests \ {p} :
          ~(acc[q].kind \in TemplateKinds /\ acc[q].pc = "commit"
            /\ acc[q].template = acc[p].template)
    /\ acc[p].kind = "draft" => templates[acc[p].template].status = "none"
    /\ Move(p, "commit")

\* Mutant: an UPDATE writes the whole row back.
SavedTemplateWhole(q) ==
    [templates EXCEPT ![q.template] =
        CASE q.kind = "drop" -> [@ EXCEPT !.status = "deleted"]
          [] OTHER -> [status |-> "live", tenant |-> q.tenant, body |-> q.body]]

SavedTemplate(q) ==
    [templates EXCEPT ![q.template] =
        CASE q.kind = "draft" -> [status |-> "live", tenant |-> q.tenant, body |-> q.body]
          [] q.kind = "edit" -> [@ EXCEPT !.body = q.body]
          [] q.kind = "drop" -> [@ EXCEPT !.status = "deleted"]]

\* The router commits and answers.
Commit(p) ==
    LET q == acc[p]
    IN  /\ q.pc = "commit"
        /\ messages' = IF q.kind = "create" THEN messages \cup {q.bot} ELSE messages
        /\ templates' = IF q.kind \in TemplateKinds THEN SavedTemplate(q) ELSE templates
        /\ acc' = [acc EXCEPT ![p] = IdleAcc]
        /\ UNCHANGED <<role, orgs, assigned, subscribed, changes>>

\* The message, or its status and logs, is shown.
Show(p) == acc[p].pc = "answer" /\ Refuse(p)

-----------------------------------------------------------------------------
(* What other requests commit meanwhile *)

Change ==
    /\ changes < MaxChanges
    /\ changes' = changes + 1
    /\ UNCHANGED <<templates, acc>>

ChangeRole(u, t, r) ==
    /\ Change
    /\ role[<<u, t>>] # "none" /\ orgs[t] = "active"
    /\ role' = [role EXCEPT ![<<u, t>>] = r]
    /\ UNCHANGED <<orgs, assigned, subscribed, messages, registryVars>>

Assign(u, r) ==
    /\ Change
    /\ Live(r) /\ role[<<u, bots[r].tenant>>] # "none"
    /\ assigned' = assigned \cup {<<u, r>>}
    /\ UNCHANGED <<role, orgs, subscribed, messages, registryVars>>

Unassign(u, r) ==
    /\ Change
    /\ Live(r)
    /\ assigned' = assigned \ {<<u, r>>}
    /\ UNCHANGED <<role, orgs, subscribed, messages, registryVars>>

\* /start, /stop, or the dashboard.
Subscribe(r, d) ==
    /\ Change
    /\ Live(r)
    /\ subscribed' = subscribed \cup {<<r, d>>}
    /\ UNCHANGED <<role, orgs, assigned, messages, registryVars>>

Unsubscribe(r, d) ==
    /\ Change
    /\ subscribed' = subscribed \ {<<r, d>>}
    /\ UNCHANGED <<role, orgs, assigned, messages, registryVars>>

\* delete_organization: its bots, assignments, memberships and those of its
\* messages that were not dispatched.
DeleteOrganization(t) ==
    LET own == {r \in Rows : bots[r].tenant = t}
    IN  /\ Change
        /\ orgs[t] = "active"
        /\ \A p \in Requests : ~(reg[p].pc = "commit" /\ reg[p].row \in own)
        /\ orgs' = [orgs EXCEPT ![t] = "deleted"]
        /\ bots' = [r \in Rows |-> IF r \in own /\ Live(r)
                                   THEN [bots[r] EXCEPT !.status = "deleted"]
                                   ELSE bots[r]]
        /\ assigned' = {x \in assigned : x[2] \notin own}
        /\ role' = [x \in Users \X Tenants |-> IF x[2] = t THEN "none" ELSE role[x]]
        /\ messages' \in {messages, messages \ own}
        /\ UNCHANGED <<subscribed, keys, webhook, stray, reg, faults>>

-----------------------------------------------------------------------------
AccessStep(p) ==
    /\ \/ FindBotByKey(p)
       \/ ResolveUser(p)
       \/ CheckMembership(p)
       \/ CheckOrganization(p)
       \/ FindTarget(p)
       \/ AssertBotAccess(p)
       \/ CheckAssigned(p)
       \/ \E d \in Dests : CheckDestination(p, d)
       \/ ResolveText(p)
       \/ FindTemplate(p)
       \/ WriteTemplate(p)
       \/ Commit(p)
       \/ Show(p)
    /\ UNCHANGED registryVars

\* Requests come with keys somebody was shown and tokens of members.
BeginAccess(p) ==
    /\ acc[p].pc = "idle" /\ reg[p].pc = "idle"
    /\ \E t \in Tenants, u \in Users :
          \/ \E kind \in MessageKinds, r \in Rows, k \in ApiKeys :
                /\ bots[r].status \in {"live", "deleted"}
                /\ keys[k] = "shown"
                /\ BeginMessage(p, kind, k, Nobody, Nobody, r)
          \/ \E kind \in MessageKinds, r \in Rows :
                /\ bots[r].status \in {"live", "deleted"}
                /\ role[<<u, t>>] # "none" /\ BeginMessage(p, kind, 0, u, t, r)
          \/ \E kind \in TemplateKinds, x \in Templates, body \in Bodies :
                role[<<u, t>>] # "none" /\ BeginTemplate(p, kind, u, t, x, body)
    /\ UNCHANGED registryVars

\* A bot is registered in an active organization.
RegistryTurn ==
    /\ RegistryNext
    /\ \A p \in Requests :
          reg'[p].pc # "idle" /\ reg[p].pc = "idle" =>
             /\ acc[p].pc = "idle"
             /\ reg'[p].kind = "register" => orgs[reg'[p].tenant] = "active"
    /\ UNCHANGED <<accessVars, acc>>

ChangeNext ==
    \/ \E u \in Users, t \in Tenants, r \in {"member", "admin"} : ChangeRole(u, t, r)
    \/ \E u \in Users, r \in Rows : Assign(u, r) \/ Unassign(u, r)
    \/ \E r \in Rows, d \in Dests : Subscribe(r, d) \/ Unsubscribe(r, d)
    \/ \E t \in Tenants : DeleteOrganization(t)

\* What has held since the request began, its last state included.
Remember ==
    seen' = [p \in Requests |->
                IF acc'[p].pc = "idle" THEN {} ELSE seen[p] \cup HeldNow(acc[p])']

Busy == {p \in Requests : acc[p].pc # "idle" \/ reg[p].pc # "idle"}

\* A request that begins counts towards MaxRequests.
Count ==
    /\ requests' = IF Busy' \subseteq Busy THEN requests ELSE requests + 1
    /\ requests' <= MaxRequests

Next ==
    /\ \/ \E p \in Requests : BeginAccess(p) \/ AccessStep(p)
       \/ RegistryTurn
       \/ ChangeNext
    /\ Remember
    /\ Count

Spec == Init /\ [][Next]_vars

-----------------------------------------------------------------------------
(* Properties *)

\* Whatever changes while its checks run, no request is let through that lacked
\* one of its rights from its beginning to its end: a key that is still good, a
\* membership, an active organization, a live bot, access to it, subscribed
\* destinations, and a text that its template had at some time meanwhile.
OnlyEntitledPass ==
    \A p \in Requests :
        acc[p].pc \in {"commit", "answer"} => Required(acc[p]) \subseteq seen[p]

\* A deleted template stays deleted, whichever edits were under way.
TemplatesStayDeleted ==
    [][\A x \in Templates :
          templates[x].status = "deleted" => templates'[x].status = "deleted"]_vars
=============================================================================
