------------------------ MODULE MessageAccessProofs ------------------------
(***************************************************************************)
(* Proofs about who may send and see messages, for any number of requests, *)
(* bots, keys, users, destinations and templates, whatever others commit   *)
(* while the checks of a request run.                                      *)
(***************************************************************************)
EXTENDS BotRegistryProofs

-----------------------------------------------------------------------------
(* The inductive invariant *)

AccType ==
    [pc : {"idle", "key", "user", "member", "org", "target", "access", "assigned",
           "dests", "text", "template", "write", "commit", "answer"},
     kind : MessageKinds \cup TemplateKinds \cup {"none"},
     key : ApiKeys \cup {0}, user : Users \cup {Nobody},
     tenant : Tenants \cup {Nobody},
     principal : Rows \cup {0}, bot : Rows \cup {0},
     todo : SUBSET Dests, template : Templates \cup {Nobody},
     body : Bodies \cup {Nobody}]

TemplateType ==
    [status : {"none", "live", "deleted"}, tenant : Tenants \cup {Nobody},
     body : Bodies \cup {Nobody}]

AccessTyped ==
    /\ role \in [Users \X Tenants -> {"none", "member", "admin"}]
    /\ orgs \in [Tenants -> {"active", "deleted"}]
    /\ assigned \subseteq Users \X Rows
    /\ subscribed \subseteq Rows \X Dests
    /\ templates \in [Templates -> TemplateType]
    /\ messages \subseteq Rows
    /\ acc \in [Requests -> AccType]
    /\ seen \in [Requests -> SUBSET (Conditions \cup Bodies)]
    /\ requests \in 0..MaxRequests /\ changes \in 0..MaxChanges

\* A request goes the way of its kind and of its credential.
WayOK(q) ==
    /\ q.kind = "none" <=> q.pc = "idle"
    /\ q.pc = "idle" => q.key = 0
    /\ q.kind \in TemplateKinds =>
          /\ q.pc \in {"user", "member", "org", "template", "write", "commit"}
          /\ q.key = 0 /\ q.tenant \in Tenants
          /\ q.template \in Templates /\ q.body \in Bodies
    /\ q.kind = "view" =>
          /\ q.pc \in {"key", "user", "member", "org", "target", "access", "assigned",
                       "answer"}
          /\ q.bot \in Rows
    /\ q.kind = "create" =>
          /\ q.pc \in {"key", "user", "member", "org", "target", "access", "assigned",
                       "dests", "text", "commit"}
          /\ q.bot \in Rows
          /\ q.pc \notin {"dests", "text", "commit"} => q.todo = Dests
    /\ q.key # 0 => q.pc \notin {"user", "member", "org", "assigned"}
    /\ q.principal # 0 <=> (q.key # 0 /\ q.pc # "key")
    /\ q.pc # "idle" /\ q.key = 0 => q.tenant \in Tenants

\* What a request has checked did hold, at some time since it began.
PassedOK(q, S) ==
    /\ q.pc \notin {"idle", "key", "user", "member"} => "credential" \in S
    /\ q.pc \notin {"idle", "key", "user", "member", "org"} => "active" \in S
    /\ q.kind = "create" /\ q.pc \in {"access", "assigned", "dests", "text", "commit"} =>
          "bot" \in S
    /\ q.pc \in {"dests", "text", "answer"} => "access" \in S
    /\ q.kind = "create" /\ q.pc = "commit" => "access" \in S
    /\ q.kind \in MessageKinds /\ q.principal # 0 /\ q.principal = q.bot => "access" \in S
    /\ q.pc = "dests" => Dests \ q.todo \subseteq S
    /\ q.kind = "create" /\ q.pc \in {"text", "commit"} => Dests \subseteq S
    /\ q.kind = "create" /\ q.body # Nobody => q.body \in S

\* The bot of a request was committed once, and is of the tenant that was found
\* for it.
BotOK(q) ==
    q.bot # 0 =>
       /\ bots[q.bot].status \in {"live", "deleted"}
       /\ q.pc \in {"access", "assigned"} => bots[q.bot].tenant = q.tenant

\* A request holds the row of a template that it has written, until it commits.
Writes(q, x) == q.kind \in TemplateKinds /\ q.pc = "commit" /\ q.template = x

\* A template that is written is written by one, and a new one is not there yet.
TemplatesOK ==
    /\ \A x \in Templates : templates[x].status = "live" => templates[x].body \in Bodies
    /\ \A p \in Requests : acc[p].kind = "draft" /\ acc[p].pc = "commit" =>
          templates[acc[p].template].status = "none"
    /\ \A p \in Requests : \A q \in Requests \ {p} : \A x \in Templates :
          ~(Writes(acc[p], x) /\ Writes(acc[q], x))

AccessInv ==
    /\ RegInv
    /\ AccessTyped
    /\ \A p \in Requests :
          /\ WayOK(acc[p]) /\ PassedOK(acc[p], seen[p]) /\ BotOK(acc[p])
          /\ acc[p].pc # "idle" => HeldNow(acc[p]) \subseteq seen[p]
    /\ TemplatesOK

LEMMA AccessTypes == RegistryTypeOK /\ AccessTyped => TypeOK
BY DEF TypeOK, AccessTyped, AccType, TemplateType

-----------------------------------------------------------------------------
(* What holds now *)

\* What a request needs besides its text.
LEMMA RequiredNow ==
    ASSUME NEW q \in AccType
    PROVE  Required([q EXCEPT !.body = Nobody]) =
               IF q.kind = "create" THEN Conditions
               ELSE IF q.kind = "view" THEN {"credential", "active", "access"}
               ELSE {"credential", "active"}
<1> DEFINE r == [q EXCEPT !.body = Nobody]
<1>1. r.kind = q.kind /\ r.body = Nobody
  BY DEF AccType
<1> HIDE DEF r
<1>2. Required(r) = IF q.kind = "create" THEN Conditions
                    ELSE IF q.kind = "view" THEN {"credential", "active", "access"}
                    ELSE {"credential", "active"}
  BY <1>1 DEF Required
<1> QED
  BY <1>2 DEF r

LEMMA HeldDef ==
    ASSUME NEW q \in AccType
    PROVE  /\ \A c \in Conditions :
                 c \in (IF q.kind = "create" THEN Conditions
                        ELSE IF q.kind = "view" THEN {"credential", "active", "access"}
                        ELSE {"credential", "active"}) /\ Holds(q, c) => c \in HeldNow(q)
           /\ q.kind = "create" => Texts \subseteq HeldNow(q)
BY RequiredNow DEF HeldNow

\* A key that is good now is a credential, and access to its own bot.
LEMMA KeyHolds ==
    ASSUME NEW q \in AccType, q.key # 0,
           NEW r \in OwnersOf(q.key)
    PROVE  /\ {"credential", "active"} \subseteq HeldNow(q)
           /\ q.kind \in MessageKinds /\ r = q.bot /\ r # 0 => "access" \in HeldNow(q)
<1>1. r \in Rows /\ Live(r) /\ bots[r].key = q.key
  BY DEF OwnersOf
<1>2. Holds(q, "credential") /\ Holds(q, "active")
  BY <1>1, MessageAccessAssumption DEF Holds
<1>3. r = q.bot /\ r # 0 => Holds(q, "access")
  BY <1>1, MessageAccessAssumption DEF Holds
<1> QED
  BY <1>2, <1>3, HeldDef DEF Conditions, MessageKinds

\* So do the rights of a member.
LEMMA TokenHolds ==
    ASSUME NEW q \in AccType, q.key = 0
    PROVE  /\ role[<<q.user, q.tenant>>] # "none" => "credential" \in HeldNow(q)
           /\ orgs[q.tenant] = "active" => "active" \in HeldNow(q)
           /\ /\ q.kind \in MessageKinds /\ q.bot # 0
              /\ bots[q.bot].tenant = q.tenant
              /\ Entitled(q.user, q.tenant, q.bot)
              => "access" \in HeldNow(q)
<1>1. role[<<q.user, q.tenant>>] # "none" => Holds(q, "credential")
  BY MessageAccessAssumption DEF Holds
<1>2. orgs[q.tenant] = "active" => Holds(q, "active")
  BY MessageAccessAssumption DEF Holds
<1>3. q.bot # 0 /\ bots[q.bot].tenant = q.tenant /\ Entitled(q.user, q.tenant, q.bot)
         => Holds(q, "access")
  BY MessageAccessAssumption DEF Holds
<1> QED
  BY <1>1, <1>2, <1>3, HeldDef DEF Conditions, MessageKinds

\* And the bot and the destinations of a message.
LEMMA TargetsHold ==
    ASSUME NEW q \in AccType, q.kind = "create", q.bot # 0
    PROVE  /\ Live(q.bot) => "bot" \in HeldNow(q)
           /\ \A d \in Dests : <<q.bot, d>> \in subscribed => d \in HeldNow(q)
           /\ Texts \subseteq HeldNow(q)
<1>1. Live(q.bot) => Holds(q, "bot")
  BY MessageAccessAssumption DEF Holds
<1>2. \A d \in Dests : <<q.bot, d>> \in subscribed => Holds(q, d)
  BY MessageAccessAssumption DEF Holds
<1> QED
  BY <1>1, <1>2, HeldDef DEF Conditions

-----------------------------------------------------------------------------
(* The frame of a step *)

\* What a request remembers grows, by what holds in the state reached.
LEMMA Remembers ==
    ASSUME Remember, seen \in [Requests -> SUBSET (Conditions \cup Bodies)],
           acc' \in [Requests -> AccType],
           \A x \in Templates : templates'[x].status = "live" => templates'[x].body \in Bodies
    PROVE  /\ seen' \in [Requests -> SUBSET (Conditions \cup Bodies)]
           /\ \A q \in Requests : acc'[q].pc # "idle" =>
                 seen[q] \subseteq seen'[q] /\ HeldNow(acc[q])' \subseteq seen'[q]
<1>1. seen' = [q \in Requests |->
                 IF acc'[q].pc = "idle" THEN {} ELSE seen[q] \cup HeldNow(acc[q])']
  BY DEF Remember
<1>2. ASSUME NEW q \in Requests PROVE HeldNow(acc[q])' \subseteq Conditions \cup Bodies
  <2>1. Required([acc'[q] EXCEPT !.body = Nobody]) \subseteq Conditions
    BY RequiredNow DEF Conditions
  <2>2. Texts' \subseteq Bodies
    BY DEF Texts
  <2> QED
    BY <2>1, <2>2 DEF HeldNow
<1> QED
  BY <1>1, <1>2

LEMMA PassedGrows ==
    ASSUME NEW q, NEW S, NEW T, S \subseteq T, PassedOK(q, S)
    PROVE  PassedOK(q, T)
BY DEF PassedOK

\* Counting keeps the bound.
LEMMA Counts ==
    ASSUME Count, requests \in 0..MaxRequests
    PROVE  requests' \in 0..MaxRequests
BY MessageAccessAssumption DEF Count

\* Rows that were committed stay, with their tenant.
LEMMA RowsSettled ==
    ASSUME RegInv, [Next]_vars, NEW r \in Rows, bots[r].status \in {"live", "deleted"}
    PROVE  bots'[r].status \in {"live", "deleted"} /\ bots'[r].tenant = bots[r].tenant
<1>1. /\ bots \in [Rows -> BotType] /\ reg \in [Requests -> RegType]
      /\ \A p \in Requests : ReqOK(reg[p])
      /\ \A p \in Requests : Pending(reg[p]) =>
            reg[p].row \in Rows /\ bots[reg[p].row].status = "none"
  BY RegistryTyped DEF RegInv, PendingOK, Pending, RegType
<1>2. ASSUME UNCHANGED bots
      PROVE  bots'[r].status \in {"live", "deleted"} /\ bots'[r].tenant = bots[r].tenant
  BY <1>2
<1>3. ASSUME NEW p \in Requests
      PROVE  RolledBack(p)[r] = bots[r] /\ RolledBack(p) \in [Rows -> BotType]
  <2>1. CASE Pending(reg[p])
    <3>1. RolledBack(p) = [bots EXCEPT ![reg[p].row].status = "lost"]
      BY <2>1 DEF RolledBack, Pending
    <3>2. [bots[reg[p].row] EXCEPT !.status = "lost"] \in BotType
      BY <1>1, <2>1 DEF BotType
    <3> QED
      BY <1>1, <2>1, <3>1, <3>2
  <2>2. CASE ~Pending(reg[p])
    BY <1>1, <2>2 DEF RolledBack, Pending
  <2> QED
    BY <2>1, <2>2
<1>4. ASSUME NEW p \in Requests, BeginRegistry(p) \/ RegistryStep(p)
      PROVE  bots'[r].status \in {"live", "deleted"} /\ bots'[r].tenant = bots[r].tenant
  <2>1. CASE Fail(p) \/ RegistryDies(p)
    BY <1>3, <2>1 DEF Fail, RegistryDies
  <2>2. CASE SetWebhookTimesOut(p)
    <3>1. Pending(reg[p])
      BY <1>1, <2>2 DEF SetWebhookTimesOut, ReqOK, Pending, RegType
    <3>2. r # reg[p].row
      BY <1>1, <3>1
    <3>3. bots' = [RolledBack(p) EXCEPT ![reg[p].row].tg = reg[p].tg]
      BY <2>2 DEF SetWebhookTimesOut
    <3> QED
      BY <1>3, <3>2, <3>3
  <2>3. CASE RegistryCommit(p)
    <3>1. bots' = Written(p) /\ reg[p].pc = "commit"
      BY <2>3 DEF RegistryCommit
    <3>2. reg[p].kind \in {"register", "regenerate", "delete"} /\ reg[p].row \in Rows
      BY <1>1, <3>1 DEF ReqOK, RegType
    <3>3. CASE r # reg[p].row
      BY <1>1, <3>1, <3>2, <3>3 DEF Written
    <3>4. CASE r = reg[p].row
      <4>1. reg[p].kind # "register"
        BY <1>1, <3>1, <3>4 DEF ReqOK, Pending
      <4>2. bots[r] \in BotType
        BY <1>1
      <4>3. \/ bots'[r] = [bots[r] EXCEPT !.key = reg[p].key]
            \/ bots'[r] = [bots[r] EXCEPT !.status = "deleted"]
        BY <1>1, <3>1, <3>2, <3>4, <4>1 DEF Written
      <4> QED
        BY <4>2, <4>3 DEF BotType
    <3> QED
      BY <3>3, <3>4
  <2>4. CASE UNCHANGED bots
    BY <1>2, <2>4
  <2>5. \/ Fail(p) \/ RegistryDies(p) \/ SetWebhookTimesOut(p) \/ RegistryCommit(p)
        \/ UNCHANGED bots
    BY <1>4
    DEF BeginRegistry, RegisterBot, ChangeBot, Continue, RegistryStep, GetMe,
        CheckRegistered, InsertBot, Inserted, SetWebhook, GetBot, WriteKey, WriteDeletion
  <2> QED
    BY <2>1, <2>2, <2>3, <2>4, <2>5
<1>5. ASSUME NEW t \in Tenants, DeleteOrganization(t)
      PROVE  bots'[r].status \in {"live", "deleted"} /\ bots'[r].tenant = bots[r].tenant
  <2>1. bots[r] \in BotType
    BY <1>1
  <2>2. bots'[r] = bots[r] \/ bots'[r] = [bots[r] EXCEPT !.status = "deleted"]
    BY <1>5 DEF DeleteOrganization
  <2> QED
    BY <2>1, <2>2 DEF BotType
<1> QED
  BY <1>2, <1>4, <1>5
  DEF Next, BeginAccess, AccessStep, registryVars, RegistryTurn, RegistryNext, StrayLands,
      ChangeNext, ChangeRole, Assign, Unassign, Subscribe, Unsubscribe, vars

\* A request that ends remembers nothing, and one that goes on no less.
LEMMA FrameInv ==
    ASSUME AccessInv, RegInv', Remember, Count, TemplatesOK',
           role' \in [Users \X Tenants -> {"none", "member", "admin"}],
           orgs' \in [Tenants -> {"active", "deleted"}],
           assigned' \subseteq Users \X Rows, subscribed' \subseteq Rows \X Dests,
           templates' \in [Templates -> TemplateType], messages' \subseteq Rows,
           acc' \in [Requests -> AccType], changes' \in 0..MaxChanges,
           \A q \in Requests :
              /\ WayOK(acc'[q]) /\ BotOK(acc[q])'
              /\ acc'[q].pc # "idle" => PassedOK(acc'[q], seen[q])
    PROVE  AccessInv'
<1>1. /\ seen' \in [Requests -> SUBSET (Conditions \cup Bodies)]
      /\ \A q \in Requests : acc'[q].pc # "idle" =>
            seen[q] \subseteq seen'[q] /\ HeldNow(acc[q])' \subseteq seen'[q]
  BY Remembers DEF AccessInv, AccessTyped, TemplatesOK
<1>2. requests' \in 0..MaxRequests
  BY Counts DEF AccessInv, AccessTyped
<1>3. AccessTyped'
  BY <1>1, <1>2 DEF AccessTyped
<1>4. ASSUME NEW q \in Requests PROVE PassedOK(acc'[q], seen'[q])
  <2>1. CASE acc'[q].pc = "idle"
    <3>1. acc'[q].kind = "none"
      BY <2>1 DEF WayOK
    <3>2. acc'[q].principal = 0
      BY <2>1, <3>1 DEF WayOK
    <3> QED
      BY <2>1, <3>1 DEF PassedOK, MessageKinds
  <2>2. CASE acc'[q].pc # "idle"
    BY <1>1, <2>2, PassedGrows
  <2> QED
    BY <2>1, <2>2
<1> QED
  BY <1>1, <1>3, <1>4 DEF AccessInv

\* A step of a request that changes nothing else.
LEMMA GoInv ==
    ASSUME AccessInv, RegInv', Remember, Count, UNCHANGED registryVars,
           NEW p \in Requests, NEW next \in AccType, Go(p, next),
           WayOK(next), BotOK(next), next.pc # "idle" => PassedOK(next, seen[p]),
           next.pc = "commit" /\ next.kind \in TemplateKinds =>
              /\ \A q \in Requests \ {p} : ~Writes(acc[q], next.template)
              /\ next.kind = "draft" => templates[next.template].status = "none"
    PROVE  AccessInv'
<1>1. /\ acc' = [acc EXCEPT ![p] = next] /\ UNCHANGED accessVars /\ UNCHANGED bots
      /\ acc \in [Requests -> AccType]
  BY DEF Go, AccessInv, AccessTyped, registryVars
<1>2. \A q \in Requests : acc'[q] = IF q = p THEN next ELSE acc[q]
  BY <1>1
<1>3. acc' \in [Requests -> AccType]
  BY <1>1
<1>4. \A q \in Requests :
         /\ WayOK(acc'[q])
         /\ acc'[q].pc # "idle" => PassedOK(acc'[q], seen[q])
  BY <1>2 DEF AccessInv
<1>5. ASSUME NEW q \in Requests PROVE BotOK(acc[q])'
  BY <1>1, <1>2 DEF AccessInv, BotOK
<1>6. TemplatesOK'
  <2>1. ASSUME NEW q \in Requests, acc'[q].kind = "draft", acc'[q].pc = "commit"
        PROVE  templates[acc'[q].template].status = "none"
    <3>1. CASE q = p
      BY <1>2, <2>1, <3>1 DEF TemplateKinds
    <3>2. CASE q # p
      BY <1>2, <2>1, <3>2 DEF AccessInv, TemplatesOK
    <3> QED
      BY <3>1, <3>2
  <2>2. ASSUME NEW q \in Requests, NEW r \in Requests \ {q}, NEW x \in Templates,
               Writes(acc'[q], x), Writes(acc'[r], x)
        PROVE  FALSE
    <3>1. CASE q = p
      BY <1>2, <2>2, <3>1 DEF Writes
    <3>2. CASE r = p
      BY <1>2, <2>2, <3>2 DEF Writes
    <3>3. CASE q # p /\ r # p
      BY <1>2, <2>2, <3>3 DEF AccessInv, TemplatesOK
    <3> QED
      BY <3>1, <3>2, <3>3
  <2>3. \A x \in Templates : templates'[x].status = "live" => templates'[x].body \in Bodies
    BY <1>1 DEF AccessInv, TemplatesOK, accessVars
  <2> QED
    BY <1>1, <2>1, <2>2, <2>3 DEF TemplatesOK, accessVars, Writes
<1> QED
  BY <1>1, <1>3, <1>4, <1>5, <1>6, FrameInv DEF AccessInv, AccessTyped, accessVars

LEMMA IdleFits ==
    IdleAcc \in AccType /\ IdleAcc.pc = "idle" /\ WayOK(IdleAcc) /\ BotOK(IdleAcc)
BY DEF IdleAcc, AccType, WayOK, BotOK, MessageKinds, TemplateKinds

LEMMA RefuseInv ==
    ASSUME AccessInv, RegInv', Remember, Count, UNCHANGED registryVars,
           NEW p \in Requests, Refuse(p)
    PROVE  AccessInv'
BY GoInv, IdleFits DEF Refuse

\* What others do that leaves requests and templates alone.
LEMMA OthersInv ==
    ASSUME AccessInv, RegInv', [Next]_vars, Remember, Count, UNCHANGED <<acc, templates>>,
           role' \in [Users \X Tenants -> {"none", "member", "admin"}],
           orgs' \in [Tenants -> {"active", "deleted"}],
           assigned' \subseteq Users \X Rows, subscribed' \subseteq Rows \X Dests,
           messages' \subseteq Rows, changes' \in 0..MaxChanges
    PROVE  AccessInv'
<1>1. acc \in [Requests -> AccType] /\ templates \in [Templates -> TemplateType]
  BY DEF AccessInv, AccessTyped
<1>2. TemplatesOK'
  BY DEF AccessInv, TemplatesOK, Writes
<1>3. ASSUME NEW q \in Requests PROVE BotOK(acc[q])'
  <2>1. BotOK(acc[q]) /\ acc[q].bot \in Rows \cup {0}
    BY <1>1 DEF AccessInv, AccType
  <2> QED
    BY <2>1, RowsSettled DEF AccessInv, BotOK
<1>4. \A q \in Requests : WayOK(acc'[q]) /\ PassedOK(acc'[q], seen[q])
  BY DEF AccessInv
<1> QED
  BY <1>1, <1>2, <1>3, <1>4, FrameInv

-----------------------------------------------------------------------------
(* The steps of a request *)

\* What is known of a request that is under way.
LEMMA OfAcc ==
    ASSUME AccessInv, NEW p \in Requests
    PROVE  /\ acc[p] \in AccType /\ WayOK(acc[p]) /\ BotOK(acc[p])
           /\ PassedOK(acc[p], seen[p])
           /\ acc[p].pc # "idle" => HeldNow(acc[p]) \subseteq seen[p]
BY DEF AccessInv, AccessTyped

\* On to the next check.
LEMMA MoveInv ==
    ASSUME AccessInv, RegInv', Remember, Count, UNCHANGED registryVars,
           NEW p \in Requests,
           NEW pc \in {"user", "member", "org", "target", "access", "assigned", "dests",
                       "text", "template", "commit", "answer", "write"},
           Move(p, pc), acc[p].pc # "idle",
           WayOK([acc[p] EXCEPT !.pc = pc]),
           pc \in {"access", "assigned"} => bots[acc[p].bot].tenant = acc[p].tenant,
           PassedOK([acc[p] EXCEPT !.pc = pc], seen[p]),
           pc = "commit" /\ acc[p].kind \in TemplateKinds =>
              /\ \A q \in Requests \ {p} : ~Writes(acc[q], acc[p].template)
              /\ acc[p].kind = "draft" => templates[acc[p].template].status = "none"
    PROVE  AccessInv'
<1> DEFINE next == [acc[p] EXCEPT !.pc = pc]
<1>1. acc[p] \in AccType /\ BotOK(acc[p])
  BY OfAcc
<1>2. /\ next \in AccType /\ next.pc = pc /\ next.bot = acc[p].bot
      /\ next.kind = acc[p].kind /\ next.template = acc[p].template
      /\ next.tenant = acc[p].tenant
  BY <1>1 DEF AccType
<1>3. Go(p, next) /\ WayOK(next) /\ PassedOK(next, seen[p])
  BY DEF Move
<1> HIDE DEF next
<1>4. BotOK(next)
  BY <1>1, <1>2 DEF BotOK
<1> QED
  BY <1>2, <1>3, <1>4, GoInv

\* The key is that of a live bot, or the token decides.
LEMMA FindBotByKeyInv ==
    ASSUME AccessInv, RegInv', Remember, Count, UNCHANGED registryVars,
           NEW p \in Requests, FindBotByKey(p)
    PROVE  AccessInv'
<1> DEFINE q == acc[p]
<1>1. /\ q \in AccType /\ WayOK(q) /\ BotOK(q) /\ PassedOK(q, seen[p])
      /\ q.pc = "key" /\ HeldNow(q) \subseteq seen[p]
  BY OfAcc DEF FindBotByKey
<1>2. CASE q.key = 0 /\ Move(p, "user")
  <2> DEFINE next == [q EXCEPT !.pc = "user"]
  <2>1. q.tenant \in Tenants
    BY <1>1, <1>2 DEF WayOK
  <2> QED
    BY <1>1, <1>2, <2>1, MoveInv DEF AccType, WayOK, PassedOK, MessageKinds, TemplateKinds
<1>3. ASSUME NEW r \in OwnersOf(q.key), q.key # 0, KnownAs(p, r)
      PROVE  AccessInv'
  <2> DEFINE next == [q EXCEPT !.pc = "target", !.principal = r,
                               !.tenant = bots[r].tenant]
  <2>1. r \in Rows /\ r # 0 /\ bots[r].tenant \in Tenants \cup {Nobody}
    BY BotRegistryAssumption, RegistryTyped DEF OwnersOf, AccessInv, RegInv, BotType
  <2>2. /\ next \in AccType /\ next.pc = "target" /\ next.principal = r
        /\ next.key = q.key /\ next.kind = q.kind /\ next.bot = q.bot
        /\ next.body = q.body /\ next.todo = q.todo
    <3> HIDE DEF q
    <3>1. next \in AccType
      BY <1>1, <2>1 DEF AccType
    <3>2. /\ next.pc = "target" /\ next.principal = r
          /\ next.key = q.key /\ next.kind = q.kind /\ next.bot = q.bot
          /\ next.body = q.body /\ next.todo = q.todo
      BY <1>1 DEF AccType
    <3> QED
      BY <3>1, <3>2
  <2>3. /\ {"credential", "active"} \subseteq seen[p]
        /\ q.kind \in MessageKinds /\ r = q.bot => "access" \in seen[p]
    BY <1>1, <1>3, <2>1, KeyHolds
  <2>4. Go(p, next)
    BY <1>3 DEF KnownAs
  <2> HIDE DEF next
  <2>5. WayOK(next)
    BY <1>1, <1>3, <2>1, <2>2 DEF WayOK, MessageKinds, TemplateKinds
  <2>6. BotOK(next) /\ PassedOK(next, seen[p])
    BY <1>1, <2>2, <2>3 DEF BotOK, PassedOK
  <2> QED
    BY <2>2, <2>4, <2>5, <2>6, GoInv
<1> QED
  BY <1>2, <1>3, RefuseInv DEF FindBotByKey

LEMMA ResolveUserInv ==
    ASSUME AccessInv, RegInv', Remember, Count, UNCHANGED registryVars,
           NEW p \in Requests, ResolveUser(p)
    PROVE  AccessInv'
<1> DEFINE q == acc[p]
<1>1. /\ q \in AccType /\ WayOK(q) /\ BotOK(q) /\ PassedOK(q, seen[p])
      /\ q.pc = "user"
  BY OfAcc DEF ResolveUser
<1>2. CASE Move(p, "member")
  BY <1>1, <1>2, MoveInv DEF AccType, WayOK, PassedOK, MessageKinds, TemplateKinds
<1> QED
  BY <1>2, RefuseInv DEF ResolveUser

LEMMA CheckMembershipInv ==
    ASSUME AccessInv, RegInv', Remember, Count, UNCHANGED registryVars,
           NEW p \in Requests, CheckMembership(p)
    PROVE  AccessInv'
<1> DEFINE q == acc[p]
<1>1. /\ q \in AccType /\ WayOK(q) /\ BotOK(q) /\ PassedOK(q, seen[p])
      /\ q.pc = "member" /\ HeldNow(q) \subseteq seen[p]
  BY OfAcc DEF CheckMembership
<1>2. CASE Move(p, "org") /\ role[<<q.user, q.tenant>>] # "none"
  <2>1. "credential" \in seen[p]
    BY <1>1, <1>2, TokenHolds DEF WayOK
  <2> QED
    BY <1>1, <1>2, <2>1, MoveInv DEF AccType, WayOK, PassedOK, MessageKinds, TemplateKinds
<1> QED
  BY <1>2, RefuseInv DEF CheckMembership

LEMMA CheckOrganizationInv ==
    ASSUME AccessInv, RegInv', Remember, Count, UNCHANGED registryVars,
           NEW p \in Requests, CheckOrganization(p)
    PROVE  AccessInv'
<1> DEFINE q == acc[p]
<1>1. /\ q \in AccType /\ WayOK(q) /\ BotOK(q) /\ PassedOK(q, seen[p])
      /\ q.pc = "org" /\ HeldNow(q) \subseteq seen[p]
  BY OfAcc DEF CheckOrganization
<1>2. ASSUME NEW pc \in {"target", "write", "template"}, Move(p, pc),
             orgs[q.tenant] # "deleted",
             IF q.kind \in MessageKinds THEN pc = "target" ELSE pc \in {"write", "template"}
      PROVE  AccessInv'
  <2>1. q.key = 0 /\ q.tenant \in Tenants
    BY <1>1 DEF WayOK
  <2>2. orgs[q.tenant] = "active"
    BY <1>2, <2>1 DEF AccessInv, AccessTyped
  <2>3. "active" \in seen[p]
    BY <1>1, <2>1, <2>2, TokenHolds
  <2> QED
    BY <1>1, <1>2, <2>3, MoveInv DEF AccType, WayOK, PassedOK, MessageKinds, TemplateKinds
<1>3. CASE Refuse(p)
  BY <1>3, RefuseInv
<1> QED
  BY <1>1, <1>2, <1>3 DEF CheckOrganization, MessageKinds, TemplateKinds

LEMMA FindTargetInv ==
    ASSUME AccessInv, RegInv', Remember, Count, UNCHANGED registryVars,
           NEW p \in Requests, FindTarget(p)
    PROVE  AccessInv'
<1> DEFINE q == acc[p]
<1>1. /\ q \in AccType /\ WayOK(q) /\ BotOK(q) /\ PassedOK(q, seen[p])
      /\ q.pc = "target" /\ HeldNow(q) \subseteq seen[p]
  BY OfAcc DEF FindTarget
<1>2. CASE Move(p, "access") /\ bots[q.bot].tenant = q.tenant
           /\ (q.kind = "create" => Live(q.bot))
  <2>1. q.bot # 0 /\ q.kind \in MessageKinds
    BY <1>1, BotRegistryAssumption DEF WayOK, AccType, TemplateKinds, MessageKinds
  <2>2. q.kind = "create" => "bot" \in seen[p]
    BY <1>1, <1>2, <2>1, TargetsHold
  <2> QED
    BY <1>1, <1>2, <2>1, <2>2, MoveInv, ZenonT(40)
    DEF AccType, WayOK, PassedOK, MessageKinds, TemplateKinds
<1> QED
  BY <1>2, RefuseInv DEF FindTarget

\* Access to the bot was granted.
LEMMA GrantedInv ==
    ASSUME AccessInv, RegInv', Remember, Count, UNCHANGED registryVars,
           NEW p \in Requests, acc[p].pc \in {"access", "assigned"}, Granted(p),
           "access" \in seen[p]
    PROVE  AccessInv'
<1> DEFINE q == acc[p]
<1>1. q \in AccType /\ WayOK(q) /\ BotOK(q) /\ PassedOK(q, seen[p])
  BY OfAcc
<1>2. q.kind \in MessageKinds
  BY <1>1 DEF WayOK, AccType, TemplateKinds, MessageKinds
<1>3. CASE q.kind = "create"
  <2>1. Move(p, "dests")
    BY <1>3 DEF Granted
  <2>2. q.todo = Dests
    BY <1>1, <1>3 DEF WayOK
  <2> QED
    BY <1>1, <1>3, <2>1, <2>2, MoveInv
    DEF AccType, WayOK, PassedOK, MessageKinds, TemplateKinds
<1>4. CASE q.kind = "view"
  <2>1. Move(p, "answer")
    BY <1>4 DEF Granted
  <2> QED
    BY <1>1, <1>4, <2>1, MoveInv DEF AccType, WayOK, PassedOK, MessageKinds, TemplateKinds
<1> QED
  BY <1>2, <1>3, <1>4 DEF MessageKinds

\* A key gives access to its own bot, an admin's role to those of the tenant.
LEMMA AssertBotAccessInv ==
    ASSUME AccessInv, RegInv', Remember, Count, UNCHANGED registryVars,
           NEW p \in Requests, AssertBotAccess(p)
    PROVE  AccessInv'
<1> DEFINE q == acc[p]
<1>1. /\ q \in AccType /\ WayOK(q) /\ BotOK(q) /\ PassedOK(q, seen[p])
      /\ q.pc = "access" /\ HeldNow(q) \subseteq seen[p]
  BY OfAcc DEF AssertBotAccess
<1>2. q.kind \in MessageKinds /\ q.bot # 0
  BY <1>1, BotRegistryAssumption DEF WayOK, AccType, TemplateKinds, MessageKinds
<1>3. CASE q.principal # 0 /\ q.principal = q.bot /\ Granted(p)
  <2>1. "access" \in seen[p]
    BY <1>1, <1>2, <1>3 DEF PassedOK
  <2> QED
    BY <1>1, <1>3, <2>1, GrantedInv
<1>4. CASE q.principal = 0 /\ role[<<q.user, q.tenant>>] = "admin" /\ Granted(p)
  <2>1. q.key = 0 /\ bots[q.bot].tenant = q.tenant
    BY <1>1, <1>2, <1>4 DEF WayOK, BotOK
  <2>2. "access" \in seen[p]
    BY <1>1, <1>2, <1>4, <2>1, TokenHolds DEF Entitled
  <2> QED
    BY <1>1, <1>4, <2>2, GrantedInv
<1>5. CASE q.principal = 0 /\ Move(p, "assigned")
  <2>1. q.key = 0 /\ bots[q.bot].tenant = q.tenant
    BY <1>1, <1>2, <1>5 DEF WayOK, BotOK
  <2> QED
    BY <1>1, <1>2, <1>5, <2>1, MoveInv
    DEF AccType, WayOK, PassedOK, MessageKinds, TemplateKinds
<1>6. CASE Refuse(p)
  BY <1>6, RefuseInv
<1> QED
  BY <1>3, <1>4, <1>5, <1>6 DEF AssertBotAccess

LEMMA CheckAssignedInv ==
    ASSUME AccessInv, RegInv', Remember, Count, UNCHANGED registryVars,
           NEW p \in Requests, CheckAssigned(p)
    PROVE  AccessInv'
<1> DEFINE q == acc[p]
<1>1. /\ q \in AccType /\ WayOK(q) /\ BotOK(q)
      /\ q.pc = "assigned" /\ HeldNow(q) \subseteq seen[p]
  BY OfAcc DEF CheckAssigned
<1>2. CASE <<q.user, q.bot>> \in assigned /\ Granted(p)
  <2>1. q.kind \in MessageKinds /\ q.bot # 0
    BY <1>1, BotRegistryAssumption DEF WayOK, AccType, TemplateKinds, MessageKinds
  <2>2. q.key = 0 /\ bots[q.bot].tenant = q.tenant
    BY <1>1, <2>1 DEF WayOK, BotOK
  <2>3. "access" \in seen[p]
    BY <1>1, <1>2, <2>1, <2>2, TokenHolds DEF Entitled
  <2> QED
    BY <1>1, <1>2, <2>3, GrantedInv
<1> QED
  BY <1>2, RefuseInv DEF CheckAssigned

\* One destination less to check.
LEMMA CheckDestinationInv ==
    ASSUME AccessInv, RegInv', Remember, Count, UNCHANGED registryVars,
           NEW p \in Requests, NEW d \in Dests, CheckDestination(p, d)
    PROVE  AccessInv'
<1> DEFINE q == acc[p]
           next == [q EXCEPT !.todo = @ \ {d},
                             !.pc = IF q.todo = {d} THEN "text" ELSE "dests"]
<1>1. /\ q \in AccType /\ WayOK(q) /\ BotOK(q) /\ PassedOK(q, seen[p])
      /\ q.pc = "dests" /\ HeldNow(q) \subseteq seen[p]
  BY OfAcc DEF CheckDestination
<1>2. CASE <<q.bot, d>> \in subscribed /\ Go(p, next)
  <2>1. q.kind = "create" /\ q.bot # 0
    BY <1>1, BotRegistryAssumption DEF WayOK, AccType, TemplateKinds, MessageKinds
  <2>2. d \in seen[p]
    BY <1>1, <1>2, <2>1, TargetsHold
  <2> DEFINE left == q.todo \ {d}
             pc == IF q.todo = {d} THEN "text" ELSE "dests"
  <2>3. /\ left \in SUBSET Dests /\ pc \in {"text", "dests"}
        /\ pc = "text" => q.todo = {d}
        /\ next = [q EXCEPT !.todo = left, !.pc = pc]
    BY <1>1 DEF AccType
  <2> HIDE DEF next, pc
  <2> HIDE DEF left
  <2>4. /\ next \in AccType /\ next.pc \in {"text", "dests"} /\ next.todo = q.todo \ {d}
        /\ next.pc = "text" => q.todo = {d}
        /\ next.kind = q.kind /\ next.key = q.key /\ next.principal = q.principal
        /\ next.bot = q.bot /\ next.tenant = q.tenant /\ next.body = q.body
    <3>1. /\ next \in AccType /\ next.pc = pc /\ next.todo = left
          /\ next.kind = q.kind /\ next.key = q.key /\ next.principal = q.principal
          /\ next.bot = q.bot /\ next.tenant = q.tenant /\ next.body = q.body
      BY <1>1, <2>3 DEF AccType
    <3> QED
      BY <2>3, <3>1 DEF left
  <2>5. WayOK(next)
    BY <1>1, <2>1, <2>4 DEF WayOK, TemplateKinds
  <2>6. Dests \ next.todo \subseteq seen[p]
    BY <1>1, <2>2, <2>4 DEF PassedOK
  <2>7. PassedOK(next, seen[p]) /\ BotOK(next)
    BY <1>1, <2>1, <2>4, <2>6 DEF PassedOK, BotOK
  <2> QED
    BY <1>2, <2>4, <2>5, <2>7, GoInv
<1> QED
  BY <1>1, <1>2, RefuseInv DEF CheckDestination

\* The text is the request's own, or that of a template which is there now.
LEMMA ResolveTextInv ==
    ASSUME AccessInv, RegInv', Remember, Count, UNCHANGED registryVars,
           NEW p \in Requests, ResolveText(p)
    PROVE  AccessInv'
<1> DEFINE q == acc[p]
<1>1. /\ q \in AccType /\ WayOK(q) /\ BotOK(q) /\ PassedOK(q, seen[p])
      /\ q.pc = "text" /\ HeldNow(q) \subseteq seen[p]
  BY OfAcc DEF ResolveText
<1>2. q.kind = "create" /\ q.bot # 0
  BY <1>1, BotRegistryAssumption DEF WayOK, AccType, TemplateKinds, MessageKinds
<1>3. CASE Move(p, "commit")
  BY <1>1, <1>2, <1>3, MoveInv DEF AccType, WayOK, PassedOK, MessageKinds, TemplateKinds
<1>4. ASSUME NEW x \in Templates, Render(p, x) PROVE AccessInv'
  <2> DEFINE next == [q EXCEPT !.pc = "commit", !.body = templates[x].body]
  <2>1. templates[x].body \in Texts /\ templates[x].body \in Bodies
    BY <1>4 DEF Render, LiveTemplates, Texts, AccessInv, TemplatesOK
  <2>2. templates[x].body \in seen[p]
    BY <1>1, <1>2, <2>1, TargetsHold
  <2>3. /\ next \in AccType /\ next.pc = "commit" /\ next.body = templates[x].body
        /\ next.kind = q.kind /\ next.key = q.key /\ next.principal = q.principal
        /\ next.bot = q.bot /\ next.tenant = q.tenant
    <3> HIDE DEF q
    <3>1. next \in AccType
      BY <1>1, <2>1 DEF AccType
    <3>2. /\ next.pc = "commit" /\ next.body = templates[x].body
          /\ next.kind = q.kind /\ next.key = q.key /\ next.principal = q.principal
          /\ next.bot = q.bot /\ next.tenant = q.tenant
      BY <1>1 DEF AccType
    <3> QED
      BY <3>1, <3>2
  <2>4. Go(p, next)
    BY <1>4 DEF Render
  <2> HIDE DEF next
  <2>5. WayOK(next) /\ PassedOK(next, seen[p]) /\ BotOK(next)
    BY <1>1, <1>2, <2>2, <2>3 DEF WayOK, PassedOK, BotOK, TemplateKinds
  <2> QED
    BY <1>2, <2>3, <2>4, <2>5, GoInv DEF TemplateKinds
<1> QED
  BY <1>3, <1>4, RefuseInv DEF ResolveText

LEMMA FindTemplateInv ==
    ASSUME AccessInv, RegInv', Remember, Count, UNCHANGED registryVars,
           NEW p \in Requests, FindTemplate(p)
    PROVE  AccessInv'
<1> DEFINE q == acc[p]
<1>1. /\ q \in AccType /\ WayOK(q) /\ BotOK(q) /\ PassedOK(q, seen[p])
      /\ q.pc = "template"
  BY OfAcc DEF FindTemplate
<1>2. CASE Move(p, "write")
  BY <1>1, <1>2, MoveInv DEF AccType, WayOK, PassedOK, MessageKinds, TemplateKinds
<1> QED
  BY <1>2, RefuseInv DEF FindTemplate

\* A template is written under the lock of its row.
LEMMA WriteTemplateInv ==
    ASSUME AccessInv, RegInv', Remember, Count, UNCHANGED registryVars,
           NEW p \in Requests, WriteTemplate(p)
    PROVE  AccessInv'
<1> DEFINE q == acc[p]
<1>1. /\ q \in AccType /\ WayOK(q) /\ BotOK(q) /\ PassedOK(q, seen[p])
      /\ q.pc = "write" /\ Move(p, "commit")
  BY OfAcc DEF WriteTemplate
<1>2. /\ \A r \in Requests \ {p} : ~Writes(acc[r], q.template)
      /\ q.kind = "draft" => templates[q.template].status = "none"
  BY DEF WriteTemplate, Writes
<1>3. q.kind \in TemplateKinds
  BY <1>1 DEF WayOK, AccType, TemplateKinds, MessageKinds
<1>4. WayOK([q EXCEPT !.pc = "commit"]) /\ PassedOK([q EXCEPT !.pc = "commit"], seen[p])
  BY <1>1, <1>3 DEF AccType, WayOK, PassedOK, MessageKinds, TemplateKinds
<1> QED
  BY <1>1, <1>2, <1>4, MoveInv

LEMMA ShowInv ==
    ASSUME AccessInv, RegInv', Remember, Count, UNCHANGED registryVars,
           NEW p \in Requests, Show(p)
    PROVE  AccessInv'
BY RefuseInv DEF Show

\* A message is inserted, or a template written.
LEMMA AccessCommitInv ==
    ASSUME AccessInv, RegInv', Remember, Count, UNCHANGED registryVars,
           NEW p \in Requests, Commit(p)
    PROVE  AccessInv'
<1> DEFINE q == acc[p]
<1>1. /\ q \in AccType /\ WayOK(q) /\ q.pc = "commit"
      /\ acc' = [acc EXCEPT ![p] = IdleAcc]
      /\ messages' = IF q.kind = "create" THEN messages \cup {q.bot} ELSE messages
      /\ templates' = IF q.kind \in TemplateKinds THEN SavedTemplate(q) ELSE templates
      /\ UNCHANGED <<role, orgs, assigned, subscribed, changes, bots>>
  BY OfAcc DEF Commit, registryVars
<1>2. acc \in [Requests -> AccType] /\ templates \in [Templates -> TemplateType]
  BY DEF AccessInv, AccessTyped
<1>3. \A r \in Requests : acc'[r] = IF r = p THEN IdleAcc ELSE acc[r]
  BY <1>1, <1>2
<1>4. acc' \in [Requests -> AccType] /\ messages' \subseteq Rows
  BY <1>1, <1>2, IdleFits DEF AccessInv, AccessTyped, WayOK, TemplateKinds
<1>5. \A r \in Requests :
         /\ WayOK(acc'[r])
         /\ acc'[r].pc # "idle" => PassedOK(acc'[r], seen[r])
  BY <1>3, IdleFits DEF AccessInv
<1>6. ASSUME NEW r \in Requests PROVE BotOK(acc[r])'
  BY <1>1, <1>3, IdleFits DEF AccessInv, BotOK
<1>7. /\ templates' \in [Templates -> TemplateType]
      /\ \A x \in Templates :
            /\ templates'[x].status = "live" => templates'[x].body \in Bodies
            /\ ~Writes(q, x) => templates'[x] = templates[x]
  <2>1. CASE q.kind \notin TemplateKinds
    BY <1>1, <1>2, <2>1 DEF AccessInv, TemplatesOK
  <2>2. CASE q.kind \in TemplateKinds
    <3> DEFINE old == templates[q.template]
               new == CASE q.kind = "draft" ->
                              [status |-> "live", tenant |-> q.tenant, body |-> q.body]
                        [] q.kind = "edit" -> [old EXCEPT !.body = q.body]
                        [] q.kind = "drop" -> [old EXCEPT !.status = "deleted"]
    <3>1. q.template \in Templates /\ q.body \in Bodies /\ q.tenant \in Tenants
      BY <1>1, <2>2 DEF WayOK
    <3>2. old \in TemplateType
      BY <1>2, <3>1
    <3>3. new \in TemplateType /\ (new.status = "live" => new.body \in Bodies)
      BY <2>2, <3>1, <3>2 DEF TemplateType, TemplateKinds
    <3>4. templates' = [templates EXCEPT ![q.template] = new]
      BY <1>1, <2>2 DEF SavedTemplate
    <3> HIDE DEF new
    <3>5. \A x \in Templates : templates'[x] = IF x = q.template THEN new ELSE templates[x]
      BY <1>2, <3>4
    <3> QED
      BY <1>1, <1>2, <2>2, <3>1, <3>3, <3>4, <3>5
      DEF AccessInv, TemplatesOK, Writes
  <2> QED
    BY <2>1, <2>2
<1>8. TemplatesOK'
  <2>1. ASSUME NEW r \in Requests, acc'[r].kind = "draft", acc'[r].pc = "commit"
        PROVE  templates'[acc'[r].template].status = "none"
    <3>1. r # p /\ acc'[r] = acc[r]
      BY <1>3, <2>1, IdleFits
    <3>2. acc[r].template \in Templates /\ templates[acc[r].template].status = "none"
      BY <2>1, <3>1, OfAcc DEF AccessInv, TemplatesOK, WayOK, TemplateKinds
    <3>3. Writes(acc[r], acc[r].template)
      BY <2>1, <3>1 DEF Writes, TemplateKinds
    <3>4. ~Writes(q, acc[r].template)
      BY <3>1, <3>2, <3>3 DEF AccessInv, TemplatesOK
    <3> QED
      BY <1>7, <3>1, <3>2, <3>4
  <2>2. \A r \in Requests : \A u \in Requests \ {r} : \A x \in Templates :
           ~(Writes(acc'[r], x) /\ Writes(acc'[u], x))
    BY <1>3, IdleFits DEF AccessInv, TemplatesOK, Writes
  <2> QED
    BY <1>7, <2>1, <2>2 DEF TemplatesOK, Writes
<1> QED
  BY <1>1, <1>4, <1>5, <1>6, <1>7, <1>8, FrameInv DEF AccessInv, AccessTyped

\* A request begins with nothing checked.
LEMMA BeginAccessInv ==
    ASSUME AccessInv, RegInv', Remember, Count, NEW p \in Requests, BeginAccess(p)
    PROVE  AccessInv'
<1>1. UNCHANGED registryVars /\ Nobody \notin Bodies
  BY MessageAccessAssumption DEF BeginAccess
<1>2. ASSUME NEW kind \in MessageKinds, NEW k \in ApiKeys \cup {0},
             NEW u \in Users \cup {Nobody}, NEW t \in Tenants \cup {Nobody},
             NEW r \in Rows, bots[r].status \in {"live", "deleted"},
             k = 0 => t \in Tenants,
             BeginMessage(p, kind, k, u, t, r)
      PROVE  AccessInv'
  <2> DEFINE todo == IF kind = "create" THEN Dests ELSE {}
             next == [IdleAcc EXCEPT !.pc = "key", !.kind = kind, !.key = k, !.user = u,
                                     !.tenant = t, !.bot = r, !.todo = todo]
  <2>1. todo \in SUBSET Dests
    OBVIOUS
  <2> HIDE DEF todo
  <2>2. /\ next \in AccType /\ next.pc = "key" /\ next.kind = kind /\ next.key = k
        /\ next.tenant = t /\ next.bot = r /\ next.todo = todo /\ next.principal = 0
        /\ next.body = Nobody
    BY <2>1 DEF AccType, IdleAcc
  <2>3. Go(p, next)
    BY <1>2 DEF BeginMessage, todo
  <2> HIDE DEF next
  <2>4. WayOK(next) /\ PassedOK(next, seen[p]) /\ BotOK(next)
    BY <1>2, <2>2 DEF WayOK, PassedOK, BotOK, MessageKinds, TemplateKinds, todo
  <2> QED
    BY <1>1, <2>2, <2>3, <2>4, GoInv
<1>3. ASSUME NEW kind \in TemplateKinds, NEW u \in Users, NEW t \in Tenants,
             NEW x \in Templates, NEW body \in Bodies,
             BeginTemplate(p, kind, u, t, x, body)
      PROVE  AccessInv'
  <2> DEFINE next == [IdleAcc EXCEPT !.pc = "user", !.kind = kind, !.user = u,
                                     !.tenant = t, !.template = x, !.body = body]
  <2>1. /\ next \in AccType /\ next.pc = "user" /\ next.kind = kind /\ next.key = 0
        /\ next.tenant = t /\ next.bot = 0 /\ next.principal = 0
        /\ next.template = x /\ next.body = body
    BY DEF AccType, IdleAcc
  <2>2. Go(p, next)
    BY <1>3 DEF BeginTemplate
  <2> HIDE DEF next
  <2>3. WayOK(next) /\ PassedOK(next, seen[p]) /\ BotOK(next)
    BY <2>1 DEF WayOK, PassedOK, BotOK, MessageKinds, TemplateKinds
  <2> QED
    BY <1>1, <2>1, <2>2, <2>3, GoInv
<1>4. 0 \notin ApiKeys
  BY BotRegistryAssumption
<1>5. \E t \in Tenants, u \in Users :
          \/ \E kind \in MessageKinds, r \in Rows, k \in ApiKeys :
                /\ bots[r].status \in {"live", "deleted"}
                /\ keys[k] = "shown"
                /\ BeginMessage(p, kind, k, Nobody, Nobody, r)
          \/ \E kind \in MessageKinds, r \in Rows :
                /\ bots[r].status \in {"live", "deleted"}
                /\ role[<<u, t>>] # "none" /\ BeginMessage(p, kind, 0, u, t, r)
          \/ \E kind \in TemplateKinds, x \in Templates, body \in Bodies :
                role[<<u, t>>] # "none" /\ BeginTemplate(p, kind, u, t, x, body)
  BY DEF BeginAccess
<1> QED
  BY <1>2, <1>3, <1>4, <1>5

\* What others change keeps its type.
LEMMA ChangeInv ==
    ASSUME AccessInv, RegInv', [Next]_vars, Remember, Count, ChangeNext
    PROVE  AccessInv'
<1>1. /\ role \in [Users \X Tenants -> {"none", "member", "admin"}]
      /\ orgs \in [Tenants -> {"active", "deleted"}]
      /\ assigned \subseteq Users \X Rows /\ subscribed \subseteq Rows \X Dests
      /\ messages \subseteq Rows /\ changes \in 0..MaxChanges
  BY DEF AccessInv, AccessTyped
<1>2. ASSUME Change PROVE UNCHANGED <<acc, templates>> /\ changes' \in 0..MaxChanges
  BY <1>1, <1>2, MessageAccessAssumption DEF Change
<1>3. ASSUME NEW u \in Users, NEW t \in Tenants, NEW r \in {"member", "admin"},
             ChangeRole(u, t, r)
      PROVE  AccessInv'
  BY <1>1, <1>2, <1>3, OthersInv DEF ChangeRole
<1>4. ASSUME NEW u \in Users, NEW r \in Rows, Assign(u, r) \/ Unassign(u, r)
      PROVE  AccessInv'
  BY <1>1, <1>2, <1>4, OthersInv DEF Assign, Unassign
<1>5. ASSUME NEW r \in Rows, NEW d \in Dests, Subscribe(r, d) \/ Unsubscribe(r, d)
      PROVE  AccessInv'
  BY <1>1, <1>2, <1>5, OthersInv DEF Subscribe, Unsubscribe
<1>6. ASSUME NEW t \in Tenants, DeleteOrganization(t) PROVE AccessInv'
  BY <1>1, <1>2, <1>6, OthersInv DEF DeleteOrganization
<1> QED
  BY <1>3, <1>4, <1>5, <1>6 DEF ChangeNext

LEMMA AccessInit == Init => AccessInv
<1> SUFFICES ASSUME Init PROVE AccessInv
  OBVIOUS
<1> DEFINE known == {r \in Rows : Live(r)}
           homes == {bots[r].tenant : r \in known}
<1>1. RegInv
  BY RegistryInitInv DEF Init
<1>2. homes \subseteq Tenants \cup {Nobody}
  BY <1>1, RegistryTyped DEF RegInv, BotType
<1>3. /\ role \in [Users \X Tenants -> {"none", "member", "admin"}]
      /\ assigned \subseteq Users \X Rows
      /\ subscribed \subseteq Rows \X Dests /\ messages \subseteq Rows
      /\ templates \in [Templates -> {NoTemplate} \cup
                           [status : {"live"}, tenant : homes, body : Bodies]]
  BY DEF Init
<1> HIDE DEF homes
<1>4. /\ templates \in [Templates -> TemplateType]
      /\ \A x \in Templates : templates[x].status = "live" => templates[x].body \in Bodies
  BY <1>2, <1>3 DEF NoTemplate, TemplateType
<1>5. /\ orgs = [t \in Tenants |-> "active"] /\ acc = [p \in Requests |-> IdleAcc]
      /\ seen = [p \in Requests |-> {}] /\ requests = 0 /\ changes = 0
  BY DEF Init
<1>6. AccessTyped
  BY <1>3, <1>4, <1>5, IdleFits, MessageAccessAssumption DEF AccessTyped
<1>7. \A p \in Requests : /\ WayOK(acc[p]) /\ PassedOK(acc[p], seen[p]) /\ BotOK(acc[p])
                          /\ acc[p].pc = "idle"
  BY <1>5, IdleFits DEF IdleAcc, PassedOK, MessageKinds
<1>8. TemplatesOK
  BY <1>4, <1>7 DEF TemplatesOK, Writes
<1> QED
  BY <1>1, <1>6, <1>7, <1>8 DEF AccessInv

LEMMA AccessNext == AccessInv /\ [Next]_vars => AccessInv'
<1> SUFFICES ASSUME AccessInv, [Next]_vars PROVE AccessInv'
  OBVIOUS
<1>1. RegInv'
  BY AccessNextInv DEF AccessInv
<1>2. CASE UNCHANGED vars
  <2>1. UNCHANGED <<registryVars, accessVars, acc, seen, requests>>
    BY <1>2 DEF vars
  <2>2. AccessTyped' /\ TemplatesOK'
    BY <2>1 DEF accessVars, AccessInv, AccessTyped, TemplatesOK, Writes
  <2>3. \A p \in Requests : /\ WayOK(acc'[p]) /\ PassedOK(acc'[p], seen'[p])
                            /\ BotOK(acc[p])'
    BY <2>1 DEF registryVars, AccessInv, BotOK
  <2>4. ASSUME NEW p \in Requests PROVE HeldNow(acc[p])' = HeldNow(acc[p])
    <3>1. \A c : Holds(acc[p], c)' = Holds(acc[p], c)
      BY <2>1, ZenonT(30) DEF registryVars, accessVars, Holds, Live, Entitled
    <3>2. Texts' = Texts
      BY <2>1 DEF accessVars, Texts
    <3> QED
      BY <2>1, <3>1, <3>2 DEF HeldNow
  <2> QED
    BY <1>1, <2>1, <2>2, <2>3, <2>4 DEF AccessInv
<1>3. CASE Next
  <2>1. Remember /\ Count
    BY <1>3 DEF Next
  <2>2. ASSUME NEW p \in Requests, BeginAccess(p) PROVE AccessInv'
    BY <1>1, <2>1, <2>2, BeginAccessInv
  <2>3. ASSUME NEW p \in Requests, AccessStep(p) PROVE AccessInv'
    <3>1. UNCHANGED registryVars
      BY <2>3 DEF AccessStep
    <3> QED
      BY <1>1, <2>1, <2>3, <3>1, FindBotByKeyInv, ResolveUserInv, CheckMembershipInv,
         CheckOrganizationInv, FindTargetInv, AssertBotAccessInv, CheckAssignedInv,
         CheckDestinationInv, ResolveTextInv, FindTemplateInv, WriteTemplateInv,
         AccessCommitInv, ShowInv DEF AccessStep
  <2>4. CASE RegistryTurn
    BY <1>1, <1>3, <2>1, <2>4, OthersInv
    DEF RegistryTurn, accessVars, AccessInv, AccessTyped
  <2>5. CASE ChangeNext
    BY <1>1, <2>1, <2>5, ChangeInv
  <2> QED
    BY <1>3, <2>2, <2>3, <2>4, <2>5 DEF Next
<1> QED
  BY <1>2, <1>3

-----------------------------------------------------------------------------
\* What a request has checked did hold at some time since it began, whatever
\* others committed between its checks.
THEOREM AccessInvariant == Spec => []AccessInv
BY AccessInit, AccessNext, PTL DEF Spec

\* No request is let through that lacked one of its rights from its beginning
\* to its end (get_bot_from_api_key, check_permission, create_message).
THEOREM OnlyTheEntitledPass == Spec => []OnlyEntitledPass
<1>1. ASSUME AccessInv, NEW p \in Requests, acc[p].pc \in {"commit", "answer"}
      PROVE  Required(acc[p]) \subseteq seen[p]
  BY <1>1, OfAcc
  DEF WayOK, PassedOK, Required, Conditions, MessageKinds, TemplateKinds, AccType
<1>2. AccessInv => OnlyEntitledPass
  BY <1>1 DEF OnlyEntitledPass
<1> QED
  BY <1>2, AccessInvariant, PTL

\* Requests and rows have the shape that the handlers of bots, messages and
\* templates give them.
THEOREM AccessIsTyped == Spec => []TypeOK
<1>1. AccessInv => TypeOK
  BY AccessTypes DEF AccessInv, RegInv
<1> QED
  BY <1>1, AccessInvariant, PTL

\* A deleted template stays deleted, whichever edits were under way
\* (update_message_template, delete_message_template).
THEOREM DeletedTemplatesStay == Spec => TemplatesStayDeleted
<1>1. ASSUME AccessInv, [Next]_vars
      PROVE  [\A x \in Templates :
                 templates[x].status = "deleted" => templates'[x].status = "deleted"]_vars
  <2> SUFFICES ASSUME Next, NEW x \in Templates, templates[x].status = "deleted"
               PROVE  templates'[x].status = "deleted"
    BY <1>1
  <2>1. CASE UNCHANGED templates
    BY <2>1
  <2>2. ASSUME NEW p \in Requests, Commit(p) PROVE templates'[x].status = "deleted"
    <3> DEFINE q == acc[p]
    <3>1. /\ q.pc = "commit" /\ WayOK(q)
          /\ templates' = IF q.kind \in TemplateKinds THEN SavedTemplate(q) ELSE templates
      BY <1>1, <2>2, OfAcc DEF Commit
    <3>2. /\ templates \in [Templates -> TemplateType] /\ templates[x] \in TemplateType
          /\ q.kind = "draft" => q.template # x
      BY <1>1, <3>1 DEF AccessInv, AccessTyped, TemplatesOK
    <3>3. CASE q.kind \in TemplateKinds /\ q.template = x
      <4>1. \/ templates'[x] = [templates[x] EXCEPT !.body = q.body]
            \/ templates'[x] = [templates[x] EXCEPT !.status = "deleted"]
        BY <3>1, <3>2, <3>3 DEF SavedTemplate, TemplateKinds
      <4> QED
        BY <3>2, <4>1 DEF TemplateType
    <3>4. CASE ~(q.kind \in TemplateKinds /\ q.template = x)
      BY <3>1, <3>2, <3>4 DEF SavedTemplate
    <3> QED
      BY <3>3, <3>4
  <2>3. ASSUME NEW p \in Requests, NEW next, Go(p, next) PROVE UNCHANGED templates
    BY <2>3 DEF Go, accessVars
  <2>4. ASSUME NEW p \in Requests, BeginAccess(p) PROVE UNCHANGED templates
    BY <2>3, <2>4 DEF BeginAccess, BeginMessage, BeginTemplate
  <2>5. ASSUME NEW p \in Requests, AccessStep(p), ~Commit(p) PROVE UNCHANGED templates
    <3>1. \/ FindBotByKey(p) \/ ResolveUser(p) \/ CheckMembership(p)
          \/ CheckOrganization(p) \/ FindTarget(p) \/ AssertBotAccess(p)
          \/ CheckAssigned(p) \/ (\E d \in Dests : CheckDestination(p, d))
          \/ ResolveText(p) \/ FindTemplate(p) \/ WriteTemplate(p) \/ Show(p)
      BY <2>5 DEF AccessStep
    <3> QED
      BY <2>3, <3>1
      DEF Refuse, Move, KnownAs, FindBotByKey, ResolveUser, CheckMembership,
          CheckOrganization, FindTarget, Granted, AssertBotAccess, CheckAssigned,
          CheckDestination, Render, ResolveText, FindTemplate, WriteTemplate, Show
  <2>6. CASE RegistryTurn \/ ChangeNext
    BY <2>6
    DEF RegistryTurn, ChangeNext, ChangeRole, Assign, Unassign, Subscribe, Unsubscribe,
        DeleteOrganization, Change, accessVars
  <2> QED
    BY <2>1, <2>2, <2>4, <2>5, <2>6 DEF Next
<1> QED
  BY <1>1, AccessInvariant, PTL DEF Spec, TemplatesStayDeleted
=============================================================================
