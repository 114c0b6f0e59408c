------------------------------ MODULE Tenancy ------------------------------
(***************************************************************************)
(* One organization with its members, bots, bot assignments and refresh    *)
(* tokens (modules/organizations, modules/bots, modules/auth), and what    *)
(* DELETE /organizations/{id} does to them while other requests run.       *)
(*                                                                         *)
(* The rows are one function, db, from row keys to values.  A request is a *)
(* READ COMMITTED transaction: each action is one statement (or a check    *)
(* whose statements nothing can come between with another result), its     *)
(* flushed writes lock their rows and are applied when the router commits. *)
(***************************************************************************)
EXTENDS Naturals, FiniteSets

CONSTANTS
    Users, Bots,
    Tokens,     \* refresh tokens alive or in use at once (bound)
    Requests    \* concurrent API requests

ASSUME TenancyAssumption == {"none", "deleted"} \cap Users = {}

Roles == {"owner", "admin", "member"}

OrgKey == <<"org">>
RoleKey(u) == <<"role", u>>
BotKey(b) == <<"bot", b>>
AssignKey(b, u) == <<"assign", b, u>>
TokenKey(t) == <<"token", t>>

RoleKeys == {RoleKey(u) : u \in Users}
BotKeys == {BotKey(b) : b \in Bots}
AssignKeys == {AssignKey(b, u) : b \in Bots, u \in Users}
TokenKeys == {TokenKey(t) : t \in Tokens}
Keys == {OrgKey} \cup RoleKeys \cup BotKeys \cup AssignKeys \cup TokenKeys

\* A soft-deleted assignment is as good as none, and so is a revoked refresh
\* token; a live one (its tenant_id is the organization) names its user.
Value(k) ==
    CASE k = OrgKey -> {"none", "live", "deleted"}
      [] k \in RoleKeys -> Roles \cup {"none"}
      [] k \in BotKeys -> {"none", "live", "deleted"}
      [] k \in AssignKeys -> {"none", "live"}
      [] k \in TokenKeys -> {"none"} \cup Users

VARIABLES
    db,     \* the committed rows
    tx,     \* the requests
    races   \* roles: role changes overlapped, and no owner has come since;
            \* missed: rows, no tokens, committed too late for a deletion to find
            \* them; door: a membership or a token was

vars == <<db, tx, races>>

NoWrites == [k \in {} |-> "none"]

Kinds == {"addMember", "setRole", "deleteOrg", "registerBot", "deleteBot",
          "assign", "unassign", "switch", "refresh"}

\* user, role, bot, token: what the request is about; late: the organization was
\* deleted while it was open; raced: it changes a role, and so did another request
\* that was open at the same time.
Idle == [pc |-> "idle", kind |-> "none", user |-> "none", role |-> "none",
         bot |-> "none", token |-> "none", writes |-> NoWrites,
         late |-> FALSE, raced |-> FALSE]

PCs == {"idle", "load", "count", "write", "issue", "assignments",
        "bots", "tokens", "members", "org", "commit"}

TypeOK ==
    /\ \A k \in Keys : db[k] \in Value(k)
    /\ \A p \in Requests :
          /\ tx[p].pc \in PCs
          /\ tx[p].kind \in Kinds \cup {"none"}
          /\ tx[p].pc = "idle" => tx[p] = Idle
          /\ \A k \in DOMAIN tx[p].writes :
                k \in Keys /\ tx[p].writes[k] \in Value(k)
    /\ races \in [roles : BOOLEAN, missed : SUBSET Keys, door : BOOLEAN]

\* After create_organization by one of the users.
Init ==
    /\ \E u \in Users :
          db = [k \in Keys |-> CASE k = OrgKey -> "live"
                                 [] k = RoleKey(u) -> "owner"
                                 [] OTHER -> "none"]
    /\ tx = [p \in Requests |-> Idle]
    /\ races = [roles |-> FALSE, missed |-> {}, door |-> FALSE]

-----------------------------------------------------------------------------
(* Transactions *)

Role(u) == db[RoleKey(u)]

\* A row is locked by the flushed, uncommitted write of another request.
Locked(p, k) == \E q \in Requests \ {p} : k \in DOMAIN tx[q].writes

Put(w, S, v) == [k \in DOMAIN w \cup S |-> IF k \in S THEN v ELSE w[k]]

Move(p, pc) ==
    /\ tx' = [tx EXCEPT ![p].pc = pc]
    /\ UNCHANGED <<db, races>>

\* Flush one value into a set of rows, none of which another request holds.
\* A request that only has to commit forgets what it was about.
Flush(p, S, v, pc) ==
    LET kept == IF pc = "commit" THEN [Idle EXCEPT !.kind = tx[p].kind,
                                                   !.late = tx[p].late,
                                                   !.raced = tx[p].raced]
                                 ELSE tx[p]
    IN  /\ \A k \in S : ~Locked(p, k)
        /\ tx' = [tx EXCEPT ![p] =
                    [kept EXCEPT !.pc = pc,
                                 !.writes = Put(tx[p].writes, S, v)]]
        /\ UNCHANGED <<db, races>>

\* An exception handler answers; the session closes without a commit.  Nothing was
\* missed by a deletion that does not happen.
Fail(p) ==
    /\ tx' = [tx EXCEPT ![p] = Idle]
    /\ races' = IF db[OrgKey] = "live" /\ \A q \in Requests : tx'[q].kind # "deleteOrg"
                THEN [races EXCEPT !.missed = {}, !.door = FALSE]
                ELSE races
    /\ UNCHANGED db

\* The tables that a deletion of the organization is through with.
Swept(pc) ==
    CASE pc = "bots" -> AssignKeys
      [] pc = "tokens" -> AssignKeys \cup BotKeys
      [] pc = "members" -> AssignKeys \cup BotKeys \cup TokenKeys
      [] pc \in {"org", "commit"} -> AssignKeys \cup BotKeys \cup TokenKeys \cup RoleKeys
      [] OTHER -> {}

\* What p writes to k no deletion finds: the organization was deleted meanwhile, or
\* a deletion under way is through with the table.
Missed(p, k) ==
    /\ tx[p].kind # "deleteOrg"
    /\ \/ tx[p].late
       \/ \E q \in Requests : tx[q].kind = "deleteOrg" /\ k \in Swept(tx[q].pc)

Late(p) == {k \in DOMAIN tx[p].writes : Missed(p, k)}

\* Mutant: the next request inherits the session and what it flushed.
CommitKeepsSession(p) ==
    /\ tx[p].pc = "commit"
    /\ tx' = [tx EXCEPT ![p].pc = "idle"]
    /\ UNCHANGED <<db, races>>

Commit(p) ==
    /\ tx[p].pc = "commit"
    /\ db' = [k \in Keys |-> IF k \in DOMAIN tx[p].writes
                             THEN tx[p].writes[k] ELSE db[k]]
    /\ tx' = [q \in Requests |->
                IF q = p \/ tx[q].kind = "none" THEN Idle
                ELSE [tx[q] EXCEPT !.late = @ \/ tx[p].kind = "deleteOrg"]]
    /\ races' = [roles |-> /\ races.roles \/ tx[p].raced
                           /\ \A u \in Users : db'[RoleKey(u)] # "owner",
                 missed |-> {k \in (races.missed \cup Late(p)) \ TokenKeys :
                                db'[k] \notin {"none", "deleted"}},
                 door |-> races.door \/ Late(p) \cap (RoleKeys \cup TokenKeys) # {}]

\* The process or its connection dies, or Telegram refuses setWebhook: the
\* transaction is rolled back.
RequestDies(p) == tx[p].pc # "idle" /\ Fail(p)

-----------------------------------------------------------------------------
(* Authorization *)

\* ROLE_PERMISSIONS
HasPermission(role, permission) ==
    role \in CASE permission = "organization:delete" -> {"owner"}
               [] permission = "organization:manage_members" -> {"owner", "admin"}
               [] permission = "bot:manage" -> {"owner", "admin"}

\* Mutant: nothing checks that the organization is active.
AuthorizedByRole(actor, permission) == HasPermission(Role(actor), permission)

\* check_permission behind require_permission, _assert_can_manage_members, and
\* the checks of delete_organization: the organization is active, the actor a
\* member with the permission.  A refused request does nothing.
Authorized(actor, permission) ==
    /\ db[OrgKey] = "live"
    /\ Role(actor) # "none"
    /\ HasPermission(Role(actor), permission)

Opens(kind) == \E q \in Requests : tx[q].kind = kind

Begin(p, kind, pc, request) ==
    /\ tx[p].pc = "idle"
    /\ tx' = [q \in Requests |->
                IF q = p
                THEN [request EXCEPT !.kind = kind, !.pc = pc,
                                     !.raced = kind = "setRole" /\ Opens(kind)]
                ELSE [tx[q] EXCEPT !.raced = @ \/ {kind, tx[q].kind} = {"setRole"}]]
    /\ UNCHANGED <<db, races>>

\* A request begins with the check of its actor's permission.
BeginAs(p, permission, kind, pc, request) ==
    /\ \E actor \in Users : Authorized(actor, permission)
    /\ Begin(p, kind, pc, request)

BeginMembers(p) ==
    \E user \in Users, role \in Roles :
        LET request == [Idle EXCEPT !.user = user, !.role = role]
            permission == "organization:manage_members"
        IN  \/ BeginAs(p, permission, "addMember", "write", request)
            \/ BeginAs(p, permission, "setRole", "load", request)

BeginBots(p) ==
    \E bot \in Bots :
        LET request == [Idle EXCEPT !.bot = bot] IN
        \/ BeginAs(p, "bot:manage", "registerBot", "write", request)
        \/ BeginAs(p, "bot:manage", "deleteBot", "load", request)

BeginAssignments(p) ==
    \E user \in Users, bot \in Bots, kind \in {"assign", "unassign"} :
        BeginAs(p, "bot:manage", kind, "load",
                [Idle EXCEPT !.user = user, !.bot = bot])

BeginDelete(p) == BeginAs(p, "organization:delete", "deleteOrg", "assignments", Idle)

\* switch_organization asks only for a membership ...
BeginSwitch(p) ==
    \E user \in Users :
        /\ Role(user) # "none"
        /\ Begin(p, "switch", "issue", [Idle EXCEPT !.user = user])

\* ... and refresh only for a token that get_active_by_hash finds.
BeginRefresh(p) ==
    \E token \in Tokens :
        LET user == db[TokenKey(token)] IN
        /\ user \in Users
        /\ Begin(p, "refresh", "write",
                 [Idle EXCEPT !.token = token, !.user = user])

-----------------------------------------------------------------------------
(* Members *)

\* add_member: memberships.get, then the INSERT; MembershipAlreadyExistsError
\* or the unique constraint refuses a row that exists.
InsertMember(p) ==
    LET k == RoleKey(tx[p].user) IN
    /\ tx[p].pc = "write" /\ tx[p].kind = "addMember"
    /\ \/ db[k] = "none" /\ Flush(p, {k}, tx[p].role, "commit")
       \/ db[k] # "none" /\ ~Locked(p, k) /\ Fail(p)

\* update_member_role: the membership, the count of owners for a demotion ...
LoadMember(p) ==
    LET role == Role(tx[p].user)
        pc == IF role = "owner" /\ tx[p].role # "owner" THEN "count"
              ELSE IF role # tx[p].role THEN "write" ELSE "commit"
    IN  /\ tx[p].pc = "load" /\ tx[p].kind = "setRole"
        /\ IF role = "none" THEN Fail(p) ELSE Move(p, pc)

\* count_owners: the row that update_member_role holds counts as it was loaded, an
\* owner; the identity map is weak and keeps no other (the actor's is let go with
\* _assert_can_manage_members).
Owners(p) == {u \in Users : Role(u) = "owner"} \cup
             ({tx[p].user} \cap {u \in Users : Role(u) # "none"})

\* Mutant: the last owner is one too few.
CountOwnersOffByOne(p) ==
    /\ tx[p].pc = "count"
    /\ IF Cardinality(Owners(p)) < 1 THEN Fail(p) ELSE Move(p, "write")

\* ... without a lock: LastOwnerError if there is at most one ...
CountOwners(p) ==
    /\ tx[p].pc = "count"
    /\ IF Cardinality(Owners(p)) <= 1 THEN Fail(p) ELSE Move(p, "write")

\* ... and the UPDATE; StaleDataError if the row was deleted meanwhile.
UpdateRole(p) ==
    LET k == RoleKey(tx[p].user) IN
    /\ tx[p].pc = "write" /\ tx[p].kind = "setRole"
    /\ \/ db[k] # "none" /\ Flush(p, {k}, tx[p].role, "commit")
       \/ db[k] = "none" /\ ~Locked(p, k) /\ Fail(p)

-----------------------------------------------------------------------------
(* Bots and assignments *)

\* register_bot: inserted, then setWebhook at Telegram, then the commit; a
\* failing setWebhook rolls back.
InsertBot(p) ==
    LET k == BotKey(tx[p].bot) IN
    /\ tx[p].pc = "write" /\ tx[p].kind = "registerBot"
    /\ \/ db[k] = "none" /\ Flush(p, {k}, "live", "commit")
       \/ db[k] # "none" /\ ~Locked(p, k) /\ Fail(p)

\* The bot of delete_bot, assign_bot and unassign_bot must be active.
BotLoaded(p, kind) ==
    /\ tx[p].pc = "load" /\ tx[p].kind = kind
    /\ db[BotKey(tx[p].bot)] = "live"

BotMissing(p) ==
    /\ tx[p].pc = "load" /\ tx[p].kind \in {"deleteBot", "assign", "unassign"}
    /\ db[BotKey(tx[p].bot)] # "live"
    /\ Fail(p)

\* delete_bot does not cascade to the assignments.
DeleteBot(p) ==
    /\ BotLoaded(p, "deleteBot")
    /\ Flush(p, {BotKey(tx[p].bot)}, "deleted", "commit")

\* Mutant: assign_bot does not ask for a membership.
CheckNoAssignee(p) ==
    /\ BotLoaded(p, "assign")
    /\ Move(p, "write")

\* assign_bot: the user must be a member ...
CheckAssignee(p) ==
    /\ BotLoaded(p, "assign")
    /\ IF Role(tx[p].user) = "none" THEN Fail(p) ELSE Move(p, "write")

\* ... and have no active assignment; a soft-deleted row is reactivated.
WriteAssignment(p) ==
    LET k == AssignKey(tx[p].bot, tx[p].user) IN
    /\ tx[p].pc = "write" /\ tx[p].kind = "assign"
    /\ \/ db[k] # "live" /\ Flush(p, {k}, "live", "commit")
       \/ db[k] = "live" /\ ~Locked(p, k) /\ Fail(p)

Unassign(p) ==
    LET k == AssignKey(tx[p].bot, tx[p].user) IN
    /\ BotLoaded(p, "unassign")
    /\ IF db[k] = "live" THEN Flush(p, {k}, "none", "commit") ELSE Fail(p)

-----------------------------------------------------------------------------
(* Refresh tokens *)

\* refresh: revoke, an UPDATE by primary key that asks nothing ...
RevokeToken(p) ==
    /\ tx[p].pc = "write" /\ tx[p].kind = "refresh"
    /\ Flush(p, {TokenKey(tx[p].token)}, "none", "issue")

\* ... and issue_token_pair, of either: t is a new row, so no request holds it.
IssueToken(p, t) ==
    /\ tx[p].pc = "issue"
    /\ db[TokenKey(t)] = "none" /\ \A q \in Requests : tx[q].token # t
    /\ Flush(p, {TokenKey(t)}, tx[p].user, "commit")

-----------------------------------------------------------------------------
(* delete_organization: one table after the other *)

LiveKeys(S) == {k \in S : db[k] = "live"}

DeleteAssignments(p) ==
    /\ tx[p].pc = "assignments"
    /\ Flush(p, LiveKeys(AssignKeys), "none", "bots")

DeleteBots(p) ==
    /\ tx[p].pc = "bots"
    /\ Flush(p, LiveKeys(BotKeys), "deleted", "tokens")

\* Mutant: the tokens are forgotten.
RevokeNothing(p) == tx[p].pc = "tokens" /\ Move(p, "members")

\* revoke_all_for_tenant, one UPDATE of the tokens it finds live.
RevokeTokens(p) ==
    /\ tx[p].pc = "tokens"
    /\ Flush(p, {k \in TokenKeys : db[k] \in Users}, "none", "members")

DeleteMembers(p) ==
    /\ tx[p].pc = "members"
    /\ Flush(p, {k \in RoleKeys : db[k] # "none"}, "none", "org")

DeleteOrg(p) ==
    /\ tx[p].pc = "org"
    /\ Flush(p, {OrgKey}, "deleted", "commit")

-----------------------------------------------------------------------------
Step(p) ==
    \/ InsertMember(p) \/ LoadMember(p) \/ CountOwners(p) \/ UpdateRole(p)
    \/ InsertBot(p) \/ BotMissing(p) \/ DeleteBot(p)
    \/ CheckAssignee(p) \/ WriteAssignment(p) \/ Unassign(p)
    \/ RevokeToken(p) \/ \E t \in Tokens : IssueToken(p, t)
    \/ DeleteAssignments(p) \/ DeleteBots(p) \/ RevokeTokens(p)
    \/ DeleteMembers(p) \/ DeleteOrg(p)
    \/ Commit(p)

BeginAny(p) ==
    /\ tx[p].pc = "idle"
    /\ \/ BeginMembers(p)
       \/ BeginBots(p)
       \/ BeginAssignments(p)
       \/ BeginSwitch(p)
       \/ BeginRefresh(p)
       \/ BeginDelete(p)

Next == \E p \in Requests : BeginAny(p) \/ Step(p) \/ RequestDies(p)

Spec == Init /\ [][Next]_vars

-----------------------------------------------------------------------------
(* Properties *)

\* A bot assignment of an active organization belongs to a member: nothing
\* removes one without the other, whatever overlaps.
AssignedAreMembers ==
    db[OrgKey] = "live" =>
        \A b \in Bots, u \in Users :
            db[AssignKey(b, u)] = "live" => Role(u) # "none"

\* What is alive in a deleted organization is what other requests committed too
\* late for the deletion to find it, having begun before it was through: nothing
\* that was there when it came to the table, and nothing by a request that begins
\* later, though a membership that was missed is still there.  Refresh tokens may
\* descend from a token or a membership that was missed, and from nothing else.
CascadeComplete ==
    db[OrgKey] = "deleted" =>
        /\ LiveKeys(BotKeys \cup AssignKeys) \subseteq races.missed
        /\ \A u \in Users : Role(u) # "none" => RoleKey(u) \in races.missed
        /\ (\E t \in Tokens : db[TokenKey(t)] \in Users) => races.door

\* An organization keeps an owner as long as no two role changes overlap, and
\* one that lost its owners so has them back with the next owner.
OwnerKept ==
    db[OrgKey] = "live" /\ ~races.roles =>
        \E u \in Users : Role(u) = "owner"

\* "An organization must always keep at least one owner."
AlwaysAnOwner == db[OrgKey] = "live" => \E u \in Users : Role(u) = "owner"
=============================================================================
