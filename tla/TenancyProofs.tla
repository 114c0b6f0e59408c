--------------------------- MODULE TenancyProofs ---------------------------
(***************************************************************************)
(* Proofs about Tenancy, for any number of users, bots, tokens and         *)
(* concurrent requests.                                                    *)
(***************************************************************************)
EXTENDS Tenancy, FiniteSetTheorems, TLAPS

-----------------------------------------------------------------------------
(* The keys *)

\* The tables are disjoint.
LEMMA KeyTables ==
    /\ OrgKey \in Keys /\ RoleKeys \subseteq Keys /\ BotKeys \subseteq Keys
    /\ AssignKeys \subseteq Keys /\ TokenKeys \subseteq Keys
    /\ OrgKey \notin RoleKeys \cup BotKeys \cup AssignKeys \cup TokenKeys
    /\ RoleKeys \cap (BotKeys \cup AssignKeys \cup TokenKeys) = {}
    /\ BotKeys \cap (AssignKeys \cup TokenKeys) = {}
    /\ AssignKeys \cap TokenKeys = {}
<1>1. /\ OrgKey \in Keys /\ RoleKeys \subseteq Keys /\ BotKeys \subseteq Keys
      /\ AssignKeys \subseteq Keys /\ TokenKeys \subseteq Keys
  BY DEF Keys
<1>2. /\ \A u : OrgKey # RoleKey(u) /\ OrgKey # BotKey(u) /\ OrgKey # TokenKey(u)
      /\ \A b, u : OrgKey # AssignKey(b, u)
  BY DEF OrgKey, RoleKey, BotKey, TokenKey, AssignKey
<1>3. /\ \A u, x : /\ RoleKey(u) # BotKey(x) /\ RoleKey(u) # TokenKey(x)
                   /\ BotKey(u) # TokenKey(x)
      /\ \A b, u, x : /\ RoleKey(x) # AssignKey(b, u) /\ BotKey(x) # AssignKey(b, u)
                      /\ TokenKey(x) # AssignKey(b, u)
  BY DEF RoleKey, BotKey, TokenKey, AssignKey
<1> QED
  BY <1>1, <1>2, <1>3 DEF RoleKeys, BotKeys, AssignKeys, TokenKeys

\* A row key names its row.
LEMMA KeyNames ==
    /\ \A u \in Users : RoleKey(u) \in RoleKeys
    /\ \A b \in Bots : BotKey(b) \in BotKeys
    /\ \A b \in Bots, u \in Users : AssignKey(b, u) \in AssignKeys
    /\ \A t \in Tokens : TokenKey(t) \in TokenKeys
    /\ \A k \in RoleKeys : \E u \in Users : k = RoleKey(u)
    /\ \A k \in AssignKeys : \E b \in Bots, u \in Users : k = AssignKey(b, u)
    /\ \A u, v : RoleKey(u) = RoleKey(v) => u = v
    /\ \A b, c, u, v : AssignKey(b, u) = AssignKey(c, v) => b = c /\ u = v
<1>1. /\ \A u \in Users : RoleKey(u) \in RoleKeys
      /\ \A b \in Bots : BotKey(b) \in BotKeys
      /\ \A b \in Bots, u \in Users : AssignKey(b, u) \in AssignKeys
      /\ \A t \in Tokens : TokenKey(t) \in TokenKeys
      /\ \A k \in RoleKeys : \E u \in Users : k = RoleKey(u)
      /\ \A k \in AssignKeys : \E b \in Bots, u \in Users : k = AssignKey(b, u)
  BY DEF RoleKeys, BotKeys, AssignKeys, TokenKeys
<1>2. \A u, v : RoleKey(u) = RoleKey(v) => u = v
  BY DEF RoleKey
<1>3. \A b, c, u, v : AssignKey(b, u) = AssignKey(c, v) => b = c /\ u = v
  BY DEF AssignKey
<1> QED
  BY <1>1, <1>2, <1>3

\* What the columns may hold.
LEMMA KeyValues ==
    /\ Value(OrgKey) = {"none", "live", "deleted"}
    /\ \A k \in RoleKeys : Value(k) = Roles \cup {"none"}
    /\ \A k \in BotKeys : Value(k) = {"none", "live", "deleted"}
    /\ \A k \in AssignKeys : Value(k) = {"none", "live"}
    /\ \A k \in TokenKeys : Value(k) = {"none"} \cup Users
<1>1. Value(OrgKey) = {"none", "live", "deleted"}
  BY KeyTables DEF Value
<1>2. \A k \in RoleKeys : Value(k) = Roles \cup {"none"}
  BY KeyTables DEF Value
<1>3. \A k \in BotKeys : Value(k) = {"none", "live", "deleted"}
  BY KeyTables DEF Value
<1>4. \A k \in AssignKeys : Value(k) = {"none", "live"}
  BY KeyTables DEF Value
<1>5. \A k \in TokenKeys : Value(k) = {"none"} \cup Users
  BY KeyTables DEF Value
<1> QED
  BY <1>1, <1>2, <1>3, <1>4, <1>5

-----------------------------------------------------------------------------
(* The inductive invariant *)

Data == Roles \cup {"none", "live", "deleted"} \cup Users

Writes == UNION {[S -> Data] : S \in SUBSET Keys}

TxType ==
    [pc : PCs, kind : Kinds \cup {"none"}, user : Users \cup {"none"},
     role : Roles \cup {"none"}, bot : Bots \cup {"none"},
     token : Tokens \cup {"none"}, writes : Writes, late : BOOLEAN, raced : BOOLEAN]

Typed ==
    /\ db \in [Keys -> Data]
    /\ \A k \in Keys : db[k] \in Value(k)
    /\ db[OrgKey] # "none"
    /\ tx \in [Requests -> TxType]
    /\ races \in [roles : BOOLEAN, missed : SUBSET Keys, door : BOOLEAN]
    /\ \A p \in Requests : tx[p].raced => tx[p].kind = "setRole"

\* The way a request of each kind goes.
WayOK(q) ==
    /\ q.pc = "idle" => q = Idle
    /\ q.kind = "none" => q.pc = "idle"
    /\ q.kind = "addMember" => q.pc \in {"write", "commit"}
    /\ q.kind = "setRole" => q.pc \in {"load", "count", "write", "commit"}
    /\ q.kind = "registerBot" => q.pc \in {"write", "commit"}
    /\ q.kind = "deleteBot" => q.pc \in {"load", "commit"}
    /\ q.kind = "assign" => q.pc \in {"load", "write", "commit"}
    /\ q.kind = "unassign" => q.pc \in {"load", "commit"}
    /\ q.kind = "switch" => q.pc \in {"issue", "commit"}
    /\ q.kind = "refresh" => q.pc \in {"write", "issue", "commit"}
    /\ q.kind = "deleteOrg" =>
          q.pc \in {"assignments", "bots", "tokens", "members", "org", "commit"}

\* ... and what it is about until it has flushed its last statement.
ArgsOK(q) ==
    q.pc # "commit" =>
        /\ q.kind \in {"addMember", "setRole", "assign", "unassign", "switch", "refresh"}
              => q.user \in Users
        /\ q.kind \in {"addMember", "setRole"} => q.role \in Roles
        /\ q.kind \in {"registerBot", "deleteBot", "assign", "unassign"} => q.bot \in Bots
        /\ q.kind = "refresh" /\ q.pc = "write" => q.token \in Tokens

\* Which request flushes what: only the deletion of the organization, which
\* ends with the organization, removes a membership.
WritesOK(q) ==
    /\ \A k \in DOMAIN q.writes : q.writes[k] \in Value(k)
    /\ q.kind # "deleteOrg" /\ q.pc # "commit" => DOMAIN q.writes \subseteq TokenKeys
    /\ q.kind \in {"switch", "refresh"} => DOMAIN q.writes \subseteq TokenKeys
    /\ \A k \in RoleKeys : k \in DOMAIN q.writes =>
          \/ q.kind = "deleteOrg"
          \/ q.kind = "setRole" /\ q.writes[k] # "none"
          \/ q.kind = "addMember" /\ q.writes[k] # "none" /\ db[k] = "none"
    /\ \A k \in AssignKeys : k \in DOMAIN q.writes /\ q.writes[k] = "live" =>
          q.kind = "assign"
    /\ OrgKey \in DOMAIN q.writes <=> q.kind = "deleteOrg" /\ q.pc = "commit"
    /\ q.kind = "deleteOrg" => \A k \in DOMAIN q.writes :
          q.writes[k] = IF k \in BotKeys \cup {OrgKey} THEN "deleted" ELSE "none"

\* An assignment under way is of a member, as its check said.
AssignOK(q) ==
    q.kind = "assign" /\ db[OrgKey] = "live" =>
        /\ q.pc = "write" => Role(q.user) # "none"
        /\ \A b \in Bots, u \in Users :
              AssignKey(b, u) \in DOMAIN q.writes => Role(u) # "none"

HasOwner == \E u \in Users : Role(u) = "owner"

\* What a row will hold after the commit of q.
After(q, k) == IF k \in DOMAIN q.writes THEN q.writes[k] ELSE db[k]

\* A change of roles that overlaps with no other leaves an owner.
OwnerOK(q) ==
    q.kind = "setRole" /\ ~q.raced /\ db[OrgKey] = "live" =>
        /\ q.pc \in {"count", "write"} => Role(q.user) # "none"
        /\ q.pc = "write" =>
              \/ q.role = "owner"
              \/ Role(q.user) # "owner"
              \/ \E u \in Users : u # q.user /\ Role(u) = "owner"
        /\ q.pc = "commit" /\ HasOwner =>
              \E u \in Users : After(q, RoleKey(u)) = "owner"

Alive(v) == v \notin {"none", "deleted"}

\* It is on record that a deletion has missed k, or for a token what it comes of.
Known(k) == IF k \in TokenKeys THEN races.door ELSE k \in races.missed

\* What a deletion of the organization will leave alive in the tables it is through
\* with is what others committed after it.
CascadeOK(q) ==
    q.kind = "deleteOrg" => \A k \in Swept(q.pc) : Alive(After(q, k)) => Known(k)

RequestOK(q) ==
    /\ WayOK(q)
    /\ ArgsOK(q)
    /\ WritesOK(q)
    /\ AssignOK(q)
    /\ OwnerOK(q)
    /\ CascadeOK(q)

\* Rows are locked by one request at a time, and two changes of roles know that
\* they overlap.
Apart(q, r) ==
    /\ DOMAIN q.writes \cap DOMAIN r.writes = {}
    /\ q.kind = "setRole" /\ r.kind = "setRole" => q.raced

\* A request that began after the deletion of the organization is there for tokens,
\* and by a door that was missed.
Gone ==
    db[OrgKey] = "deleted" =>
        /\ \A k \in Keys \ {OrgKey} : Alive(db[k]) => Known(k)
        /\ \A p \in Requests : tx[p].kind # "none" /\ ~tx[p].late =>
              tx[p].kind \in {"switch", "refresh"} /\ races.door

\* A membership is a door.
DoorOK == races.missed \cap RoleKeys # {} => races.door

TenancyInv ==
    /\ Typed
    /\ \A p \in Requests : RequestOK(tx[p])
    /\ \A p, q \in Requests : p # q => Apart(tx[p], tx[q])
    /\ AssignedAreMembers
    /\ OwnerKept
    /\ Gone
    /\ DoorOK

-----------------------------------------------------------------------------
(* Lemmas *)

LEMMA NoWritesTyped == NoWrites \in Writes /\ DOMAIN NoWrites = {}
BY DEF NoWrites, Writes

\* What Put flushes.
LEMMA PutWrites ==
    \A w \in Writes, S \in SUBSET Keys, v \in Data :
        /\ Put(w, S, v) \in Writes
        /\ DOMAIN Put(w, S, v) = DOMAIN w \cup S
<1> TAKE w \in Writes, S \in SUBSET Keys, v \in Data
<1>1. PICK T \in SUBSET Keys : w \in [T -> Data]
  BY DEF Writes
<1>2. DOMAIN Put(w, S, v) = T \cup S /\ Put(w, S, v) \in [T \cup S -> Data]
  BY <1>1 DEF Put
<1>3. T \cup S \in SUBSET Keys
  OBVIOUS
<1> QED
  BY <1>1, <1>2, <1>3 DEF Put, Writes

\* The tables a deletion is through with, as it goes on.
LEMMA SweptFacts ==
    /\ Swept("assignments") = {}
    /\ Swept("bots") = AssignKeys
    /\ Swept("tokens") = AssignKeys \cup BotKeys
    /\ Swept("members") = AssignKeys \cup BotKeys \cup TokenKeys
    /\ Swept("org") = Keys \ {OrgKey}
    /\ Swept("commit") = Keys \ {OrgKey}
    /\ \A pc : Swept(pc) \subseteq Keys \ {OrgKey}
<1>1. Keys \ {OrgKey} = AssignKeys \cup BotKeys \cup TokenKeys \cup RoleKeys
  BY KeyTables DEF Keys
<1>2. /\ Swept("assignments") = {}
      /\ Swept("bots") = AssignKeys
      /\ Swept("tokens") = AssignKeys \cup BotKeys
      /\ Swept("members") = AssignKeys \cup BotKeys \cup TokenKeys
      /\ Swept("org") = Keys \ {OrgKey}
      /\ Swept("commit") = Keys \ {OrgKey}
  BY <1>1 DEF Swept
<1>3. ASSUME NEW pc PROVE Swept(pc) \subseteq Keys \ {OrgKey}
  <2>1. CASE pc \in {"bots", "tokens", "members", "org", "commit"}
    BY <1>1, <1>2, <2>1
  <2>2. CASE pc \notin {"bots", "tokens", "members", "org", "commit"}
    BY <2>2 DEF Swept
  <2> QED
    BY <2>1, <2>2
<1> QED
  BY <1>2, <1>3

LEMMA IdleOK ==
    /\ Idle \in TxType
    /\ RequestOK(Idle) /\ ~Idle.raced
    /\ DOMAIN Idle.writes = {} /\ Idle.kind = "none" /\ Idle.pc = "idle"
<1>1. /\ Idle \in TxType
      /\ DOMAIN Idle.writes = {} /\ Idle.kind = "none" /\ Idle.pc = "idle"
  BY NoWritesTyped DEF Idle, TxType, PCs
<1>2. ~Idle.raced
  BY DEF Idle
<1> QED
  BY <1>1, <1>2, KeyTables, SweptFacts
     DEF RequestOK, WayOK, ArgsOK, WritesOK, AssignOK, OwnerOK, CascadeOK, Kinds

\* The organization has an owner, nothing else and no requests.
LEMMA TenancyInit == Init => TenancyInv
<1> SUFFICES ASSUME Init PROVE TenancyInv
  OBVIOUS
<1> USE KeyTables
<1>1. PICK u \in Users :
         db = [k \in Keys |-> CASE k = OrgKey -> "live"
                                [] k = RoleKey(u) -> "owner"
                                [] OTHER -> "none"]
  BY DEF Init
<1>2. /\ RoleKey(u) \in Keys /\ RoleKey(u) # OrgKey
      /\ DOMAIN db = Keys
      /\ db[OrgKey] = "live" /\ db[RoleKey(u)] = "owner"
      /\ \A k \in Keys : k # OrgKey /\ k # RoleKey(u) => db[k] = "none"
  BY <1>1, KeyNames
<1>3. \A k \in Keys : db[k] \in Value(k)
  <2>1. \A k \in Keys \ {OrgKey} : "none" \in Value(k)
    BY KeyValues DEF Keys
  <2>2. "owner" \in Value(RoleKey(u)) /\ "live" \in Value(OrgKey)
    BY KeyNames, KeyValues DEF Roles
  <2> QED
    BY <1>2, <2>1, <2>2
<1>4. db \in [Keys -> Data]
  BY <1>1, <1>2 DEF Data, Roles
<1>5. /\ tx = [p \in Requests |-> Idle]
      /\ races = [roles |-> FALSE, missed |-> {}, door |-> FALSE]
  BY DEF Init
<1>6. Typed
  BY <1>2, <1>3, <1>4, <1>5, IdleOK DEF Typed
<1>7. \A p \in Requests : RequestOK(tx[p])
  BY <1>5, IdleOK
<1>8. \A p, q \in Requests : p # q => Apart(tx[p], tx[q])
  BY <1>5, IdleOK DEF Apart
<1>9. AssignedAreMembers
  BY <1>2, KeyNames DEF AssignedAreMembers
<1>10. OwnerKept
  BY <1>2 DEF OwnerKept, Role
<1>11. Gone /\ DoorOK
  BY <1>2, <1>5 DEF Gone, DoorOK
<1> QED
  BY <1>6, <1>7, <1>8, <1>9, <1>10, <1>11 DEF TenancyInv

\* The record of what was missed is closed with the last deletion that fails.
Recorded ==
    \/ races' = races
    \/ /\ db[OrgKey] = "live"
       /\ \A q \in Requests : tx'[q].kind # "deleteOrg"
       /\ races' = [races EXCEPT !.missed = {}, !.door = FALSE]

\* A statement of p that commits nothing: it is enough to look at p.
LEMMA LocalStep ==
    ASSUME TenancyInv, NEW p \in Requests, NEW n \in TxType,
           tx' = [tx EXCEPT ![p] = n], db' = db, Recorded,
           RequestOK(n),
           \A q \in Requests \ {p} : DOMAIN n.writes \cap DOMAIN tx[q].writes = {},
           n = Idle \/ (n.kind = tx[p].kind /\ n.raced = tx[p].raced /\ n.late = tx[p].late)
    PROVE  TenancyInv'
<1> USE DEF TenancyInv
<1>1. /\ tx' \in [Requests -> TxType] /\ tx'[p] = n
      /\ \A q \in Requests : q # p => tx'[q] = tx[q]
  BY DEF Typed
<1>2. /\ races' \in [roles : BOOLEAN, missed : SUBSET Keys, door : BOOLEAN]
      /\ races'.roles = races.roles
      /\ \/ races' = races
         \/ /\ races'.missed = {} /\ db[OrgKey] = "live"
            /\ \A q \in Requests : tx'[q].kind # "deleteOrg"
  BY DEF Recorded, Typed
<1>3. Typed'
  BY <1>1, <1>2, IdleOK DEF Typed
<1>4. \A q \in Requests : RequestOK(tx[q])'
  <2> TAKE q \in Requests
  <2>1. RequestOK(tx'[q])
    BY <1>1
  <2>2. WayOK(tx[q])' /\ ArgsOK(tx[q])'
    BY <2>1 DEF RequestOK, WayOK, ArgsOK
  <2>3. WritesOK(tx[q])' /\ AssignOK(tx[q])'
    BY <2>1 DEF RequestOK, WritesOK, AssignOK, Role
  <2>4. OwnerOK(tx[q])'
    BY <2>1 DEF RequestOK, OwnerOK, HasOwner, Role, After
  <2>5. CascadeOK(tx[q])'
    BY <1>2, <2>1 DEF RequestOK, CascadeOK, Known, After
  <2> QED
    BY <2>2, <2>3, <2>4, <2>5 DEF RequestOK
<1>5. \A q, r \in Requests : q # r => Apart(tx[q], tx[r])'
  <2> TAKE q \in Requests, r \in Requests
  <2> SUFFICES ASSUME q # r PROVE Apart(tx'[q], tx'[r])
    BY DEF Apart
  <2> USE <1>1
  <2>1. Apart(tx[q], tx[r])
    OBVIOUS
  <2>2. CASE q # p /\ r # p
    BY <2>1, <2>2
  <2>3. CASE q = p
    BY <2>1, <2>3, IdleOK DEF Apart
  <2>4. CASE r = p
    BY <2>1, <2>4, IdleOK DEF Apart
  <2> QED
    BY <2>2, <2>3, <2>4
<1>6. AssignedAreMembers' /\ OwnerKept'
  BY <1>2 DEF AssignedAreMembers, OwnerKept, Role
<1>7. Gone' /\ DoorOK'
  BY <1>1, <1>2, IdleOK DEF Gone, DoorOK, Known
<1> QED
  BY <1>3, <1>4, <1>5, <1>6, <1>7

LEMMA FailStep ==
    ASSUME TenancyInv, NEW p \in Requests, Fail(p)
    PROVE  TenancyInv'
<1>1. tx' = [tx EXCEPT ![p] = Idle] /\ db' = db /\ Recorded
  BY DEF Fail, Recorded
<1> QED
  BY <1>1, LocalStep, IdleOK

\* n is the request p after it has moved on without a write ...
Moved(n, p, pc) ==
    /\ n \in TxType /\ n.pc = pc
    /\ n.kind = tx[p].kind /\ n.raced = tx[p].raced /\ n.late = tx[p].late
    /\ n.user = tx[p].user /\ n.role = tx[p].role
    /\ n.bot = tx[p].bot /\ n.token = tx[p].token
    /\ n.writes = tx[p].writes

LEMMA MoveStep ==
    ASSUME TenancyInv, NEW p \in Requests, NEW pc \in PCs, Move(p, pc),
           \A n : Moved(n, p, pc) => RequestOK(n)
    PROVE  TenancyInv'
<1> DEFINE n == [tx[p] EXCEPT !.pc = pc]
<1>1. tx[p] \in TxType /\ \A q \in Requests \ {p} : Apart(tx[p], tx[q])
  BY DEF TenancyInv, Typed
<1>2. Moved(n, p, pc)
  BY <1>1 DEF TxType, Moved
<1>3. tx' = [tx EXCEPT ![p] = n] /\ db' = db /\ races' = races
  BY DEF Move, TenancyInv, Typed
<1> HIDE DEF n
<1>4. RequestOK(n)
  BY <1>2
<1>5. \A q \in Requests \ {p} : DOMAIN n.writes \cap DOMAIN tx[q].writes = {}
  BY <1>1, <1>2 DEF Apart, Moved
<1> QED
  BY <1>2, <1>3, <1>4, <1>5, LocalStep DEF Moved, Recorded

\* ... or flushed v into S.
Flushed(n, p, S, v, pc) ==
    /\ n \in TxType /\ n.pc = pc
    /\ n.kind = tx[p].kind /\ n.raced = tx[p].raced /\ n.late = tx[p].late
    /\ pc # "commit" => /\ n.user = tx[p].user /\ n.role = tx[p].role
                        /\ n.bot = tx[p].bot /\ n.token = tx[p].token
    /\ DOMAIN n.writes = DOMAIN tx[p].writes \cup S
    /\ \A k \in S : n.writes[k] = v
    /\ \A k \in DOMAIN tx[p].writes : k \notin S => n.writes[k] = tx[p].writes[k]

LEMMA FlushStep ==
    ASSUME TenancyInv, NEW p \in Requests, NEW pc \in PCs,
           NEW S \in SUBSET Keys, NEW v \in Data, Flush(p, S, v, pc),
           \A n : Flushed(n, p, S, v, pc) => RequestOK(n)
    PROVE  TenancyInv'
<1> DEFINE w == Put(tx[p].writes, S, v)
           kept == IF pc = "commit"
                   THEN [Idle EXCEPT !.kind = tx[p].kind, !.late = tx[p].late,
                                     !.raced = tx[p].raced]
                   ELSE tx[p]
           n == [kept EXCEPT !.pc = pc, !.writes = w]
<1>1. /\ tx[p] \in TxType /\ tx[p].writes \in Writes
      /\ \A q \in Requests \ {p} : DOMAIN tx[p].writes \cap DOMAIN tx[q].writes = {}
  BY DEF TenancyInv, Typed, TxType, Apart
<1>2. tx' = [tx EXCEPT ![p] = n] /\ db' = db /\ races' = races
  BY DEF Flush
<1>3. /\ w \in Writes /\ DOMAIN w = DOMAIN tx[p].writes \cup S
      /\ \A k \in S : w[k] = v
      /\ \A k \in DOMAIN tx[p].writes : k \notin S => w[k] = tx[p].writes[k]
  BY <1>1, PutWrites DEF Put
<1>4. /\ kept \in TxType /\ kept.kind = tx[p].kind
      /\ kept.raced = tx[p].raced /\ kept.late = tx[p].late
      /\ pc # "commit" => kept = tx[p]
  BY <1>1, IdleOK, ZenonT(40) DEF TxType
<1> HIDE DEF w, kept
<1>5. /\ n \in TxType /\ n.pc = pc /\ n.kind = kept.kind /\ n.writes = w
      /\ n.raced = kept.raced /\ n.late = kept.late
      /\ n.user = kept.user /\ n.role = kept.role
      /\ n.bot = kept.bot /\ n.token = kept.token
  BY <1>3, <1>4 DEF TxType
<1> HIDE DEF n
<1>6. Flushed(n, p, S, v, pc)
  BY <1>3, <1>4, <1>5 DEF Flushed
<1>7. \A k \in S, q \in Requests \ {p} : k \notin DOMAIN tx[q].writes
  BY DEF Flush, Locked
<1>8. \A q \in Requests \ {p} : DOMAIN n.writes \cap DOMAIN tx[q].writes = {}
  BY <1>1, <1>3, <1>5, <1>7
<1>9. n.kind = tx[p].kind /\ n.raced = tx[p].raced /\ n.late = tx[p].late
  BY <1>6 DEF Flushed
<1> QED
  BY <1>2, <1>5, <1>6, <1>8, <1>9, LocalStep DEF Recorded

\* What the invariant says of one request.
LEMMA OfRequest ==
    ASSUME TenancyInv, NEW p \in Requests
    PROVE  /\ tx[p] \in TxType /\ RequestOK(tx[p])
           /\ \A k \in Keys : db[k] \in Value(k)
           /\ db \in [Keys -> Data]
BY DEF TenancyInv, Typed

\* A request that is at none of the places where something is asked of it.
LEMMA PlainOK ==
    ASSUME NEW n, WayOK(n), ArgsOK(n), WritesOK(n),
           n.kind \notin {"assign", "setRole", "deleteOrg"}
    PROVE  RequestOK(n)
BY DEF RequestOK, AssignOK, OwnerOK, CascadeOK

-----------------------------------------------------------------------------
(* Members *)

LEMMA InsertMemberInv ==
    ASSUME TenancyInv, NEW p \in Requests, InsertMember(p) PROVE TenancyInv'
<1> DEFINE k == RoleKey(tx[p].user)
<1>1. CASE db[k] = "none" /\ Flush(p, {k}, tx[p].role, "commit")
  <2>1. /\ tx[p].kind = "addMember" /\ tx[p].pc = "write"
        /\ tx[p].user \in Users /\ tx[p].role \in Roles
        /\ DOMAIN tx[p].writes \subseteq TokenKeys
        /\ \A x \in DOMAIN tx[p].writes : tx[p].writes[x] \in Value(x)
    BY OfRequest DEF InsertMember, RequestOK, ArgsOK, WayOK, WritesOK
  <2>2. /\ k \in RoleKeys /\ {k} \in SUBSET Keys /\ tx[p].role \in Data \cap Value(k)
        /\ tx[p].role # "none" /\ "commit" \in PCs \ {"idle"}
    BY <2>1, KeyNames, KeyTables, KeyValues DEF Data, Roles, PCs
  <2> SUFFICES ASSUME NEW n, Flushed(n, p, {k}, tx[p].role, "commit") PROVE RequestOK(n)
    BY <1>1, <2>2, FlushStep
  <2>3. /\ n \in TxType /\ n.pc = "commit" /\ n.kind = tx[p].kind
        /\ n.late = tx[p].late
        /\ DOMAIN n.writes = DOMAIN tx[p].writes \cup {k}
        /\ n.writes[k] = tx[p].role
        /\ \A x \in DOMAIN tx[p].writes : x # k => n.writes[x] = tx[p].writes[x]
    BY DEF Flushed
  <2>4. WayOK(n) /\ ArgsOK(n)
    BY <2>1, <2>3 DEF WayOK, ArgsOK
  <2>5. WritesOK(n)
    BY <1>1, <2>1, <2>2, <2>3, KeyTables DEF WritesOK
  <2>6. RequestOK(n)
    BY <2>1, <2>3, <2>4, <2>5, PlainOK
  <2> QED
    BY <2>6
<1>2. CASE Fail(p)
  BY <1>2, FailStep
<1> QED
  BY <1>1, <1>2 DEF InsertMember

LEMMA UpdateRoleInv ==
    ASSUME TenancyInv, NEW p \in Requests, UpdateRole(p) PROVE TenancyInv'
<1> DEFINE k == RoleKey(tx[p].user)
<1>1. CASE db[k] # "none" /\ Flush(p, {k}, tx[p].role, "commit")
  <2>1. /\ tx[p].kind = "setRole" /\ tx[p].pc = "write"
        /\ tx[p].user \in Users /\ tx[p].role \in Roles
        /\ DOMAIN tx[p].writes \subseteq TokenKeys
        /\ \A x \in DOMAIN tx[p].writes : tx[p].writes[x] \in Value(x)
        /\ OwnerOK(tx[p])
    BY OfRequest DEF UpdateRole, RequestOK, ArgsOK, WayOK, WritesOK
  <2>2. /\ k \in RoleKeys /\ {k} \in SUBSET Keys /\ tx[p].role \in Data \cap Value(k)
        /\ tx[p].role # "none" /\ "commit" \in PCs \ {"idle"}
    BY <2>1, KeyNames, KeyTables, KeyValues DEF Data, Roles, PCs
  <2> SUFFICES ASSUME NEW n, Flushed(n, p, {k}, tx[p].role, "commit") PROVE RequestOK(n)
    BY <1>1, <2>2, FlushStep
  <2>3. /\ n \in TxType /\ n.pc = "commit" /\ n.kind = tx[p].kind
        /\ n.late = tx[p].late /\ n.raced = tx[p].raced
        /\ DOMAIN n.writes = DOMAIN tx[p].writes \cup {k}
        /\ n.writes[k] = tx[p].role
        /\ \A x \in DOMAIN tx[p].writes : x # k => n.writes[x] = tx[p].writes[x]
    BY DEF Flushed
  <2>4. WayOK(n) /\ ArgsOK(n)
    BY <2>1, <2>3 DEF WayOK, ArgsOK
  <2>5. WritesOK(n)
    BY <2>1, <2>2, <2>3, KeyTables DEF WritesOK
  <2>6. OwnerOK(n)
    <3> SUFFICES ASSUME ~n.raced, db[OrgKey] = "live", HasOwner
                 PROVE  \E u \in Users : After(n, RoleKey(u)) = "owner"
      BY <2>3 DEF OwnerOK
    <3>1. CASE tx[p].role = "owner"
      BY <2>1, <2>3, <3>1 DEF After
    <3>2. ASSUME NEW u \in Users, u # tx[p].user, Role(u) = "owner"
          PROVE  \E v \in Users : After(n, RoleKey(v)) = "owner"
      <4>1. RoleKey(u) # k /\ RoleKey(u) \in RoleKeys
        BY <3>2, KeyNames
      <4>2. RoleKey(u) \notin DOMAIN n.writes
        BY <2>1, <2>3, <4>1, KeyTables
      <4> QED
        BY <3>2, <4>2 DEF After, Role
    <3>3. CASE Role(tx[p].user) # "owner"
      BY <3>2, <3>3 DEF HasOwner
    <3> QED
      BY <2>1, <2>3, <3>1, <3>2, <3>3 DEF OwnerOK
  <2>7. RequestOK(n)
    BY <2>1, <2>3, <2>4, <2>5, <2>6 DEF RequestOK, AssignOK, CascadeOK
  <2> QED
    BY <2>7
<1>2. CASE Fail(p)
  BY <1>2, FailStep
<1> QED
  BY <1>1, <1>2 DEF UpdateRole

LEMMA LoadMemberInv ==
    ASSUME TenancyInv, NEW p \in Requests, LoadMember(p) PROVE TenancyInv'
<1> DEFINE role == Role(tx[p].user)
           pc == IF role = "owner" /\ tx[p].role # "owner" THEN "count"
                 ELSE IF role # tx[p].role THEN "write" ELSE "commit"
<1>1. CASE role # "none" /\ Move(p, pc)
  <2>1. /\ tx[p].kind = "setRole" /\ tx[p].pc = "load" /\ tx[p] \in TxType
        /\ tx[p].user \in Users /\ tx[p].role \in Roles
        /\ DOMAIN tx[p].writes \subseteq TokenKeys
        /\ WritesOK(tx[p])
    BY OfRequest DEF LoadMember, RequestOK, ArgsOK, WayOK, WritesOK
  <2>2. pc \in {"count", "write", "commit"} /\ pc \in PCs
    BY DEF PCs
  <2>4. pc = "write" => tx[p].role = "owner" \/ role # "owner"
    OBVIOUS
  <2> HIDE DEF pc
  <2> SUFFICES ASSUME NEW n, Moved(n, p, pc) PROVE RequestOK(n)
    BY <1>1, <2>2, MoveStep
  <2>3. /\ n.pc = pc /\ n.kind = tx[p].kind /\ n.late = tx[p].late
        /\ n.raced = tx[p].raced /\ n.writes = tx[p].writes
        /\ n.user = tx[p].user /\ n.role = tx[p].role
    BY DEF Moved
  <2>5. WayOK(n) /\ ArgsOK(n)
    BY <2>1, <2>2, <2>3 DEF WayOK, ArgsOK
  <2>6. WritesOK(n)
    BY <2>1, <2>3, KeyTables DEF WritesOK
  <2>7. OwnerOK(n)
    <3>1. \A u \in Users : After(n, RoleKey(u)) = Role(u)
      BY <2>1, <2>3, KeyNames, KeyTables DEF After, Role
    <3> QED
      BY <1>1, <2>3, <2>4, <3>1 DEF OwnerOK, HasOwner
  <2>8. RequestOK(n)
    BY <2>1, <2>3, <2>5, <2>6, <2>7 DEF RequestOK, AssignOK, CascadeOK
  <2> QED
    BY <2>8
<1>2. CASE Fail(p)
  BY <1>2, FailStep
<1> QED
  BY <1>1, <1>2 DEF LoadMember

LEMMA CountOwnersInv ==
    ASSUME TenancyInv, NEW p \in Requests, CountOwners(p) PROVE TenancyInv'
<1>1. CASE ~(Cardinality(Owners(p)) <= 1) /\ Move(p, "write")
  <2>1. /\ tx[p].kind = "setRole" /\ tx[p].pc = "count" /\ tx[p] \in TxType
        /\ tx[p].user \in Users /\ tx[p].role \in Roles
        /\ WritesOK(tx[p]) /\ OwnerOK(tx[p])
    BY OfRequest DEF CountOwners, RequestOK, ArgsOK, WayOK, WritesOK, Kinds, TxType
  <2>2. \E u \in Users : u # tx[p].user /\ Role(u) = "owner"
    <3> SUFFICES ASSUME \A u \in Users : Role(u) = "owner" => u = tx[p].user
                 PROVE  Cardinality(Owners(p)) <= 1
      BY <1>1
    <3>1. Owners(p) = {} \/ Owners(p) = {tx[p].user}
      BY DEF Owners
    <3>2. Cardinality({}) = 0 /\ Cardinality({tx[p].user}) = 1
      BY FS_EmptySet, FS_Singleton
    <3> QED
      BY <3>1, <3>2
  <2> SUFFICES ASSUME NEW n, Moved(n, p, "write") PROVE RequestOK(n)
    BY <1>1, MoveStep DEF PCs
  <2>3. /\ n.pc = "write" /\ n.kind = tx[p].kind /\ n.late = tx[p].late
        /\ n.raced = tx[p].raced /\ n.writes = tx[p].writes
        /\ n.user = tx[p].user /\ n.role = tx[p].role
    BY DEF Moved
  <2>4. WayOK(n) /\ ArgsOK(n) /\ WritesOK(n)
    BY <2>1, <2>3 DEF WayOK, ArgsOK, WritesOK
  <2>5. RequestOK(n)
    BY <2>1, <2>2, <2>3, <2>4 DEF RequestOK, AssignOK, CascadeOK, OwnerOK
  <2> QED
    BY <2>5
<1>2. CASE Fail(p)
  BY <1>2, FailStep
<1> QED
  BY <1>1, <1>2 DEF CountOwners

-----------------------------------------------------------------------------
(* Bots and assignments *)

\* A request for a bot that commits next, having flushed one row.
LEMMA FlushBotRow ==
    ASSUME TenancyInv, NEW p \in Requests,
           tx[p].kind \in {"registerBot", "deleteBot", "unassign", "assign"},
           tx[p].pc \in {"load", "write"},
           NEW k \in BotKeys \cup AssignKeys, NEW v \in Value(k),
           k \in AssignKeys /\ v = "live" => tx[p].kind = "assign",
           tx[p].kind = "assign" =>
              \/ db[OrgKey] # "live"
              \/ k = AssignKey(tx[p].bot, tx[p].user) /\ Role(tx[p].user) # "none",
           Flush(p, {k}, v, "commit")
    PROVE  TenancyInv'
<1>1. /\ DOMAIN tx[p].writes \subseteq TokenKeys
      /\ \A x \in DOMAIN tx[p].writes : tx[p].writes[x] \in Value(x)
  BY OfRequest DEF RequestOK, WayOK, WritesOK
<1>2. {k} \in SUBSET Keys /\ v \in Data /\ "commit" \in PCs
  BY KeyTables, KeyValues DEF Data, Roles, PCs
<1> SUFFICES ASSUME NEW n, Flushed(n, p, {k}, v, "commit") PROVE RequestOK(n)
  BY <1>2, FlushStep
<1>3. /\ n.pc = "commit" /\ n.kind = tx[p].kind /\ n.late = tx[p].late
      /\ DOMAIN n.writes = DOMAIN tx[p].writes \cup {k} /\ n.writes[k] = v
      /\ \A x \in DOMAIN tx[p].writes : x # k => n.writes[x] = tx[p].writes[x]
  BY DEF Flushed
<1>4. WayOK(n) /\ ArgsOK(n)
  BY <1>1, <1>3 DEF WayOK, ArgsOK
<1>5. WritesOK(n)
  BY <1>1, <1>3, KeyTables DEF WritesOK
<1>6. AssignOK(n)
  <2> SUFFICES ASSUME n.kind = "assign", db[OrgKey] = "live",
                      NEW b \in Bots, NEW u \in Users, AssignKey(b, u) \in DOMAIN n.writes
               PROVE  Role(u) # "none"
    BY <1>3 DEF AssignOK
  <2>1. AssignKey(b, u) = k
    BY <1>1, <1>3, KeyNames, KeyTables
  <2>2. u = tx[p].user /\ Role(tx[p].user) # "none"
    BY <1>3, <2>1, KeyNames
  <2> QED
    BY <2>2
<1> QED
  BY <1>3, <1>4, <1>5, <1>6 DEF RequestOK, OwnerOK, CascadeOK

LEMMA BotStepsInv ==
    ASSUME TenancyInv, NEW p \in Requests,
           InsertBot(p) \/ BotMissing(p) \/ DeleteBot(p)
    PROVE  TenancyInv'
<1> DEFINE k == BotKey(tx[p].bot)
<1>1. CASE InsertBot(p)
  <2>1. tx[p].kind = "registerBot" /\ tx[p].pc = "write" /\ tx[p].bot \in Bots
    BY <1>1, OfRequest DEF InsertBot, RequestOK, ArgsOK
  <2>2. k \in BotKeys /\ k \notin AssignKeys /\ "live" \in Value(k)
    BY <2>1, KeyNames, KeyTables, KeyValues
  <2>3. CASE Flush(p, {k}, "live", "commit")
    BY <2>1, <2>2, <2>3, FlushBotRow
  <2>4. CASE Fail(p)
    BY <2>4, FailStep
  <2> QED
    BY <1>1, <2>3, <2>4 DEF InsertBot
<1>2. CASE BotMissing(p)
  BY <1>2, FailStep DEF BotMissing
<1>3. CASE DeleteBot(p)
  <2>1. /\ tx[p].kind = "deleteBot" /\ tx[p].pc = "load" /\ tx[p].bot \in Bots
        /\ Flush(p, {k}, "deleted", "commit")
    BY <1>3, OfRequest DEF DeleteBot, BotLoaded, RequestOK, ArgsOK
  <2>2. k \in BotKeys /\ k \notin AssignKeys /\ "deleted" \in Value(k)
    BY <2>1, KeyNames, KeyTables, KeyValues
  <2> QED
    BY <2>1, <2>2, FlushBotRow
<1> QED
  BY <1>1, <1>2, <1>3

LEMMA CheckAssigneeInv ==
    ASSUME TenancyInv, NEW p \in Requests, CheckAssignee(p) PROVE TenancyInv'
<1>1. CASE Role(tx[p].user) # "none" /\ Move(p, "write")
  <2>1. /\ tx[p].kind = "assign" /\ tx[p].pc = "load"
        /\ tx[p].user \in Users /\ tx[p].bot \in Bots
        /\ WritesOK(tx[p])
    BY OfRequest DEF CheckAssignee, BotLoaded, RequestOK, ArgsOK, WayOK
  <2> SUFFICES ASSUME NEW n, Moved(n, p, "write") PROVE RequestOK(n)
    BY <1>1, MoveStep DEF PCs
  <2>2. /\ n.pc = "write" /\ n.kind = tx[p].kind /\ n.late = tx[p].late
        /\ n.user = tx[p].user /\ n.bot = tx[p].bot /\ n.writes = tx[p].writes
    BY DEF Moved
  <2>3. WayOK(n) /\ ArgsOK(n) /\ WritesOK(n)
    BY <2>1, <2>2 DEF WayOK, ArgsOK, WritesOK
  <2>4. AssignOK(n)
    BY <1>1, <2>1, <2>2, KeyNames, KeyTables DEF AssignOK, WritesOK
  <2> QED
    BY <2>1, <2>2, <2>3, <2>4 DEF RequestOK, OwnerOK, CascadeOK
<1>2. CASE Fail(p)
  BY <1>2, FailStep
<1> QED
  BY <1>1, <1>2 DEF CheckAssignee

LEMMA AssignmentStepsInv ==
    ASSUME TenancyInv, NEW p \in Requests, WriteAssignment(p) \/ Unassign(p)
    PROVE  TenancyInv'
<1> DEFINE k == AssignKey(tx[p].bot, tx[p].user)
<1>1. /\ tx[p].kind \in {"assign", "unassign"} /\ tx[p].pc \in {"load", "write"}
      /\ tx[p].user \in Users /\ tx[p].bot \in Bots
      /\ AssignOK(tx[p])
  BY OfRequest DEF WriteAssignment, Unassign, BotLoaded, RequestOK, ArgsOK
<1>2. k \in AssignKeys /\ {"live", "none"} \subseteq Value(k)
  BY <1>1, KeyNames, KeyValues
<1>3. CASE WriteAssignment(p)
  <2>1. tx[p].kind = "assign" /\ tx[p].pc = "write"
    BY <1>3 DEF WriteAssignment
  <2>2. CASE Flush(p, {k}, "live", "commit")
    <3>1. Role(tx[p].user) # "none" \/ db[OrgKey] # "live"
      BY <1>1, <2>1 DEF AssignOK
    <3> QED
      BY <1>1, <1>2, <2>1, <2>2, <3>1, FlushBotRow
  <2>3. CASE Fail(p)
    BY <2>3, FailStep
  <2> QED
    BY <1>3, <2>2, <2>3 DEF WriteAssignment
<1>4. CASE Unassign(p)
  <2>1. tx[p].kind = "unassign" /\ tx[p].pc = "load"
    BY <1>4 DEF Unassign, BotLoaded
  <2>2. CASE Flush(p, {k}, "none", "commit")
    BY <1>2, <2>1, <2>2, FlushBotRow
  <2>3. CASE Fail(p)
    BY <2>3, FailStep
  <2> QED
    BY <1>4, <2>2, <2>3 DEF Unassign
<1> QED
  BY <1>3, <1>4

-----------------------------------------------------------------------------
(* Refresh tokens *)

\* A refresh or a switch flushes a row of its table.
LEMMA FlushTokenRow ==
    ASSUME TenancyInv, NEW p \in Requests, NEW pc \in {"issue", "commit"},
           tx[p].kind \in {"switch", "refresh"}, tx[p].pc \in {"write", "issue"},
           pc = "issue" => tx[p].kind = "refresh",
           NEW k \in TokenKeys, NEW v \in {"none"} \cup Users, Flush(p, {k}, v, pc)
    PROVE  TenancyInv'
<1>1. /\ tx[p].user \in Users
      /\ DOMAIN tx[p].writes \subseteq TokenKeys
      /\ \A x \in DOMAIN tx[p].writes : tx[p].writes[x] \in Value(x)
  BY OfRequest DEF RequestOK, WayOK, WritesOK, ArgsOK
<1>2. {k} \in SUBSET Keys /\ v \in Data /\ v \in Value(k) /\ pc \in PCs
  BY KeyTables, KeyValues DEF Data, Roles, PCs
<1> SUFFICES ASSUME NEW n, Flushed(n, p, {k}, v, pc) PROVE RequestOK(n)
  BY <1>2, FlushStep
<1>3. /\ n.pc = pc /\ n.kind = tx[p].kind /\ n.late = tx[p].late
      /\ pc # "commit" => n.user = tx[p].user
      /\ DOMAIN n.writes = DOMAIN tx[p].writes \cup {k} /\ n.writes[k] = v
      /\ \A x \in DOMAIN tx[p].writes : x # k => n.writes[x] = tx[p].writes[x]
  BY DEF Flushed
<1>4. WayOK(n) /\ ArgsOK(n)
  BY <1>1, <1>3 DEF WayOK, ArgsOK
<1>5. WritesOK(n)
  BY <1>1, <1>2, <1>3, KeyTables DEF WritesOK
<1> QED
  BY <1>3, <1>4, <1>5, PlainOK

LEMMA TokenStepsInv ==
    ASSUME TenancyInv, NEW p \in Requests,
           RevokeToken(p) \/ \E t \in Tokens : IssueToken(p, t)
    PROVE  TenancyInv'
<1>1. CASE RevokeToken(p)
  <2>1. tx[p].kind = "refresh" /\ tx[p].pc = "write" /\ tx[p].token \in Tokens
    BY <1>1, OfRequest DEF RevokeToken, RequestOK, ArgsOK
  <2> QED
    BY <1>1, <2>1, KeyNames, FlushTokenRow DEF RevokeToken
<1>2. ASSUME NEW t \in Tokens, IssueToken(p, t) PROVE TenancyInv'
  <2>1. tx[p].pc = "issue" /\ Flush(p, {TokenKey(t)}, tx[p].user, "commit")
    BY <1>2 DEF IssueToken
  <2>2. tx[p].kind \in {"switch", "refresh"}
    BY <2>1, OfRequest DEF RequestOK, WayOK, TxType, Kinds
  <2>3. tx[p].user \in Users /\ TokenKey(t) \in TokenKeys
    BY <2>1, <2>2, OfRequest, KeyNames DEF RequestOK, ArgsOK
  <2> QED
    BY <2>1, <2>2, <2>3, FlushTokenRow
<1> QED
  BY <1>1, <1>2

-----------------------------------------------------------------------------
(* delete_organization *)

\* The next table in the order of delete_organization.
NextTable(pc) ==
    CASE pc = "assignments" -> "bots"
      [] pc = "bots" -> "tokens"
      [] pc = "tokens" -> "members"
      [] pc = "members" -> "org"
      [] pc = "org" -> "commit"

\* A statement of the deletion, whose rows S it has still to find dead.
LEMMA FlushCascade ==
    ASSUME TenancyInv, NEW p \in Requests, NEW S \in SUBSET Keys,
           NEW pc \in PCs, NEW v \in {"none", "deleted"}, Flush(p, S, v, pc),
           tx[p].pc # "commit", pc # "assignments", pc # "idle",
           WayOK(tx[p]) => tx[p].kind = "deleteOrg" /\ pc = NextTable(tx[p].pc),
           \A k \in S : v = IF k \in BotKeys \cup {OrgKey} THEN "deleted" ELSE "none",
           OrgKey \in S <=> pc = "commit",
           \A k \in Swept(pc) \ Swept(tx[p].pc) : k \notin S => ~Alive(db[k])
    PROVE  TenancyInv'
<1>1. /\ WayOK(tx[p]) /\ WritesOK(tx[p]) /\ CascadeOK(tx[p])
      /\ tx[p].kind = "deleteOrg" /\ pc = NextTable(tx[p].pc)
      /\ tx[p].pc \in {"assignments", "bots", "tokens", "members", "org"}
  BY OfRequest DEF RequestOK, WayOK
<1>2. v \in Data
  BY DEF Data
<1> SUFFICES ASSUME NEW n, Flushed(n, p, S, v, pc) PROVE RequestOK(n)
  BY <1>2, FlushStep
<1>3. /\ n.pc = pc /\ n.kind = tx[p].kind /\ n.late = tx[p].late
      /\ n.raced = tx[p].raced
      /\ DOMAIN n.writes = DOMAIN tx[p].writes \cup S
      /\ \A k \in S : n.writes[k] = v
      /\ \A k \in DOMAIN tx[p].writes : k \notin S => n.writes[k] = tx[p].writes[k]
  BY DEF Flushed
<1>4. pc \in {"bots", "tokens", "members", "org", "commit"}
  BY <1>1 DEF NextTable
<1>5. WayOK(n) /\ ArgsOK(n)
  BY <1>1, <1>3, <1>4 DEF WayOK, ArgsOK
<1>6. WritesOK(n)
  <2>1. /\ \A k \in DOMAIN n.writes :
              n.writes[k] = IF k \in BotKeys \cup {OrgKey} THEN "deleted" ELSE "none"
    BY <1>1, <1>3 DEF WritesOK
  <2>2. DOMAIN n.writes \subseteq Keys
    BY DEF Flushed, TxType, Writes
  <2>3. \A k \in DOMAIN n.writes : n.writes[k] \in Value(k)
    <3> TAKE k \in DOMAIN n.writes
    <3>1. CASE k \in BotKeys \cup {OrgKey}
      BY <2>1, <3>1, KeyValues
    <3>2. CASE k \notin BotKeys \cup {OrgKey}
      BY <2>1, <2>2, <3>2, KeyValues DEF Keys
    <3> QED
      BY <3>1, <3>2
  <2>4. \A k \in AssignKeys : k \in DOMAIN n.writes => n.writes[k] # "live"
    BY <2>1
  <2>5. OrgKey \in DOMAIN n.writes <=> pc = "commit"
    BY <1>1, <1>3 DEF WritesOK
  <2> QED
    BY <1>1, <1>3, <2>1, <2>3, <2>4, <2>5 DEF WritesOK
<1>7. CascadeOK(n)
  <2> SUFFICES ASSUME NEW k \in Swept(pc), Alive(After(n, k)) PROVE Known(k)
    BY <1>3 DEF CascadeOK
  <2>1. k \notin S
    BY <1>3 DEF After, Alive
  <2>2. After(n, k) = After(tx[p], k)
    BY <1>3, <2>1 DEF After
  <2>3. k \notin DOMAIN tx[p].writes
    BY <1>1, <2>2 DEF After, Alive, WritesOK
  <2>4. k \in Swept(tx[p].pc)
    BY <2>1, <2>2, <2>3 DEF After
  <2> QED
    BY <1>1, <2>2, <2>4 DEF CascadeOK
<1> QED
  BY <1>1, <1>3, <1>5, <1>6, <1>7 DEF RequestOK, AssignOK, OwnerOK

LEMMA CascadeStepsInv ==
    ASSUME TenancyInv, NEW p \in Requests,
           DeleteAssignments(p) \/ DeleteBots(p) \/ RevokeTokens(p)
              \/ DeleteMembers(p) \/ DeleteOrg(p)
    PROVE  TenancyInv'
<1>1. WayOK(tx[p]) /\ tx[p].kind \in Kinds \cup {"none"}
  BY OfRequest DEF RequestOK, TxType
<1> USE SweptFacts
<1>2. /\ {"bots", "tokens", "members", "org", "commit"} \subseteq PCs
      /\ NextTable("assignments") = "bots" /\ NextTable("bots") = "tokens"
      /\ NextTable("tokens") = "members" /\ NextTable("members") = "org"
      /\ NextTable("org") = "commit"
  BY DEF PCs, NextTable
<1>3. tx[p].pc \in {"assignments", "bots", "tokens", "members", "org"} =>
         tx[p].kind = "deleteOrg"
  BY <1>1 DEF WayOK, Kinds
<1>4. CASE DeleteAssignments(p)
  <2>1. tx[p].pc = "assignments" /\ Flush(p, LiveKeys(AssignKeys), "none", "bots")
    BY <1>4 DEF DeleteAssignments
  <2>2. /\ LiveKeys(AssignKeys) \in SUBSET Keys /\ OrgKey \notin LiveKeys(AssignKeys)
        /\ \A k \in LiveKeys(AssignKeys) : k \notin BotKeys
        /\ \A k \in AssignKeys \ LiveKeys(AssignKeys) : ~Alive(db[k])
    BY KeyTables, KeyValues, OfRequest DEF LiveKeys, Alive
  <2> QED
    BY <1>2, <1>3, <2>1, <2>2, FlushCascade
<1>5. CASE DeleteBots(p)
  <2>1. tx[p].pc = "bots" /\ Flush(p, LiveKeys(BotKeys), "deleted", "tokens")
    BY <1>5 DEF DeleteBots
  <2>2. /\ LiveKeys(BotKeys) \in SUBSET Keys /\ OrgKey \notin LiveKeys(BotKeys)
        /\ LiveKeys(BotKeys) \subseteq BotKeys
        /\ \A k \in BotKeys \ LiveKeys(BotKeys) : ~Alive(db[k])
    BY KeyTables, KeyValues, OfRequest DEF LiveKeys, Alive
  <2> QED
    BY <1>2, <1>3, <2>1, <2>2, FlushCascade
<1>6. CASE RevokeTokens(p)
  <2> DEFINE S == {k \in TokenKeys : db[k] \in Users}
  <2>1. tx[p].pc = "tokens" /\ Flush(p, S, "none", "members")
    BY <1>6 DEF RevokeTokens
  <2>2. /\ S \in SUBSET Keys /\ OrgKey \notin S
        /\ \A k \in S : k \notin BotKeys
        /\ \A k \in TokenKeys \ S : ~Alive(db[k])
    BY KeyTables, KeyValues, OfRequest DEF Alive
  <2> QED
    BY <1>2, <1>3, <2>1, <2>2, FlushCascade
<1>7. CASE DeleteMembers(p)
  <2> DEFINE S == {k \in RoleKeys : db[k] # "none"}
  <2>1. tx[p].pc = "members" /\ Flush(p, S, "none", "org")
    BY <1>7 DEF DeleteMembers
  <2>2. /\ S \in SUBSET Keys /\ OrgKey \notin S
        /\ \A k \in S : k \notin BotKeys
        /\ \A k \in Keys \ {OrgKey} : k \notin TokenKeys \cup BotKeys \cup AssignKeys =>
              k \in RoleKeys
        /\ \A k \in RoleKeys \ S : ~Alive(db[k])
    BY KeyTables DEF Alive, Keys
  <2> QED
    BY <1>2, <1>3, <2>1, <2>2, FlushCascade
<1>8. CASE DeleteOrg(p)
  <2>1. tx[p].pc = "org" /\ Flush(p, {OrgKey}, "deleted", "commit")
    BY <1>8 DEF DeleteOrg
  <2> QED
    BY <1>2, <1>3, <2>1, KeyTables, FlushCascade
<1> QED
  BY <1>4, <1>5, <1>6, <1>7, <1>8

-----------------------------------------------------------------------------
(* The commit *)

\* The commit of another request leaves d as it is, but for its late.
Same(e, d) ==
    /\ e.pc = d.pc /\ e.kind = d.kind /\ e.user = d.user /\ e.role = d.role
    /\ e.bot = d.bot /\ e.token = d.token /\ e.writes = d.writes /\ e.raced = d.raced

LEMMA CommitRequests ==
    ASSUME TenancyInv, NEW p \in Requests, Commit(p)
    PROVE  /\ tx' \in [Requests -> TxType] /\ tx'[p] = Idle
           /\ \A q \in Requests : q # p =>
                 /\ Same(tx'[q], tx[q])
                 /\ tx[q].kind = "none" => tx'[q] = Idle
                 /\ tx[q].kind # "none" =>
                       tx'[q].late = (tx[q].late \/ tx[p].kind = "deleteOrg")
<1> DEFINE m(q) == [tx[q] EXCEPT !.late = @ \/ tx[p].kind = "deleteOrg"]
<1>1. tx' = [q \in Requests |-> IF q = p \/ tx[q].kind = "none" THEN Idle ELSE m(q)]
  BY DEF Commit
<1>2. ASSUME NEW q \in Requests
      PROVE  /\ m(q) \in TxType /\ Same(m(q), tx[q])
             /\ m(q).late = (tx[q].late \/ tx[p].kind = "deleteOrg")
  BY OfRequest DEF TxType, Same
<1>3. \A q \in Requests : tx[q].kind = "none" => tx[q] = Idle
  BY OfRequest DEF RequestOK, WayOK
<1> HIDE DEF m
<1>4. Idle \in TxType /\ Same(Idle, Idle)
  BY IdleOK DEF Same
<1> QED
  BY <1>1, <1>2, <1>3, <1>4

\* What the commit of p puts on record.
LEMMA CommitRaces ==
    ASSUME TenancyInv, NEW p \in Requests, Commit(p)
    PROVE  /\ races' \in [roles : BOOLEAN, missed : SUBSET Keys, door : BOOLEAN]
           /\ races'.roles => races.roles \/ tx[p].raced
           /\ (races.roles \/ tx[p].raced) /\ (\A u \in Users : db'[RoleKey(u)] # "owner")
                 => races'.roles
           /\ races'.missed = {k \in (races.missed \cup Late(p)) \ TokenKeys : Alive(db'[k])}
           /\ races'.door = (races.door \/ Late(p) \cap (RoleKeys \cup TokenKeys) # {})
<1>1. /\ races.roles \in BOOLEAN /\ races.missed \subseteq Keys /\ races.door \in BOOLEAN
      /\ tx[p].raced \in BOOLEAN
  BY OfRequest DEF TenancyInv, Typed, TxType
<1>2. Late(p) \subseteq Keys
  BY OfRequest DEF Late, TxType, Writes
<1> DEFINE M == {k \in (races.missed \cup Late(p)) \ TokenKeys : Alive(db'[k])}
           R == (races.roles \/ tx[p].raced) /\ \A u \in Users : db'[RoleKey(u)] # "owner"
           D == races.door \/ Late(p) \cap (RoleKeys \cup TokenKeys) # {}
<1>3. races' = [roles |-> R, missed |-> M, door |-> D]
  BY DEF Commit, Alive
<1>4. M \subseteq Keys /\ R \in BOOLEAN /\ D \in BOOLEAN
  BY <1>1, <1>2
<1> HIDE DEF M, R, D
<1>5. /\ races' \in [roles : BOOLEAN, missed : SUBSET Keys, door : BOOLEAN]
      /\ races'.roles = R /\ races'.missed = M /\ races'.door = D
  BY <1>3, <1>4
<1> QED
  BY <1>5 DEF R, M, D

\* What is on record stays on record as long as it is alive, and what a request
\* commits too late is put there.
LEMMA KnownAfterCommit ==
    ASSUME TenancyInv, NEW p \in Requests, Commit(p), NEW k \in Keys, Alive(db'[k]),
           Known(k) \/ k \in Late(p)
    PROVE  Known(k)'
<1>1. CASE k \in TokenKeys
  BY <1>1, CommitRaces DEF Known
<1>2. CASE k \notin TokenKeys
  BY <1>2, CommitRaces DEF Known
<1> QED
  BY <1>1, <1>2

LEMMA CommitInv ==
    ASSUME TenancyInv, NEW p \in Requests, Commit(p) PROVE TenancyInv'
<1> DEFINE c == tx[p]
<1>1. /\ c.pc = "commit" /\ c \in TxType /\ c.kind \in Kinds
      /\ WritesOK(c) /\ AssignOK(c) /\ OwnerOK(c) /\ CascadeOK(c)
      /\ \A q \in Requests \ {p} : Apart(c, tx[q]) /\ Apart(tx[q], c)
  BY OfRequest DEF Commit, RequestOK, WayOK, TxType, TenancyInv
<1>2. /\ DOMAIN c.writes \subseteq Keys
      /\ \A k \in DOMAIN c.writes : c.writes[k] \in Data
  BY <1>1 DEF TxType, Writes
<1>3. /\ db' \in [Keys -> Data]
      /\ \A k \in Keys : db'[k] = After(c, k)
  BY <1>1, <1>2, OfRequest DEF Commit, After
<1>4. /\ tx' \in [Requests -> TxType] /\ tx'[p] = Idle
      /\ \A q \in Requests : q # p =>
            /\ Same(tx'[q], tx[q])
            /\ tx[q].kind = "none" => tx'[q] = Idle
            /\ tx[q].kind # "none" =>
                  tx'[q].late = (tx[q].late \/ c.kind = "deleteOrg")
  BY CommitRequests
<1>5. /\ races' \in [roles : BOOLEAN, missed : SUBSET Keys, door : BOOLEAN]
      /\ (races.roles \/ c.raced) /\ (\A u \in Users : db'[RoleKey(u)] # "owner")
            => races'.roles
      /\ races'.missed = {k \in (races.missed \cup Late(p)) \ TokenKeys : Alive(db'[k])}
      /\ races'.door = (races.door \/ Late(p) \cap (RoleKeys \cup TokenKeys) # {})
  BY CommitRaces
<1>6. /\ c.raced => c.kind = "setRole"
      /\ db[OrgKey] \in {"live", "deleted"} /\ OrgKey \in Keys
  BY OfRequest, KeyTables, KeyValues DEF TenancyInv, Typed
<1>7. /\ db'[OrgKey] \in {"live", "deleted"}
      /\ db'[OrgKey] = "live" <=> c.kind # "deleteOrg" /\ db[OrgKey] = "live"
  BY <1>1, <1>3, <1>6 DEF After, WritesOK
<1>8. /\ \A u \in Users : RoleKey(u) \in Keys /\ RoleKey(u) \in RoleKeys
      /\ \A u \in Users : Role(u)' = After(c, RoleKey(u))
      /\ \A b \in Bots, u \in Users : AssignKey(b, u) \in AssignKeys \cap Keys
  BY <1>3, KeyNames, KeyTables DEF Role
<1>9. c.kind # "deleteOrg" => \A u \in Users : Role(u) # "none" => Role(u)' # "none"
  BY <1>1, <1>8 DEF After, WritesOK, Role
<1>10. c.kind \notin {"deleteOrg", "setRole"} =>
          \A u \in Users : Role(u) # "none" => Role(u)' = Role(u)
  BY <1>1, <1>8 DEF After, WritesOK, Role
<1> HIDE DEF c
<1>11. Typed'
  <2>1. \A k \in Keys : db'[k] \in Value(k)
    BY <1>1, <1>2, <1>3, OfRequest DEF After, WritesOK
  <2>2. \A q \in Requests : tx'[q].raced => tx'[q].kind = "setRole"
    BY <1>4, IdleOK DEF TenancyInv, Typed, Same
  <2> QED
    BY <1>3, <1>4, <1>5, <1>7, <2>1, <2>2 DEF Typed
<1>12. ASSUME NEW q \in Requests PROVE RequestOK(tx[q])'
  <2>1. CASE q = p
    <3>1. RequestOK(Idle) /\ DOMAIN Idle.writes = {} /\ Idle.kind = "none"
      BY IdleOK
    <3> QED
      BY <1>4, <2>1, <3>1 DEF RequestOK, WayOK, ArgsOK, WritesOK, AssignOK, OwnerOK,
                              CascadeOK
  <2>2. CASE q # p
    <3> SUFFICES ASSUME NEW d, d = tx'[q] PROVE RequestOK(d)'
      BY DEF RequestOK, WayOK, ArgsOK, WritesOK, AssignOK, OwnerOK,
             CascadeOK, HasOwner, Role, After, Known
    <3>1. /\ d \in TxType /\ RequestOK(d)
          /\ DOMAIN c.writes \cap DOMAIN d.writes = {}
          /\ d.kind = "setRole" /\ c.kind = "setRole" => d.raced
      <4>1. RequestOK(tx[q]) /\ Apart(c, tx[q]) /\ Apart(tx[q], c)
        BY <1>1, <2>2, OfRequest
      <4>2. Same(d, tx[q]) /\ d \in TxType
        BY <1>4, <2>2
      <4>3. d.pc = "idle" => d = Idle
        BY <1>4, <2>2, <4>1, <4>2, IdleOK DEF Same, RequestOK, WayOK
      <4>4. \A k : After(d, k) = After(tx[q], k)
        BY <4>2 DEF After, Same
      <4>5. WayOK(d) /\ ArgsOK(d) /\ WritesOK(d)
        BY <4>1, <4>2, <4>3 DEF RequestOK, WayOK, ArgsOK, WritesOK, Same
      <4>6. AssignOK(d) /\ OwnerOK(d) /\ CascadeOK(d)
        BY <4>1, <4>2, <4>4 DEF RequestOK, AssignOK, OwnerOK, CascadeOK, Same
      <4> QED
        BY <4>1, <4>2, <4>5, <4>6 DEF RequestOK, Apart, Same
    <3>2. /\ WayOK(d) /\ ArgsOK(d) /\ WritesOK(d) /\ AssignOK(d) /\ OwnerOK(d)
          /\ CascadeOK(d)
      BY <3>1 DEF RequestOK
    <3>3. \A k \in DOMAIN d.writes : k \notin DOMAIN c.writes
      BY <3>1
    <3>5. WritesOK(d)'
      <4>1. \A k \in RoleKeys : k \in DOMAIN d.writes => db'[k] = db[k]
        BY <1>3, <3>3, KeyTables DEF After
      <4> QED
        BY <3>2, <4>1 DEF WritesOK
    <3>6. AssignOK(d)'
      BY <1>7, <1>9, <3>1, <3>2 DEF AssignOK, ArgsOK, Role
    <3>7. OwnerOK(d)'
      <4> SUFFICES ASSUME d.kind = "setRole", ~d.raced, db'[OrgKey] = "live"
                   PROVE  OwnerOK(d)'
        BY DEF OwnerOK
      <4>1. c.kind \notin {"deleteOrg", "setRole"} /\ db[OrgKey] = "live"
        BY <1>7, <3>1
      <4>2. \A u \in Users : Role(u) # "none" => Role(u)' = Role(u)
        BY <1>10, <4>1
      <4>3. d.pc \in {"count", "write"} =>
               d.user \in Users /\ Role(d.user) # "none" /\ Role(d.user)' = Role(d.user)
        BY <3>2, <4>1, <4>2 DEF ArgsOK, OwnerOK
      <4>4. ASSUME d.pc = "commit", HasOwner'
            PROVE  \E u \in Users : After(d, RoleKey(u))' = "owner"
        <5>1. PICK u \in Users : Role(u)' = "owner"
          BY <4>4 DEF HasOwner
        <5>2. CASE RoleKey(u) \notin DOMAIN d.writes
          BY <5>1, <5>2 DEF After, Role
        <5>3. CASE RoleKey(u) \in DOMAIN d.writes
          <6>1. Role(u) = "owner"
            BY <1>8, <3>3, <5>1, <5>3 DEF After, Role
          <6>2. PICK v \in Users : After(d, RoleKey(v)) = "owner"
            BY <3>2, <4>1, <4>4, <6>1 DEF OwnerOK, HasOwner
          <6>3. CASE RoleKey(v) \in DOMAIN d.writes
            BY <6>2, <6>3 DEF After
          <6>4. CASE RoleKey(v) \notin DOMAIN d.writes
            <7>1. Role(v) = "owner"
              BY <6>2, <6>4 DEF After, Role
            <7>2. Role(v)' = "owner"
              BY <4>2, <7>1
            <7> QED
              BY <6>4, <7>2 DEF After, Role
          <6> QED
            BY <6>3, <6>4
        <5> QED
          BY <5>2, <5>3
      <4>5. d.pc = "write" => \/ d.role = "owner"
                              \/ Role(d.user)' # "owner"
                              \/ \E u \in Users : u # d.user /\ Role(u)' = "owner"
        BY <3>2, <4>1, <4>2, <4>3 DEF OwnerOK
      <4> QED
        BY <4>3, <4>4, <4>5 DEF OwnerOK, Role
    <3>8. CascadeOK(d)'
      <4> SUFFICES ASSUME d.kind = "deleteOrg", NEW k \in Swept(d.pc), Alive(After(d, k)')
                   PROVE  Known(k)'
        BY DEF CascadeOK
      <4>1. k \in Keys /\ k \notin DOMAIN d.writes /\ Alive(db'[k])
        BY <3>2, SweptFacts DEF WritesOK, After, Alive
      <4>2. CASE k \in DOMAIN c.writes
        <5>1. c.kind # "deleteOrg"
          BY <1>1, <1>3, <4>1, <4>2 DEF WritesOK, After, Alive
        <5>2. tx[q].kind = "deleteOrg" /\ k \in Swept(tx[q].pc)
          BY <1>4, <2>2 DEF Same
        <5>3. k \in Late(p)
          BY <4>2, <5>1, <5>2 DEF Late, Missed, c
        <5> QED
          BY <4>1, <5>3, KnownAfterCommit
      <4>3. CASE k \notin DOMAIN c.writes
        <5>1. db'[k] = db[k]
          BY <1>3, <4>1, <4>3 DEF After
        <5>2. Known(k)
          BY <3>2, <4>1, <5>1 DEF CascadeOK, After
        <5> QED
          BY <4>1, <5>2, KnownAfterCommit
      <4> QED
        BY <4>2, <4>3
    <3>9. WayOK(d)' /\ ArgsOK(d)'
      BY <3>2 DEF WayOK, ArgsOK
    <3> QED
      BY <3>5, <3>6, <3>7, <3>8, <3>9 DEF RequestOK
  <2> QED
    BY <2>1, <2>2
<1>13. \A q, r \in Requests : q # r => Apart(tx[q], tx[r])'
  BY <1>4, IdleOK DEF TenancyInv, Apart, Same
<1>14. AssignedAreMembers'
  <2> SUFFICES ASSUME db'[OrgKey] = "live", NEW b \in Bots, NEW u \in Users,
                      db'[AssignKey(b, u)] = "live"
               PROVE  Role(u)' # "none"
    BY DEF AssignedAreMembers, Role
  <2>1. Role(u) # "none"
    <3>1. CASE AssignKey(b, u) \in DOMAIN c.writes
      BY <1>1, <1>3, <1>7, <1>8, <3>1 DEF After, WritesOK, AssignOK
    <3>2. CASE AssignKey(b, u) \notin DOMAIN c.writes
      BY <1>3, <1>7, <1>8, <3>2 DEF After, TenancyInv, AssignedAreMembers
    <3> QED
      BY <3>1, <3>2
  <2> QED
    BY <1>7, <1>9, <2>1
<1>15. OwnerKept'
  <2> SUFFICES ASSUME db'[OrgKey] = "live", ~races'.roles,
                      \A u \in Users : Role(u)' # "owner"
               PROVE  FALSE
    BY DEF OwnerKept, Role
  <2>1. ~races.roles /\ ~c.raced
    BY <1>5 DEF Role
  <2>2. PICK u \in Users : Role(u) = "owner"
    BY <1>7, <2>1 DEF TenancyInv, OwnerKept
  <2>3. CASE c.kind = "setRole"
    BY <1>1, <1>7, <1>8, <2>1, <2>2, <2>3 DEF OwnerOK, HasOwner
  <2>4. CASE c.kind # "setRole"
    BY <1>7, <1>10, <2>2, <2>4
  <2> QED
    BY <2>3, <2>4
<1>16. ASSUME db'[OrgKey] = "deleted", NEW k \in Keys \ {OrgKey}, Alive(db'[k])
       PROVE  Known(k)'
  <2>1. CASE c.kind = "deleteOrg"
    <3>1. Known(k)
      BY <1>1, <1>3, <1>16, <2>1, SweptFacts DEF CascadeOK
    <3> QED
      BY <1>16, <3>1, KnownAfterCommit
  <2>2. CASE c.kind # "deleteOrg"
    <3>1. Gone /\ db[OrgKey] = "deleted"
      BY <1>6, <1>7, <1>16, <2>2 DEF TenancyInv
    <3>2. CASE k \notin DOMAIN c.writes
      BY <1>3, <1>16, <3>1, <3>2, KnownAfterCommit DEF After, Gone
    <3>3. CASE k \in DOMAIN c.writes /\ c.late
      <4>1. k \in Late(p)
        BY <2>2, <3>3 DEF Late, Missed, c
      <4> QED
        BY <1>16, <4>1, KnownAfterCommit
    <3>4. CASE k \in DOMAIN c.writes /\ ~c.late
      <4>1. c.kind \in {"switch", "refresh"} /\ races.door
        BY <1>1, <3>1, <3>4 DEF Gone, Kinds, c
      <4>2. k \in TokenKeys
        BY <1>1, <3>4, <4>1 DEF WritesOK
      <4> QED
        BY <1>16, <4>1, <4>2, KnownAfterCommit DEF Known
    <3> QED
      BY <3>2, <3>3, <3>4
  <2> QED
    BY <2>1, <2>2
<1>17. ASSUME db'[OrgKey] = "deleted", NEW q \in Requests,
              tx'[q].kind # "none", ~tx'[q].late
       PROVE  tx'[q].kind \in {"switch", "refresh"} /\ races'.door
  <2>1. /\ q # p /\ tx[q].kind = tx'[q].kind /\ tx[q].kind # "none"
        /\ ~tx[q].late /\ c.kind # "deleteOrg"
    BY <1>4, <1>17, IdleOK DEF Same
  <2>2. db[OrgKey] = "deleted"
    BY <1>6, <1>7, <1>17, <2>1
  <2> QED
    BY <1>5, <2>1, <2>2 DEF TenancyInv, Gone
<1>18. Gone' /\ DoorOK'
  BY <1>5, <1>16, <1>17 DEF Gone, DoorOK, TenancyInv
<1> QED
  BY <1>11, <1>12, <1>13, <1>14, <1>15, <1>18 DEF TenancyInv

-----------------------------------------------------------------------------
(* The beginning of a request *)

\* n is a request that has done nothing yet.
Begun(n, kind, pc, request) ==
    /\ n \in TxType /\ n.kind = kind /\ n.pc = pc
    /\ n.user = request.user /\ n.role = request.role
    /\ n.bot = request.bot /\ n.token = request.token
    /\ n.late = request.late /\ DOMAIN n.writes = {}

\* It is enough to look at the new request, if it may come in.
LEMMA BeginStep ==
    ASSUME TenancyInv, NEW p \in Requests, NEW kind \in Kinds, NEW pc \in PCs,
           NEW request \in TxType, request.writes = NoWrites,
           Begin(p, kind, pc, request),
           db[OrgKey] = "deleted" => kind \in {"switch", "refresh"} /\ races.door,
           \A n : Begun(n, kind, pc, request) => RequestOK(n)
    PROVE  TenancyInv'
<1> USE DEF TenancyInv
<1> DEFINE overlap == kind = "setRole" /\ Opens(kind)
           n == [request EXCEPT !.kind = kind, !.pc = pc, !.raced = overlap]
           m(q) == [tx[q] EXCEPT !.raced = @ \/ {kind, tx[q].kind} = {"setRole"}]
<1>1. /\ tx[p] = Idle /\ db' = db /\ races' = races
      /\ tx' = [q \in Requests |-> IF q = p THEN n ELSE m(q)]
  BY OfRequest DEF Begin, RequestOK, WayOK
<1>2. /\ n \in TxType /\ Begun(n, kind, pc, request)
      /\ n.raced = overlap
  BY NoWritesTyped DEF TxType, Begun
<1>3. ASSUME NEW q \in Requests
      PROVE  /\ m(q) \in TxType /\ m(q).pc = tx[q].pc /\ m(q).kind = tx[q].kind
             /\ m(q).user = tx[q].user /\ m(q).role = tx[q].role
             /\ m(q).bot = tx[q].bot /\ m(q).token = tx[q].token
             /\ m(q).late = tx[q].late /\ m(q).writes = tx[q].writes
             /\ m(q).raced = (tx[q].raced \/ {kind, tx[q].kind} = {"setRole"})
  BY OfRequest DEF TxType
<1>4. \A q \in Requests : tx[q].kind = "none" => m(q) = tx[q]
  <2> SUFFICES ASSUME NEW q \in Requests, tx[q].kind = "none" PROVE m(q) = tx[q]
    OBVIOUS
  <2>1. {kind, tx[q].kind} # {"setRole"}
    OBVIOUS
  <2>2. (tx[q].raced \/ {kind, tx[q].kind} = {"setRole"}) = tx[q].raced
    BY <2>1, OfRequest DEF TxType
  <2> QED
    BY <2>2, OfRequest DEF TxType
<1> HIDE DEF n, m, overlap
<1>5. /\ tx' \in [Requests -> TxType] /\ tx'[p] = n
      /\ \A q \in Requests : q # p => tx'[q] = m(q)
  BY <1>1, <1>2, <1>3
<1>6. Typed'
  <2>1. n.raced => kind = "setRole"
    BY <1>2 DEF overlap
  <2>2. \A q \in Requests : m(q).raced => m(q).kind = "setRole"
    BY <1>3 DEF Typed
  <2> QED
    BY <1>1, <1>2, <1>5, <2>1, <2>2 DEF Typed, Begun
<1>7. \A q \in Requests : RequestOK(tx[q])'
  <2> TAKE q \in Requests
  <2>1. RequestOK(tx'[q])
    <3>1. CASE q = p
      BY <1>2, <1>5, <3>1
    <3>2. CASE q # p
      <4>1. RequestOK(tx[q])
        OBVIOUS
      <4>2. m(q).pc = "idle" => m(q) = Idle
        BY <1>3, <1>4, <4>1, IdleOK DEF RequestOK, WayOK
      <4> SUFFICES ASSUME NEW d, d = m(q) PROVE RequestOK(d)
        BY <1>5, <3>2
      <4>3. /\ d.pc = tx[q].pc /\ d.kind = tx[q].kind /\ d.user = tx[q].user
            /\ d.role = tx[q].role /\ d.bot = tx[q].bot /\ d.token = tx[q].token
            /\ d.late = tx[q].late /\ d.writes = tx[q].writes
            /\ ~d.raced => ~tx[q].raced
        BY <1>3
      <4>4. WayOK(d) /\ ArgsOK(d)
        BY <4>1, <4>2, <4>3 DEF RequestOK, WayOK, ArgsOK
      <4>5. WritesOK(d) /\ AssignOK(d)
        BY <4>1, <4>3 DEF RequestOK, WritesOK, AssignOK
      <4>6. OwnerOK(d) /\ CascadeOK(d)
        <5>1. \A k : After(d, k) = After(tx[q], k)
          BY <4>3 DEF After
        <5> QED
          BY <4>1, <4>3, <5>1 DEF RequestOK, OwnerOK, CascadeOK
      <4> QED
        BY <4>4, <4>5, <4>6 DEF RequestOK
    <3> QED
      BY <3>1, <3>2
  <2> QED
    BY <1>1, <2>1, SMTT(20)
       DEF RequestOK, WayOK, ArgsOK, WritesOK, AssignOK, OwnerOK, CascadeOK,
           HasOwner, Role, After, Known
<1>8. \A q, r \in Requests : q # r => Apart(tx[q], tx[r])'
  <2> TAKE q \in Requests, r \in Requests
  <2> SUFFICES ASSUME q # r PROVE Apart(tx'[q], tx'[r])
    BY DEF Apart
  <2>1. CASE q = p
    <3>1. kind = "setRole" /\ tx[r].kind = "setRole" => n.raced
      BY <1>2 DEF overlap, Opens
    <3> QED
      BY <1>2, <1>3, <1>5, <2>1, <3>1 DEF Apart, Begun
  <2>2. CASE r = p
    <3>1. kind = "setRole" /\ tx[q].kind = "setRole" => m(q).raced
      BY <1>3
    <3> QED
      BY <1>2, <1>3, <1>5, <2>2, <3>1 DEF Apart, Begun
  <2>3. CASE q # p /\ r # p
    <3>1. Apart(tx[q], tx[r])
      OBVIOUS
    <3>2. /\ tx'[q] = m(q) /\ m(q).writes = tx[q].writes /\ m(q).kind = tx[q].kind
          /\ tx[q].raced => m(q).raced
      BY <1>3, <1>5, <2>3
    <3>3. tx'[r] = m(r) /\ m(r).writes = tx[r].writes /\ m(r).kind = tx[r].kind
      BY <1>3, <1>5, <2>3
    <3> QED
      BY <3>1, <3>2, <3>3 DEF Apart
  <2> QED
    BY <2>1, <2>2, <2>3
<1>9. AssignedAreMembers' /\ OwnerKept' /\ DoorOK'
  BY <1>1 DEF AssignedAreMembers, OwnerKept, DoorOK, Role
<1>10. Gone'
  <2>1. ASSUME db[OrgKey] = "deleted", NEW q \in Requests, tx'[q].kind # "none", ~tx'[q].late
        PROVE  tx'[q].kind \in {"switch", "refresh"} /\ races.door
    <3>1. CASE q = p
      BY <1>2, <1>5, <2>1, <3>1 DEF Begun
    <3>2. CASE q # p
      BY <1>3, <1>5, <2>1, <3>2 DEF Gone
    <3> QED
      BY <3>1, <3>2
  <2> QED
    BY <1>1, <2>1 DEF Gone, Known
<1> QED
  BY <1>6, <1>7, <1>8, <1>9, <1>10

\* A request is lawful where it begins.
LEMMA BegunOK ==
    ASSUME NEW n, NEW kind, NEW pc, NEW request, Begun(n, kind, pc, request),
           <<kind, pc>> \in {<<"addMember", "write">>, <<"setRole", "load">>,
                             <<"registerBot", "write">>, <<"deleteBot", "load">>,
                             <<"assign", "load">>, <<"unassign", "load">>,
                             <<"switch", "issue">>, <<"refresh", "write">>,
                             <<"deleteOrg", "assignments">>},
           kind \in {"addMember", "setRole", "assign", "unassign", "switch", "refresh"}
              => request.user \in Users,
           kind \in {"addMember", "setRole"} => request.role \in Roles,
           kind \in {"registerBot", "deleteBot", "assign", "unassign"} =>
              request.bot \in Bots,
           kind = "refresh" => request.token \in Tokens
    PROVE  RequestOK(n)
<1>1. WayOK(n) /\ ArgsOK(n)
  BY DEF WayOK, ArgsOK, Begun
<1>2. WritesOK(n)
  BY DEF WritesOK, Begun
<1>3. AssignOK(n) /\ OwnerOK(n) /\ CascadeOK(n)
  BY SweptFacts DEF AssignOK, OwnerOK, CascadeOK, Begun
<1> QED
  BY <1>1, <1>2, <1>3 DEF RequestOK

LEMMA BeginInv ==
    ASSUME TenancyInv, NEW p \in Requests, BeginAny(p) PROVE TenancyInv'
<1>1. Idle \in TxType /\ Idle.writes = NoWrites
  BY IdleOK DEF Idle
<1>2. {"write", "load", "issue", "assignments"} \subseteq PCs
  BY DEF PCs
<1>3. ASSUME NEW permission, NEW kind, NEW pc, NEW request,
             BeginAs(p, permission, kind, pc, request)
      PROVE  db[OrgKey] = "live" /\ Begin(p, kind, pc, request)
  BY <1>3 DEF BeginAs, Authorized
<1>4. ASSUME NEW user \in Users, NEW role \in Roles, NEW kind, NEW pc,
             \/ kind = "addMember" /\ pc = "write"
             \/ kind = "setRole" /\ pc = "load",
             BeginAs(p, "organization:manage_members", kind, pc,
                     [Idle EXCEPT !.user = user, !.role = role])
      PROVE  TenancyInv'
  <2> DEFINE x == [Idle EXCEPT !.user = user, !.role = role]
  <2>1. Begin(p, kind, pc, x) /\ db[OrgKey] = "live"
    BY <1>3, <1>4
  <2>2. x \in TxType /\ x.writes = NoWrites /\ x.user = user /\ x.role = role
    BY <1>1, <2>1 DEF TxType
  <2> HIDE DEF x
  <2>3. \A n : Begun(n, kind, pc, x) => RequestOK(n)
    BY <1>4, <2>2, BegunOK
  <2> QED
    BY <1>2, <1>4, <2>1, <2>2, <2>3, BeginStep DEF Kinds
<1>5. ASSUME NEW bot \in Bots, NEW kind \in {"registerBot", "deleteBot"},
             NEW pc, <<kind, pc>> \in {<<"registerBot", "write">>, <<"deleteBot", "load">>},
             BeginAs(p, "bot:manage", kind, pc, [Idle EXCEPT !.bot = bot])
      PROVE  TenancyInv'
  <2> DEFINE x == [Idle EXCEPT !.bot = bot]
  <2>1. Begin(p, kind, pc, x) /\ db[OrgKey] = "live"
    BY <1>3, <1>5
  <2>2. x \in TxType /\ x.writes = NoWrites /\ x.bot = bot
    BY <1>1, <2>1 DEF TxType
  <2> HIDE DEF x
  <2>3. \A n : Begun(n, kind, pc, x) => RequestOK(n)
    BY <1>5, <2>2, BegunOK
  <2> QED
    BY <1>2, <1>5, <2>1, <2>2, <2>3, BeginStep DEF Kinds
<1>6. ASSUME NEW user \in Users, NEW bot \in Bots, NEW kind \in {"assign", "unassign"},
             BeginAs(p, "bot:manage", kind, "load",
                     [Idle EXCEPT !.user = user, !.bot = bot])
      PROVE  TenancyInv'
  <2> DEFINE x == [Idle EXCEPT !.user = user, !.bot = bot]
  <2>1. Begin(p, kind, "load", x) /\ db[OrgKey] = "live"
    BY <1>3, <1>6
  <2>2. x \in TxType /\ x.writes = NoWrites /\ x.user = user /\ x.bot = bot
    BY <1>1, <2>1 DEF TxType
  <2> HIDE DEF x
  <2>3. \A n : Begun(n, kind, "load", x) => RequestOK(n)
    BY <1>6, <2>2, BegunOK
  <2> QED
    BY <1>2, <1>6, <2>1, <2>2, <2>3, BeginStep DEF Kinds
<1>7. ASSUME BeginAs(p, "organization:delete", "deleteOrg", "assignments", Idle)
      PROVE  TenancyInv'
  <2> DEFINE x == Idle
  <2>1. Begin(p, "deleteOrg", "assignments", x) /\ db[OrgKey] = "live"
    BY <1>3, <1>7
  <2>2. x \in TxType /\ x.writes = NoWrites
    BY <1>1, <2>1 DEF TxType
  <2> HIDE DEF x
  <2>3. \A n : Begun(n, "deleteOrg", "assignments", x) => RequestOK(n)
    BY <2>2, BegunOK
  <2> QED
    BY <1>2, <2>1, <2>2, <2>3, BeginStep DEF Kinds
<1>8. ASSUME NEW user \in Users, Role(user) # "none",
             Begin(p, "switch", "issue", [Idle EXCEPT !.user = user])
      PROVE  TenancyInv'
  <2> DEFINE x == [Idle EXCEPT !.user = user]
  <2>1. x \in TxType /\ x.writes = NoWrites /\ x.user = user
    BY <1>1 DEF TxType
  <2>2. db[OrgKey] = "deleted" => races.door
    <3>1. /\ RoleKey(user) \in RoleKeys /\ RoleKey(user) \in Keys \ {OrgKey}
          /\ RoleKey(user) \notin TokenKeys
      BY KeyNames, KeyTables
    <3>2. Alive(db[RoleKey(user)])
      BY <1>8, <3>1, KeyValues, OfRequest DEF Alive, Role, Roles
    <3> QED
      BY <3>1, <3>2 DEF TenancyInv, Gone, DoorOK, Known
  <2> HIDE DEF x
  <2>3. \A n : Begun(n, "switch", "issue", x) => RequestOK(n)
    BY <2>1, BegunOK
  <2> QED
    BY <1>2, <1>8, <2>1, <2>2, <2>3, BeginStep DEF Kinds, x
<1>9. ASSUME NEW token \in Tokens, db[TokenKey(token)] \in Users,
             Begin(p, "refresh", "write",
                   [Idle EXCEPT !.token = token, !.user = db[TokenKey(token)]])
      PROVE  TenancyInv'
  <2> DEFINE x == [Idle EXCEPT !.token = token, !.user = db[TokenKey(token)]]
  <2>1. /\ x \in TxType /\ x.writes = NoWrites
        /\ x.user \in Users /\ x.token = token
    BY <1>1, <1>9 DEF TxType
  <2>2. db[OrgKey] = "deleted" => races.door
    <3>1. TokenKey(token) \in TokenKeys /\ TokenKey(token) \in Keys \ {OrgKey}
      BY KeyNames, KeyTables
    <3>2. Alive(db[TokenKey(token)])
      BY <1>9, TenancyAssumption DEF Alive
    <3> QED
      BY <3>1, <3>2 DEF TenancyInv, Gone, Known
  <2> HIDE DEF x
  <2>3. \A n : Begun(n, "refresh", "write", x) => RequestOK(n)
    BY <2>1, BegunOK
  <2> QED
    BY <1>2, <1>9, <2>1, <2>2, <2>3, BeginStep DEF Kinds, x
<1>10. BeginMembers(p) => TenancyInv'
  <2> DEFINE x(user, role) == [Idle EXCEPT !.user = user, !.role = role]
  <2>1. ASSUME NEW user \in Users, NEW role \in Roles,
               BeginAs(p, "organization:manage_members", "addMember", "write", x(user, role))
        PROVE  TenancyInv'
    BY <1>4, <2>1
  <2>2. ASSUME NEW user \in Users, NEW role \in Roles,
               BeginAs(p, "organization:manage_members", "setRole", "load", x(user, role))
        PROVE  TenancyInv'
    BY <1>4, <2>2
  <2> QED
    BY <2>1, <2>2 DEF BeginMembers
<1>11. BeginBots(p) => TenancyInv'
  BY <1>5 DEF BeginBots
<1>12. BeginAssignments(p) => TenancyInv'
  BY <1>6 DEF BeginAssignments
<1>13. BeginDelete(p) \/ BeginSwitch(p) \/ BeginRefresh(p) => TenancyInv'
  BY <1>7, <1>8, <1>9 DEF BeginDelete, BeginSwitch, BeginRefresh
<1> QED
  BY <1>10, <1>11, <1>12, <1>13 DEF BeginAny

-----------------------------------------------------------------------------
(* The theorems *)

\* Every step preserves the invariant.
LEMMA TenancyNext == TenancyInv /\ [Next]_vars => TenancyInv'
<1> SUFFICES ASSUME TenancyInv, [Next]_vars PROVE TenancyInv'
  OBVIOUS
<1>1. CASE UNCHANGED vars
  BY <1>1
     DEF vars, TenancyInv, Typed, RequestOK, WayOK, ArgsOK, WritesOK, AssignOK,
         OwnerOK, CascadeOK, Known, HasOwner, Role, After, Apart, AssignedAreMembers,
         OwnerKept, Gone, DoorOK
<1>2. ASSUME NEW p \in Requests, Step(p) PROVE TenancyInv'
  BY <1>2, InsertMemberInv, LoadMemberInv, CountOwnersInv, UpdateRoleInv, BotStepsInv,
     CheckAssigneeInv, AssignmentStepsInv, TokenStepsInv, CascadeStepsInv, CommitInv
     DEF Step
<1>3. ASSUME NEW p \in Requests, RequestDies(p) PROVE TenancyInv'
  BY <1>3, FailStep DEF RequestDies
<1> QED
  BY <1>1, <1>2, <1>3, BeginInv DEF Next

\* The inductive invariant holds: what each request knows of the rows it is
\* about to write is still true when it writes them.
THEOREM TenancyInvariant == Spec => []TenancyInv
BY TenancyInit, TenancyNext, PTL DEF Spec

\* An assignment in an active organization is a member's, whatever overlaps
\* (assign_bot, delete_organization).
THEOREM AssigneesAreMembers == Spec => []AssignedAreMembers
<1>1. TenancyInv => AssignedAreMembers
  BY DEF TenancyInv
<1> QED
  BY <1>1, TenancyInvariant, PTL

\* An owner remains as long as changes of roles do not overlap
\* (update_member_role).
THEOREM OwnerRemains == Spec => []OwnerKept
<1>1. TenancyInv => OwnerKept
  BY DEF TenancyInv
<1> QED
  BY <1>1, TenancyInvariant, PTL

\* Whatever overlaps with the deletion of an organization, nothing in it outlives
\* the deletion but what was committed too late for it to find, and what refresh
\* tokens come of that (delete_organization).
THEOREM CascadeIsComplete == Spec => []CascadeComplete
<1>1. TenancyInv => CascadeComplete
  <2> SUFFICES ASSUME TenancyInv, db[OrgKey] = "deleted" PROVE CascadeComplete
    BY DEF CascadeComplete
  <2> USE KeyTables, KeyNames
  <2>1. \A k \in Keys \ {OrgKey} : Alive(db[k]) => Known(k)
    BY DEF TenancyInv, Gone
  <2>2. LiveKeys(BotKeys \cup AssignKeys) \subseteq races.missed
    BY <2>1 DEF LiveKeys, Alive, Known
  <2>3. ASSUME NEW u \in Users, Role(u) # "none" PROVE RoleKey(u) \in races.missed
    <3>1. Alive(db[RoleKey(u)])
      BY <2>3, KeyValues, OfRequest DEF Alive, Role, Roles, TenancyInv, Typed
    <3> QED
      BY <2>1, <3>1 DEF Known
  <2>4. ASSUME NEW t \in Tokens, db[TokenKey(t)] \in Users PROVE races.door
    <3>1. Alive(db[TokenKey(t)])
      BY <2>4, TenancyAssumption DEF Alive
    <3> QED
      BY <2>1, <3>1 DEF Known
  <2> QED
    BY <2>2, <2>3, <2>4 DEF CascadeComplete
<1> QED
  BY <1>1, TenancyInvariant, PTL

\* Requests and rows have the shape that the handlers of organizations,
\* members, bots, assignments and tokens give them.
THEOREM TenancyTyped == Spec => []TypeOK
<1>1. TenancyInv => TypeOK
  <2> SUFFICES ASSUME TenancyInv PROVE TypeOK
    OBVIOUS
  <2>1. ASSUME NEW p \in Requests
        PROVE  /\ tx[p].pc \in PCs
               /\ tx[p].kind \in Kinds \cup {"none"}
               /\ tx[p].pc = "idle" => tx[p] = Idle
               /\ \A k \in DOMAIN tx[p].writes :
                     k \in Keys /\ tx[p].writes[k] \in Value(k)
    BY OfRequest DEF RequestOK, WayOK, WritesOK, TxType, Writes
  <2> QED
    BY <2>1 DEF TypeOK, TenancyInv, Typed
<1> QED
  BY <1>1, TenancyInvariant, PTL

=============================================================================
