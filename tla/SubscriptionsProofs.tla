------------------------ MODULE SubscriptionsProofs ------------------------
(***************************************************************************)
(* Proofs about destinations and subscriptions, for any number of bots,    *)
(* chats, registrations of a chat, updates in flight and dashboard         *)
(* requests, whatever they are and however they overlap, fail and are      *)
(* redelivered.                                                            *)
(***************************************************************************)
EXTENDS Subscriptions, FiniteSetTheorems, TLAPS

-----------------------------------------------------------------------------
(* The inductive invariant *)

NoLive(c) == \A d \in Dests : ChatOf(d) = c => dest[d] # "live"

\* No message of the bot gets through to the chat.
Muted(b, c) ==
    \A d \in Dests :
        ChatOf(d) = c /\ dest[d] = "live" => sub[<<b, d>>] # "active"

\* A request to subscribe the chat to the bot, under way or to be redelivered.
Contends(q, b, c) == Rival(q.kind) /\ q.bot = b /\ q.chat = c

\* What a request holds fits its kind and how far it is.
ReqOK(q) ==
    /\ q.pc = "idle" <=> q.kind = "none"
    /\ q.want = "active" => Rival(q.kind)
    /\ q.want = "deleted" <=> q.kind = "delete"
    /\ q.kind = "stop" => q.want = "unsubscribed"
    /\ q.kind # "none" => q.chat \in Chats
    /\ q.kind \notin {"none", "delete"} => q.bot \in Bots
    /\ q.dest # NoDest => ChatOf(q.dest) = q.chat
    /\ q.kind \in {"set", "delete"} => q.dest # NoDest
    /\ q.pc \in {"sub", "write", "list", "cascade", "commit"} => q.dest # NoDest
    /\ q.pc \in {"list", "cascade"} => q.kind = "delete"
    /\ q.pc = "insert" => q.kind \in {"start", "create"}
    /\ q.kind # "delete" => q.subWrites \subseteq {q.bot}
    /\ q.subWrites # {} => q.pc \in {"cascade", "commit"}
    /\ q.destWrite = "insert" =>
          q.pc \in {"write", "commit"} /\ q.kind \in {"start", "create"}
    /\ q.destWrite = "delete" => q.pc = "commit"
    /\ q.kind = "delete" =>
          /\ q.pc \in {"lookup", "list", "cascade", "commit"}
          /\ q.pc = "commit" <=> q.destWrite = "delete"
    /\ q.destWrite = "delete" => q.kind = "delete"
    /\ q.kind = "stop" /\ q.pc = "write" => q.seen # "none"

\* The row of a request exists unless it is the one to insert it; then the
\* chat is free and no other request is about to take it.
RowOK(p, q) ==
    /\ q.dest # NoDest => (dest[q.dest] = "none" <=> q.destWrite = "insert")
    /\ q.destWrite = "insert" =>
          /\ NoLive(q.chat)
          /\ \A r \in Requests \ {p} :
                tx[r].destWrite = "insert" => tx[r].chat # q.chat

\* A /stop nobody contests leaves the chat muted once it commits.
StopOK(q) ==
    q.kind = "stop" /\ ~q.contested =>
        /\ q.pc \in {"sub", "write", "commit"} =>
              \A d \in Dests :
                  ChatOf(d) = q.chat /\ dest[d] = "live" /\ d # q.dest =>
                      sub[<<q.bot, d>>] # "active"
        /\ q.pc = "commit" /\ q.bot \notin q.subWrites => sub[<<q.bot, q.dest>>] # "active"

Uncontested(q) ==
    q.kind = "stop" /\ ~q.contested =>
        \A r \in Requests : ~Contends(tx[r], q.bot, q.chat)

RowsInv ==
    /\ \A d, e \in Dests :
          dest[d] = "live" /\ dest[e] = "live" /\ ChatOf(d) = ChatOf(e) => d = e
    /\ \A b \in Bots, d \in Dests :
          /\ dest[d] = "none" => sub[<<b, d>>] = "none"
          /\ sub[<<b, d>>] = "deleted" => dest[d] = "deleted"

OptOutInv ==
    \A b \in Bots, c \in Chats : <<b, c>> \in optOut =>
        Muted(b, c) /\ \A r \in Requests : ~Contends(tx[r], b, c)

SubsInv ==
    /\ TypeOK
    /\ \A p \in Requests :
          ReqOK(tx[p]) /\ RowOK(p, tx[p]) /\ StopOK(tx[p]) /\ Uncontested(tx[p])
    /\ RowsInv
    /\ OptOutInv

-----------------------------------------------------------------------------
(* Helpers *)

\* LiveDests and Sendable of the model in terms of NoLive and Muted.
LEMMA LiveFacts ==
    /\ \A c : LiveDests(c) = {} <=> NoLive(c)
    /\ \A b, c : ~Sendable(b, c) <=> Muted(b, c)
BY DEF LiveDests, NoLive, Sendable, Muted

\* The invariant implies the safety properties of the model.
LEMMA SubsInvImplies ==
    SubsInv => OneLiveDestination /\ TombstonesOffLiveDests /\ OptOutHonoured
<1> SUFFICES ASSUME SubsInv
             PROVE OneLiveDestination /\ TombstonesOffLiveDests /\ OptOutHonoured
  OBVIOUS
<1>1. TombstonesOffLiveDests
  BY DEF SubsInv, RowsInv, TombstonesOffLiveDests
<1>2. OptOutHonoured
  BY LiveFacts DEF SubsInv, OptOutInv, OptOutHonoured
<1>3. ASSUME NEW c \in Chats PROVE Cardinality(LiveDests(c)) <= 1
  <2>1. CASE LiveDests(c) = {}
    BY <2>1, FS_EmptySet
  <2>2. ASSUME NEW d \in LiveDests(c) PROVE Cardinality(LiveDests(c)) <= 1
    <3>1. LiveDests(c) = {d}
      BY DEF LiveDests, SubsInv, RowsInv
    <3>2. Cardinality({d}) = 1
      BY FS_Singleton
    <3> QED
      BY <3>1, <3>2
  <2> QED
    BY <2>1, <2>2
<1> QED
  BY <1>1, <1>2, <1>3 DEF OneLiveDestination

\* A request that is not under way holds nothing.
LEMMA IdleOK == Idle \in Request /\ ReqOK(Idle)
BY DEF Idle, Request, PCs, Kinds, UpdateKinds, ReqOK, Rival

\* Where requests begin.
LEMMA SubsInitInv == Init => SubsInv
<1> SUFFICES ASSUME Init PROVE SubsInv
  OBVIOUS
<1>1. tx = [p \in Requests |-> Idle] /\ optOut = {} /\ faults = 0
  BY DEF Init
<1>2. TypeOK
  <2>1. tx \in [Requests -> Request]
    BY <1>1, IdleOK
  <2>2. bots \in [Bots -> {"open", "closed", "deleted"}]
    BY DEF Init
  <2>3. dest \in [Dests -> {"none", "live", "deleted"}]
    BY DEF Init
  <2>4. sub \in [Bots \X Dests -> SubStatus \cup {"none", "deleted"}]
    BY DEF Init
  <2>5. faults \in 0..MaxFaults /\ optOut \subseteq Bots \X Chats
    BY <1>1, SubscriptionsAssumption
  <2> QED
    BY <2>1, <2>2, <2>3, <2>4, <2>5 DEF TypeOK
<1>3. RowsInv
  <2>1. ASSUME NEW d \in Dests, NEW e \in Dests, dest[d] = "live", dest[e] = "live",
               ChatOf(d) = ChatOf(e)
        PROVE d = e
    <3>1. d[2] = 1 /\ e[2] = 1
      BY <2>1 DEF Init
    <3> QED
      BY <2>1, <3>1 DEF Dests, ChatOf
  <2>2. ASSUME NEW b \in Bots, NEW d \in Dests
        PROVE /\ dest[d] = "none" => sub[<<b, d>>] = "none"
              /\ sub[<<b, d>>] # "deleted"
    <3>1. sub \in [Bots \X Dests -> SubStatus \cup {"none"}]
      BY DEF Init
    <3>2. sub[<<b, d>>] \in SubStatus \cup {"none"}
      BY <3>1
    <3> QED
      BY <3>2 DEF Init, SubStatus
  <2> QED
    BY <2>1, <2>2 DEF RowsInv
<1>4. ASSUME NEW p \in Requests
      PROVE ReqOK(tx[p]) /\ RowOK(p, tx[p]) /\ StopOK(tx[p]) /\ Uncontested(tx[p])
  <2>1. tx[p] = Idle /\ Idle.kind = "none" /\ Idle.dest = NoDest /\ Idle.destWrite = "none"
    BY <1>1 DEF Idle
  <2> QED
    BY <2>1, IdleOK DEF RowOK, StopOK, Uncontested
<1> QED
  BY <1>1, <1>2, <1>3, <1>4 DEF SubsInv, OptOutInv

\* Every record of a request after a statement is typed and has these fields.
LEMMA RequestFields ==
    ASSUME NEW q \in Request
    PROVE /\ q.pc \in PCs /\ q.kind \in Kinds \cup {"none"}
          /\ q.bot \in Bots \cup {"none"} /\ q.chat \in Chats \cup {"none"}
          /\ q.dest \in Dests \cup {NoDest}
          /\ q.seen \in SubStatus \cup {"none"}
          /\ q.want \in SubStatus \cup {"deleted", "none"}
          /\ q.destWrite \in {"none", "insert", "delete"}
          /\ q.subWrites \subseteq Bots /\ q.todo \subseteq Bots
          /\ q.contested \in BOOLEAN
BY DEF Request

-----------------------------------------------------------------------------
(* Steps of one request that write nothing others can see *)

\* The opt-outs after a step: unchanged, or one more for a /stop that ends.
OptOutStep(q) ==
    \/ optOut' = optOut
    \/ /\ q.kind = "stop" /\ ~q.contested /\ q.bot \in Bots /\ q.chat \in Chats
       /\ optOut' = optOut \cup {<<q.bot, q.chat>>}

\* The request keeps its kind or is over.
Continues(q, next) ==
    \/ next.kind = "none"
    \/ /\ next.kind = q.kind /\ next.bot = q.bot /\ next.chat = q.chat
       /\ next.contested = q.contested

LEMMA LocalStep ==
    ASSUME SubsInv, NEW p \in Requests, NEW next \in Request,
           tx' = [tx EXCEPT ![p] = next], UNCHANGED <<bots, dest, sub>>,
           faults' \in 0..MaxFaults,
           ReqOK(next), RowOK(p, next), StopOK(next),
           Continues(tx[p], next), OptOutStep(tx[p]),
           optOut' # optOut => Muted(tx[p].bot, tx[p].chat)
    PROVE  SubsInv'
<1>1. TypeOK'
  <2>1. tx' \in [Requests -> Request]
    BY DEF SubsInv, TypeOK
  <2>2. optOut' \subseteq Bots \X Chats
    BY DEF SubsInv, TypeOK, OptOutStep
  <2> QED
    BY <2>1, <2>2 DEF SubsInv, TypeOK
<1>2. /\ tx \in [Requests -> Request]
      /\ tx'[p] = next /\ \A q \in Requests \ {p} : tx'[q] = tx[q]
  BY DEF SubsInv, TypeOK
<1>3. RowsInv'
  BY DEF SubsInv, RowsInv
<1>4. \A q \in Requests : \A b, c : Contends(tx'[q], b, c) => Contends(tx[q], b, c)
  BY <1>2 DEF Continues, Contends, Rival
<1>5. ASSUME NEW q \in Requests PROVE ReqOK(tx'[q])
  BY <1>2 DEF SubsInv
<1>6. ASSUME NEW q \in Requests PROVE RowOK(q, tx[q])'
  <2>1. CASE q = p
    BY <1>2, <2>1 DEF RowOK, NoLive
  <2>2. CASE q # p
    <3>1. RowOK(q, tx[q]) /\ tx'[q] = tx[q]
      BY <1>2, <2>2 DEF SubsInv
    <3>2. next.destWrite = "insert" /\ tx[q].destWrite = "insert" => next.chat # tx[q].chat
      BY <2>2 DEF RowOK
    <3> QED
      BY <1>2, <2>2, <3>1, <3>2 DEF RowOK, NoLive
  <2> QED
    BY <2>1, <2>2
<1>7. ASSUME NEW q \in Requests PROVE StopOK(tx[q])'
  <2>1. CASE q = p
    BY <1>2, <2>1 DEF StopOK
  <2>2. CASE q # p
    BY <1>2, <2>2 DEF SubsInv, StopOK
  <2> QED
    BY <2>1, <2>2
<1>8. ASSUME NEW q \in Requests PROVE Uncontested(tx[q])'
  <2>1. Uncontested(tx[q])
    BY DEF SubsInv
  <2>2. CASE q = p
    BY <1>2, <1>4, <2>1, <2>2 DEF Uncontested, Continues
  <2>3. CASE q # p
    BY <1>2, <1>4, <2>1, <2>3 DEF Uncontested
  <2> QED
    BY <2>2, <2>3
<1>9. OptOutInv'
  <2> SUFFICES ASSUME NEW b \in Bots, NEW c \in Chats, <<b, c>> \in optOut'
               PROVE  Muted(b, c)' /\ \A r \in Requests : ~Contends(tx'[r], b, c)
    BY DEF OptOutInv
  <2>1. CASE <<b, c>> \in optOut
    <3>1. Muted(b, c) /\ \A r \in Requests : ~Contends(tx[r], b, c)
      BY <2>1 DEF SubsInv, OptOutInv
    <3> QED
      BY <1>4, <3>1 DEF Muted
  <2>2. CASE <<b, c>> \notin optOut
    <3>1. b = tx[p].bot /\ c = tx[p].chat /\ tx[p].kind = "stop" /\ ~tx[p].contested
      BY <2>2 DEF OptOutStep
    <3>2. \A r \in Requests : ~Contends(tx[r], b, c)
      BY <3>1 DEF SubsInv, Uncontested
    <3>3. Muted(b, c)
      BY <2>2, <3>1
    <3> QED
      BY <1>4, <3>2, <3>3 DEF Muted
  <2> QED
    BY <2>1, <2>2
<1> QED
  BY <1>1, <1>3, <1>5, <1>6, <1>7, <1>8, <1>9 DEF SubsInv

\* A request that ends, answered or not, holds nothing any more.
Over(q, next) ==
    \/ next = Idle
    \/ /\ q.kind \in UpdateKinds
       /\ next = [Idle EXCEPT !.pc = "failed", !.kind = q.kind, !.bot = q.bot,
                              !.chat = q.chat, !.want = q.want,
                              !.contested = q.contested]

LEMMA OverOK ==
    ASSUME SubsInv, NEW p \in Requests, NEW next, Over(tx[p], next)
    PROVE  /\ next \in Request /\ ReqOK(next) /\ Continues(tx[p], next)
           /\ next.dest = NoDest /\ next.destWrite = "none"
           /\ next.pc \notin {"sub", "write", "commit"}
<1>1. tx[p] \in Request /\ ReqOK(tx[p])
  BY DEF SubsInv, TypeOK
<1>2. CASE next = Idle
  BY <1>2, IdleOK DEF Idle, Continues
<1>3. CASE next # Idle
  <2>1. /\ tx[p].kind \in UpdateKinds
        /\ next = [Idle EXCEPT !.pc = "failed", !.kind = tx[p].kind, !.bot = tx[p].bot,
                               !.chat = tx[p].chat, !.want = tx[p].want,
                               !.contested = tx[p].contested]
    BY <1>3 DEF Over
  <2>2. next = [pc |-> "failed", kind |-> tx[p].kind, bot |-> tx[p].bot,
                chat |-> tx[p].chat, dest |-> NoDest, seen |-> "none",
                want |-> tx[p].want, destWrite |-> "none", subWrites |-> {},
                todo |-> {}, contested |-> tx[p].contested]
    BY <2>1 DEF Idle
  <2>3. tx[p].contested \in BOOLEAN
    BY <1>1 DEF Request
  <2>4. next \in Request
    BY <1>1, <2>2, <2>3, RequestFields, Zenon DEF Request, PCs
  <2>5. ReqOK(next)
    <3>1. /\ next.pc = "failed" /\ next.kind = tx[p].kind /\ next.want = tx[p].want
          /\ next.bot = tx[p].bot /\ next.chat = tx[p].chat /\ next.dest = NoDest
          /\ next.destWrite = "none" /\ next.subWrites = {}
      BY <2>2
    <3>2. tx[p].kind \notin {"none", "set", "delete"}
      BY <2>1 DEF UpdateKinds
    <3> QED
      BY <1>1, <3>1, <3>2 DEF ReqOK, Rival
  <2>6. Continues(tx[p], next)
    BY <2>2 DEF Continues
  <2> QED
    BY <2>2, <2>4, <2>5, <2>6
<1> QED
  BY <1>2, <1>3

\* A request ends without a commit.
LEMMA EndInv ==
    ASSUME SubsInv, NEW p \in Requests, NEW next, Over(tx[p], next),
           tx' = [tx EXCEPT ![p] = next], UNCHANGED <<bots, dest, sub>>,
           faults' \in 0..MaxFaults, OptOutStep(tx[p]),
           optOut' # optOut => Muted(tx[p].bot, tx[p].chat)
    PROVE  SubsInv'
<1>1. /\ next \in Request /\ ReqOK(next) /\ Continues(tx[p], next)
      /\ next.dest = NoDest /\ next.destWrite = "none"
      /\ next.pc \notin {"sub", "write", "commit"}
  BY OverOK
<1>2. RowOK(p, next) /\ StopOK(next)
  BY <1>1 DEF RowOK, StopOK
<1> QED
  BY <1>1, <1>2, LocalStep

-----------------------------------------------------------------------------
(* The commit *)

\* What a commit does to every row.
LEMMA AppliedRows ==
    ASSUME TypeOK, NEW p \in Requests, tx[p].dest \in Dests, Applied(p)
    PROVE  /\ dest' \in [Dests -> {"none", "live", "deleted"}]
           /\ sub' \in [Bots \X Dests -> SubStatus \cup {"none", "deleted"}]
           /\ \A d \in Dests : d # tx[p].dest => dest'[d] = dest[d]
           /\ dest'[tx[p].dest] = CASE tx[p].destWrite = "insert" -> "live"
                                    [] tx[p].destWrite = "delete" -> "deleted"
                                    [] OTHER -> dest[tx[p].dest]
           /\ \A b \in Bots, d \in Dests :
                 sub'[<<b, d>>] = IF d = tx[p].dest /\ b \in tx[p].subWrites
                                     /\ sub[<<b, d>>] # "deleted"
                                  THEN tx[p].want ELSE sub[<<b, d>>]
<1>1. /\ dest \in [Dests -> {"none", "live", "deleted"}]
      /\ sub \in [Bots \X Dests -> SubStatus \cup {"none", "deleted"}]
      /\ tx[p].want \in SubStatus \cup {"deleted", "none"}
  BY RequestFields DEF TypeOK
<1>2. \A s \in Bots \X Dests :
         sub'[s] = IF s[2] = tx[p].dest /\ s[1] \in tx[p].subWrites /\ sub[s] # "deleted"
                   THEN tx[p].want ELSE sub[s]
  BY DEF Applied
<1>3. sub' \in [Bots \X Dests -> SubStatus \cup {"none", "deleted"}]
  <2>1. \A s \in Bots \X Dests : sub'[s] \in SubStatus \cup {"none", "deleted"}
    BY <1>1, <1>2
  <2> QED
    BY <2>1 DEF Applied
<1>4. dest' = [dest EXCEPT ![tx[p].dest] =
                 CASE tx[p].destWrite = "insert" -> "live"
                   [] tx[p].destWrite = "delete" -> "deleted"
                   [] OTHER -> @]
  BY DEF Applied
<1>5. \A b \in Bots, d \in Dests :
         sub'[<<b, d>>] = IF d = tx[p].dest /\ b \in tx[p].subWrites
                             /\ sub[<<b, d>>] # "deleted"
                          THEN tx[p].want ELSE sub[<<b, d>>]
  BY <1>2
<1> QED
  BY <1>1, <1>3, <1>4, <1>5

\* After the commit of a /stop nobody contests, the chat is muted; the commit
\* of any other request unmutes a chat only for the bot it subscribes it to.
LEMMA CommitMutes ==
    ASSUME SubsInv, NEW p \in Requests, tx[p].pc = "commit", Applied(p)
    PROVE  /\ tx[p].kind = "stop" /\ ~tx[p].contested =>
                 \A b \in Bots, c \in Chats :
                    b = tx[p].bot /\ c = tx[p].chat => Muted(b, c)'
           /\ \A b \in Bots, c \in Chats :
                 Muted(b, c) /\ ~Contends(tx[p], b, c) => Muted(b, c)'
<1>1. /\ TypeOK /\ RowsInv
      /\ tx[p] \in Request /\ ReqOK(tx[p]) /\ RowOK(p, tx[p]) /\ StopOK(tx[p])
  BY DEF SubsInv, TypeOK
<1>2. tx[p].dest \in Dests /\ ChatOf(tx[p].dest) = tx[p].chat
  BY <1>1, RequestFields DEF ReqOK
<1>3. /\ \A d \in Dests : d # tx[p].dest => dest'[d] = dest[d]
      /\ dest'[tx[p].dest] = CASE tx[p].destWrite = "insert" -> "live"
                               [] tx[p].destWrite = "delete" -> "deleted"
                               [] OTHER -> dest[tx[p].dest]
      /\ \A b \in Bots, d \in Dests :
            sub'[<<b, d>>] = IF d = tx[p].dest /\ b \in tx[p].subWrites
                                /\ sub[<<b, d>>] # "deleted"
                             THEN tx[p].want ELSE sub[<<b, d>>]
  BY <1>1, <1>2, AppliedRows
<1>4. ASSUME tx[p].kind = "stop", ~tx[p].contested, NEW b \in Bots, NEW c \in Chats,
             b = tx[p].bot, c = tx[p].chat
      PROVE  Muted(b, c)'
  <2>1. tx[p].destWrite = "none" /\ tx[p].want = "unsubscribed"
    BY <1>1, <1>4, RequestFields DEF ReqOK
  <2>2. dest'[tx[p].dest] = dest[tx[p].dest]
    BY <1>3, <2>1
  <2>3. ASSUME NEW d \in Dests, ChatOf(d) = c, dest'[d] = "live"
        PROVE  sub'[<<b, d>>] # "active"
    BY <1>1, <1>3, <1>4, <2>1, <2>2, <2>3 DEF StopOK
  <2> QED
    BY <2>3 DEF Muted
<1>5. ASSUME NEW b \in Bots, NEW c \in Chats, Muted(b, c), ~Contends(tx[p], b, c),
             NEW d \in Dests, ChatOf(d) = c, dest'[d] = "live"
      PROVE  sub'[<<b, d>>] # "active"
  <2>1. CASE d # tx[p].dest
    BY <1>3, <1>5, <2>1 DEF Muted
  <2>2. CASE d = tx[p].dest
    <3>1. sub[<<b, d>>] # "active"
      <4>1. CASE dest[d] = "live"
        BY <1>5, <4>1 DEF Muted
      <4>2. CASE dest[d] # "live"
        <5>1. dest[d] = "none"
          <6>1. tx[p].destWrite = "insert"
            BY <1>3, <1>5, <2>2, <4>2
          <6>2. tx[p].dest # NoDest
            BY <1>2, SubscriptionsAssumption DEF Dests
          <6> QED
            BY <1>1, <2>2, <6>1, <6>2 DEF RowOK
        <5> QED
          BY <1>1, <5>1 DEF RowsInv
      <4> QED
        BY <4>1, <4>2
    <3>2. b \in tx[p].subWrites => tx[p].want # "active"
      BY <1>1, <1>2, <1>5, <2>2 DEF ReqOK, Contends, Rival
    <3> QED
      BY <1>3, <3>1, <3>2
  <2> QED
    BY <2>1, <2>2
<1>6. \A b \in Bots, c \in Chats :
         Muted(b, c) /\ ~Contends(tx[p], b, c) => Muted(b, c)'
  BY <1>5 DEF Muted
<1> QED
  BY <1>4, <1>6

LEMMA CommitInv ==
    ASSUME SubsInv, NEW p \in Requests, tx[p].pc = "commit", Applied(p),
           NEW next, Over(tx[p], next), tx' = [tx EXCEPT ![p] = next],
           bots' = bots, faults' \in 0..MaxFaults, OptOutStep(tx[p])
    PROVE  SubsInv'
<1>1. /\ TypeOK /\ RowsInv
      /\ tx[p] \in Request /\ ReqOK(tx[p]) /\ RowOK(p, tx[p]) /\ StopOK(tx[p])
  BY DEF SubsInv, TypeOK
<1>2. tx[p].dest \in Dests /\ ChatOf(tx[p].dest) = tx[p].chat
  BY <1>1, RequestFields DEF ReqOK
<1>3. /\ dest' \in [Dests -> {"none", "live", "deleted"}]
      /\ sub' \in [Bots \X Dests -> SubStatus \cup {"none", "deleted"}]
      /\ \A d \in Dests : d # tx[p].dest => dest'[d] = dest[d]
      /\ dest'[tx[p].dest] = CASE tx[p].destWrite = "insert" -> "live"
                               [] tx[p].destWrite = "delete" -> "deleted"
                               [] OTHER -> dest[tx[p].dest]
      /\ \A b \in Bots, d \in Dests :
            sub'[<<b, d>>] = IF d = tx[p].dest /\ b \in tx[p].subWrites
                                /\ sub[<<b, d>>] # "deleted"
                             THEN tx[p].want ELSE sub[<<b, d>>]
  BY <1>1, <1>2, AppliedRows
<1>4. /\ next \in Request /\ ReqOK(next) /\ Continues(tx[p], next)
      /\ next.dest = NoDest /\ next.destWrite = "none"
      /\ next.pc \notin {"sub", "write", "commit"}
  BY OverOK
<1>5. /\ tx \in [Requests -> Request]
      /\ tx'[p] = next /\ \A q \in Requests \ {p} : tx'[q] = tx[q]
  BY DEF SubsInv, TypeOK
<1>6. TypeOK'
  <2>1. tx' \in [Requests -> Request]
    BY <1>4, <1>5
  <2>2. optOut' \subseteq Bots \X Chats
    BY <1>1 DEF TypeOK, OptOutStep
  <2> QED
    BY <1>1, <1>3, <2>1, <2>2 DEF TypeOK
<1>7. \A q \in Requests : \A b, c : Contends(tx'[q], b, c) => Contends(tx[q], b, c)
  BY <1>4, <1>5 DEF Continues, Contends, Rival
<1>8. /\ dest[tx[p].dest] = "none" <=> tx[p].destWrite = "insert"
      /\ tx[p].want = "deleted" <=> tx[p].destWrite = "delete"
  BY <1>1, <1>2, SubscriptionsAssumption DEF RowOK, ReqOK
<1>9. RowsInv'
  <2>1. ASSUME NEW d \in Dests, NEW e \in Dests, dest'[d] = "live", dest'[e] = "live",
               ChatOf(d) = ChatOf(e)
        PROVE  d = e
    <3>1. CASE tx[p].destWrite = "insert"
      <4>1. ASSUME NEW f \in Dests, f # tx[p].dest, dest'[f] = "live"
            PROVE  ChatOf(f) # ChatOf(tx[p].dest)
        BY <1>1, <1>2, <1>3, <3>1, <4>1 DEF RowOK, NoLive
      <4>2. CASE d = tx[p].dest \/ e = tx[p].dest
        BY <2>1, <4>1, <4>2
      <4>3. CASE d # tx[p].dest /\ e # tx[p].dest
        BY <1>1, <1>3, <2>1, <4>3 DEF RowsInv
      <4> QED
        BY <4>2, <4>3
    <3>2. CASE tx[p].destWrite # "insert"
      <4>1. dest[d] = "live" /\ dest[e] = "live"
        BY <1>3, <2>1, <3>2
      <4> QED
        BY <1>1, <2>1, <4>1 DEF RowsInv
    <3> QED
      BY <3>1, <3>2
  <2>2. ASSUME NEW b \in Bots, NEW d \in Dests
        PROVE  /\ dest'[d] = "none" => sub'[<<b, d>>] = "none"
               /\ sub'[<<b, d>>] = "deleted" => dest'[d] = "deleted"
    <3>1. /\ dest[d] = "none" => sub[<<b, d>>] = "none"
          /\ sub[<<b, d>>] = "deleted" => dest[d] = "deleted"
      BY <1>1 DEF RowsInv
    <3>2. CASE d # tx[p].dest
      BY <1>3, <3>1, <3>2
    <3>3. CASE d = tx[p].dest
      BY <1>3, <1>8, <3>1, <3>3
    <3> QED
      BY <3>2, <3>3
  <2> QED
    BY <2>1, <2>2 DEF RowsInv
<1>10. ASSUME NEW q \in Requests PROVE ReqOK(tx'[q])
  BY <1>4, <1>5 DEF SubsInv
<1>11. ASSUME NEW q \in Requests PROVE RowOK(q, tx[q])'
  <2>1. CASE q = p
    BY <1>4, <1>5, <2>1 DEF RowOK
  <2>2. CASE q # p
    <3>1. RowOK(q, tx[q]) /\ tx'[q] = tx[q] /\ ReqOK(tx[q]) /\ tx[q] \in Request
      BY <1>5, <2>2 DEF SubsInv
    <3>2. tx[q].dest # NoDest => (dest'[tx[q].dest] = "none" <=> tx[q].destWrite = "insert")
      <4> SUFFICES ASSUME tx[q].dest # NoDest
                   PROVE  dest'[tx[q].dest] = "none" <=> tx[q].destWrite = "insert"
        OBVIOUS
      <4>1. tx[q].dest \in Dests /\ ChatOf(tx[q].dest) = tx[q].chat
        BY <3>1, RequestFields DEF ReqOK
      <4>2. tx[p].destWrite = "insert" /\ tx[q].destWrite = "insert" =>
               tx[q].dest # tx[p].dest
        BY <1>1, <1>2, <2>2, <4>1 DEF RowOK
      <4>3. dest[tx[q].dest] = "none" <=> tx[q].destWrite = "insert"
        BY <3>1 DEF RowOK
      <4>4. dest'[tx[q].dest] = "none" => dest[tx[q].dest] = "none"
        BY <1>3, <4>1
      <4>5. dest[tx[q].dest] = "none" => dest'[tx[q].dest] = "none"
        BY <1>3, <1>8, <4>1, <4>2, <4>3
      <4> QED
        BY <4>3, <4>4, <4>5
    <3>3. ASSUME tx[q].destWrite = "insert", NEW d \in Dests, ChatOf(d) = tx[q].chat
          PROVE  dest'[d] # "live"
      <4>1. dest[d] # "live"
        BY <3>1, <3>3 DEF RowOK, NoLive
      <4>2. tx[p].destWrite = "insert" => d # tx[p].dest
        BY <1>1, <1>2, <2>2, <3>3 DEF RowOK
      <4> QED
        BY <1>3, <4>1, <4>2
    <3> QED
      BY <1>4, <1>5, <3>1, <3>2, <3>3 DEF RowOK, NoLive
  <2> QED
    BY <2>1, <2>2
<1>12. ASSUME NEW q \in Requests PROVE StopOK(tx[q])'
  <2>1. CASE q = p
    BY <1>4, <1>5, <2>1 DEF StopOK
  <2>2. CASE q # p
    <3> SUFFICES ASSUME tx[q].kind = "stop", ~tx[q].contested,
                        tx[q].pc \in {"sub", "write", "commit"}
                 PROVE  StopOK(tx[q])'
      BY <1>5, <2>2 DEF StopOK
    <3>1. /\ tx'[q] = tx[q] /\ ReqOK(tx[q]) /\ RowOK(q, tx[q]) /\ StopOK(tx[q])
          /\ Uncontested(tx[q]) /\ tx[q] \in Request
      BY <1>5, <2>2 DEF SubsInv
    <3>2. tx[q].dest \in Dests /\ ChatOf(tx[q].dest) = tx[q].chat
      BY <3>1, RequestFields DEF ReqOK
    <3>3. ~Contends(tx[p], tx[q].bot, tx[q].chat)
      BY <3>1 DEF Uncontested
    <3>4. CASE tx[q].bot \in Bots
      <4>1. ASSUME NEW d \in Dests, ChatOf(d) = tx[q].chat
            PROVE  sub[<<tx[q].bot, d>>] # "active" => sub'[<<tx[q].bot, d>>] # "active"
        <5>1. d = tx[p].dest /\ tx[q].bot \in tx[p].subWrites => tx[p].want # "active"
          BY <1>1, <1>2, <3>3, <4>1 DEF ReqOK, Contends, Rival
        <5> QED
          BY <1>3, <3>4, <5>1
      <4>2. ASSUME NEW d \in Dests, ChatOf(d) = tx[q].chat, dest'[d] = "live",
                   d # tx[q].dest
            PROVE  sub[<<tx[q].bot, d>>] # "active"
        <5>1. CASE dest[d] = "live"
          BY <3>1, <4>2, <5>1 DEF StopOK
        <5>2. CASE dest[d] # "live"
          <6>1. d = tx[p].dest /\ dest[d] = "none"
            BY <1>3, <1>8, <4>2, <5>2
          <6> QED
            BY <1>1, <3>4, <6>1 DEF RowsInv
        <5> QED
          BY <5>1, <5>2
      <4> QED
        BY <3>1, <3>2, <4>1, <4>2 DEF StopOK
    <3>5. tx[q].bot \in Bots
      BY <3>1 DEF ReqOK
    <3> QED
      BY <3>4, <3>5
  <2> QED
    BY <2>1, <2>2
<1>13. ASSUME NEW q \in Requests PROVE Uncontested(tx[q])'
  <2>1. Uncontested(tx[q])
    BY DEF SubsInv
  <2>2. CASE q = p
    BY <1>4, <1>5, <1>7, <2>1, <2>2 DEF Uncontested, Continues
  <2>3. CASE q # p
    BY <1>5, <1>7, <2>1, <2>3 DEF Uncontested
  <2> QED
    BY <2>2, <2>3
<1>14. OptOutInv'
  <2> SUFFICES ASSUME NEW b \in Bots, NEW c \in Chats, <<b, c>> \in optOut'
               PROVE  Muted(b, c)' /\ \A r \in Requests : ~Contends(tx'[r], b, c)
    BY DEF OptOutInv
  <2>1. CASE <<b, c>> \in optOut
    <3>1. Muted(b, c) /\ \A r \in Requests : ~Contends(tx[r], b, c)
      BY <2>1 DEF SubsInv, OptOutInv
    <3> QED
      BY <1>7, <3>1, CommitMutes
  <2>2. CASE <<b, c>> \notin optOut
    <3>1. b = tx[p].bot /\ c = tx[p].chat /\ tx[p].kind = "stop" /\ ~tx[p].contested
      BY <2>2 DEF OptOutStep
    <3>2. \A r \in Requests : ~Contends(tx[r], b, c)
      BY <3>1 DEF SubsInv, Uncontested
    <3>3. Muted(b, c)'
      BY <3>1, CommitMutes
    <3> QED
      BY <1>7, <3>2, <3>3
  <2> QED
    BY <2>1, <2>2
<1> QED
  BY <1>6, <1>9, <1>10, <1>11, <1>12, <1>13, <1>14 DEF SubsInv

-----------------------------------------------------------------------------
(* Requests begin *)

LEMMA BeginInv ==
    ASSUME SubsInv, NEW p \in Requests, NEW kind \in Kinds, NEW b \in Bots \cup {"none"},
           NEW c \in Chats, NEW d \in Dests \cup {NoDest},
           NEW want \in SubStatus \cup {"deleted", "none"},
           d # NoDest => ChatOf(d) = c /\ dest[d] # "none",
           kind \in {"set", "delete"} => d # NoDest,
           kind # "delete" => b \in Bots,
           want = "active" => Rival(kind),
           want = "deleted" <=> kind = "delete",
           kind = "stop" => want = "unsubscribed",
           Begin(p, kind, b, c, d, want)
    PROVE  SubsInv'
<1> DEFINE same == {q \in Requests : tx[q].bot = b /\ tx[q].chat = c}
           rivals == \E q \in same : Rival(tx[q].kind)
           new == [Idle EXCEPT !.pc = "lookup", !.kind = kind, !.bot = b, !.chat = c,
                               !.dest = d, !.want = want,
                               !.contested = (kind = "stop" /\ rivals)]
           Stopped(q) == Rival(kind) /\ q \in same /\ tx[q].kind = "stop"
<1>1. /\ TypeOK /\ RowsInv /\ OptOutInv /\ tx[p].pc = "idle"
      /\ UNCHANGED <<bots, dest, sub, faults>>
      /\ optOut' = IF Rival(kind) THEN optOut \ {<<b, c>>} ELSE optOut
  BY DEF SubsInv, Begin
<1>2. tx' = [q \in Requests |-> IF q = p THEN new
                                ELSE IF Stopped(q) THEN [tx[q] EXCEPT !.contested = TRUE]
                                     ELSE tx[q]]
  BY Zenon DEF Begin
<1>3. (kind = "stop" /\ rivals) \in BOOLEAN
  OBVIOUS
<1>4. /\ new.pc = "lookup" /\ new.kind = kind /\ new.bot = b /\ new.chat = c
      /\ new.dest = d /\ new.want = want /\ new.destWrite = "none"
      /\ new.subWrites = {}
      /\ new.contested <=> kind = "stop" /\ rivals
  BY DEF Idle
<1>5. new \in Request
  <2>1. ASSUME NEW x \in BOOLEAN
        PROVE  [Idle EXCEPT !.pc = "lookup", !.kind = kind, !.bot = b, !.chat = c,
                            !.dest = d, !.want = want, !.contested = x] \in Request
    BY DEF Idle, Request, PCs
  <2> QED
    BY <1>3, <2>1, Zenon
<1>6. tx'[p] = new
  BY <1>2
<1> HIDE DEF new
<1>7. ASSUME NEW q \in Requests \ {p}
      PROVE  /\ tx'[q] \in Request
             /\ tx'[q].pc = tx[q].pc /\ tx'[q].kind = tx[q].kind /\ tx'[q].bot = tx[q].bot
             /\ tx'[q].chat = tx[q].chat /\ tx'[q].dest = tx[q].dest
             /\ tx'[q].seen = tx[q].seen /\ tx'[q].want = tx[q].want
             /\ tx'[q].destWrite = tx[q].destWrite
             /\ tx'[q].subWrites = tx[q].subWrites
             /\ ~tx'[q].contested => ~tx[q].contested /\ ~Stopped(q)
  <2>1. tx[q] \in Request
    BY <1>1 DEF TypeOK
  <2>2. CASE Stopped(q)
    <3>1. tx'[q] = [tx[q] EXCEPT !.contested = TRUE]
      BY <1>2, <2>2
    <3> QED
      BY <2>1, <3>1 DEF Request
  <2>3. CASE ~Stopped(q)
    <3>1. tx'[q] = tx[q]
      BY <1>2, <2>3
    <3> QED
      BY <2>1, <2>3, <3>1
  <2> QED
    BY <2>2, <2>3
<1>8. TypeOK'
  <2>1. tx' \in [Requests -> Request]
    <3>1. \A q \in Requests : tx'[q] \in Request
      BY <1>5, <1>6, <1>7
    <3> QED
      BY <1>2, <3>1
  <2> QED
    BY <1>1, <2>1 DEF TypeOK
<1>9. RowsInv'
  BY <1>1 DEF RowsInv
<1>10. ASSUME NEW q \in Requests PROVE ReqOK(tx'[q])
  <2>1. CASE q = p
    BY <1>4, <1>6, <2>1 DEF ReqOK, Kinds, UpdateKinds
  <2>2. CASE q # p
    <3>1. ReqOK(tx[q])
      BY DEF SubsInv
    <3> QED
      BY <1>7, <2>2, <3>1 DEF ReqOK, Rival
  <2> QED
    BY <2>1, <2>2
<1>11. ASSUME NEW q \in Requests PROVE RowOK(q, tx[q])'
  <2>1. CASE q = p
    BY <1>1, <1>4, <1>6, <2>1 DEF RowOK
  <2>2. CASE q # p
    <3>1. RowOK(q, tx[q])
      BY DEF SubsInv
    <3>2. \A r \in Requests : tx'[r].destWrite = "insert" =>
             tx[r].destWrite = "insert" /\ tx'[r].chat = tx[r].chat
      BY <1>4, <1>6, <1>7
    <3> QED
      BY <1>1, <1>7, <2>2, <3>1, <3>2 DEF RowOK, NoLive
  <2> QED
    BY <2>1, <2>2
<1>12. ASSUME NEW q \in Requests PROVE StopOK(tx[q])'
  <2>1. CASE q = p
    BY <1>4, <1>6, <2>1 DEF StopOK
  <2>2. CASE q # p
    <3>1. StopOK(tx[q])
      BY DEF SubsInv
    <3> QED
      BY <1>1, <1>7, <2>2, <3>1 DEF StopOK
  <2> QED
    BY <2>1, <2>2
<1>13. \A q \in Requests \ {p} : \A e, f : Contends(tx'[q], e, f) <=> Contends(tx[q], e, f)
  BY <1>7 DEF Contends, Rival
<1>14. \A e, f : Contends(tx'[p], e, f) <=> Rival(kind) /\ e = b /\ f = c
  BY <1>4, <1>6 DEF Contends, Rival
<1>15. ASSUME NEW q \in Requests PROVE Uncontested(tx[q])'
  <2>1. CASE q = p
    <3>1. \A r \in Requests \ {p} : Contends(tx[r], b, c) => r \in same /\ Rival(tx[r].kind)
      BY DEF Contends
    <3> QED
      BY <1>4, <1>6, <1>13, <1>14, <2>1, <3>1 DEF Uncontested, Rival
  <2>2. CASE q # p
    <3>1. Uncontested(tx[q])
      BY DEF SubsInv
    <3> QED
      BY <1>7, <1>13, <1>14, <2>2, <3>1 DEF Uncontested
  <2> QED
    BY <2>1, <2>2
<1>16. OptOutInv'
  BY <1>1, <1>13, <1>14 DEF OptOutInv, Muted
<1> QED
  BY <1>8, <1>9, <1>10, <1>11, <1>12, <1>15, <1>16 DEF SubsInv

LEMMA BeginNextInv == SubsInv /\ BeginNext => SubsInv'
<1> SUFFICES ASSUME SubsInv, BeginNext PROVE SubsInv'
  OBVIOUS
<1>1. ASSUME NEW u \in Updates, NEW command \in Commands, NEW type \in ChatTypes,
             NEW b \in Bots, NEW c \in Chats, Receive(u, command, type, b, c)
      PROVE  SubsInv'
  <2> DEFINE kind == Asked(command, type)
             want == CASE kind = "start" -> "active" [] kind = "stop" -> "unsubscribed"
                       [] OTHER -> "none"
  <2>1. kind \in UpdateKinds
    BY DEF Asked, Commands, UpdateKinds
  <2>2. Begin(u, kind, b, c, NoDest, want)
    BY <1>1 DEF Receive
  <2>3. /\ want \in SubStatus \cup {"deleted", "none"} /\ want # "deleted"
        /\ want = "active" => kind = "start"
        /\ kind = "stop" => want = "unsubscribed"
    BY <2>1 DEF SubStatus
  <2> HIDE DEF kind, want
  <2> QED
    BY <2>1, <2>2, <2>3, BeginInv DEF Requests, Kinds, UpdateKinds, Rival
<1>2. ASSUME NEW a \in Admins, NEW b \in Bots, NEW c \in Chats, BeginCreate(a, b, c)
      PROVE  SubsInv'
  BY <1>2, BeginInv DEF BeginCreate, Requests, Kinds, SubStatus, Rival
<1>3. ASSUME NEW a \in Admins, NEW b \in Bots, NEW d \in Dests, NEW status \in SubStatus,
             BeginSet(a, b, d, status)
      PROVE  SubsInv'
  <2>1. ChatOf(d) \in Chats /\ d # NoDest
    BY SubscriptionsAssumption DEF Dests, ChatOf
  <2> QED
    BY <1>3, <2>1, BeginInv DEF BeginSet, Requests, Kinds, SubStatus, Rival
<1>4. ASSUME NEW a \in Admins, NEW d \in Dests, BeginDelete(a, d)
      PROVE  SubsInv'
  <2>1. ChatOf(d) \in Chats /\ d # NoDest
    BY SubscriptionsAssumption DEF Dests, ChatOf
  <2> QED
    BY <1>4, <2>1, BeginInv DEF BeginDelete, Requests, Kinds, SubStatus, Rival
<1> QED
  BY <1>1, <1>2, <1>3, <1>4 DEF BeginNext

-----------------------------------------------------------------------------
(* Requests go on *)

LEMMA RequestFacts ==
    ASSUME SubsInv, NEW p \in Requests
    PROVE  /\ TypeOK /\ RowsInv /\ tx \in [Requests -> Request]
           /\ tx[p] \in Request /\ ReqOK(tx[p]) /\ RowOK(p, tx[p]) /\ StopOK(tx[p])
           /\ faults \in 0..MaxFaults
           /\ Over(tx[p], Idle)
BY SubscriptionsAssumption DEF SubsInv, TypeOK, Over

LEMMA FailInv ==
    ASSUME SubsInv, NEW p \in Requests, Fail(p)
    PROVE  SubsInv'
<1>1. Over(tx[p], Unanswered(p))
  BY Zenon DEF Over, Unanswered
<1>2. /\ tx' = [tx EXCEPT ![p] = Unanswered(p)] /\ faults' = faults
      /\ UNCHANGED <<bots, dest, sub>> /\ optOut' = optOut
  BY DEF Fail
<1> QED
  BY <1>1, <1>2, RequestFacts, EndInv DEF OptOutStep

LEMMA DoneInv ==
    ASSUME SubsInv, NEW p \in Requests, Done(p),
           tx[p].kind = "stop" /\ ~tx[p].contested => Muted(tx[p].bot, tx[p].chat)
    PROVE  SubsInv'
<1>1. /\ tx' = [tx EXCEPT ![p] = Idle] /\ UNCHANGED <<bots, dest, sub, faults>>
      /\ optOut' # optOut => tx[p].kind = "stop" /\ ~tx[p].contested
  BY DEF Done, Wish
<1>2. OptOutStep(tx[p])
  BY RequestFacts DEF Done, Wish, OptOutStep, ReqOK
<1> QED
  BY <1>1, <1>2, RequestFacts, EndInv

LEMMA MoveInv ==
    ASSUME SubsInv, NEW p \in Requests, NEW pc, Move(p, pc),
           tx[p].pc \in {"failed", "lookup", "find"},
           \/ pc \in {"lookup", "find"} /\ tx[p].kind # "delete"
           \/ pc = "insert" /\ tx[p].kind \in {"start", "create"}
           \/ pc = "sub" /\ tx[p].kind = "set"
           \/ pc = "list" /\ tx[p].kind = "delete"
    PROVE  SubsInv'
<1> DEFINE next == [tx[p] EXCEPT !.pc = pc]
<1>1. /\ next \in Request /\ next.pc = pc
      /\ next.kind = tx[p].kind /\ next.bot = tx[p].bot /\ next.chat = tx[p].chat
      /\ next.dest = tx[p].dest /\ next.seen = tx[p].seen /\ next.want = tx[p].want
      /\ next.destWrite = tx[p].destWrite /\ next.subWrites = tx[p].subWrites
      /\ next.contested = tx[p].contested
  BY RequestFacts DEF Request, PCs
<1>2. tx' = [tx EXCEPT ![p] = next] /\ UNCHANGED <<bots, dest, sub, optOut, faults>>
  BY DEF Move
<1> HIDE DEF next
<1>3. ReqOK(next)
  BY <1>1, RequestFacts, RequestFields DEF ReqOK, Rival
<1>4. RowOK(p, next)
  BY <1>1, RequestFacts DEF RowOK
<1>5. StopOK(next)
  BY <1>1 DEF StopOK
<1> QED
  BY <1>1, <1>2, <1>3, <1>4, <1>5, RequestFacts, LocalStep DEF Continues, OptOutStep

LEMMA RedeliverInv ==
    ASSUME SubsInv, NEW p \in Requests, Redeliver(p)
    PROVE  SubsInv'
<1>1. tx[p].kind # "delete"
  BY RequestFacts DEF ReqOK, Redeliver
<1> QED
  BY <1>1, MoveInv DEF Redeliver

LEMMA LookupInv ==
    ASSUME SubsInv, NEW p \in Requests, Lookup(p)
    PROVE  SubsInv'
<1>1. CASE Fail(p)
  BY <1>1, FailInv
<1>2. CASE Start(p)
  BY <1>2, DoneInv, MoveInv DEF Start, Lookup
<1>3. CASE tx[p].kind = "other" /\ Done(p)
  BY <1>3, DoneInv
<1>4. CASE \/ tx[p].kind \in {"stop", "status", "create"} /\ Move(p, "find")
           \/ tx[p].kind = "set" /\ Move(p, "sub")
           \/ tx[p].kind = "delete" /\ Move(p, "list")
  BY <1>4, MoveInv DEF Lookup
<1> QED
  BY <1>1, <1>2, <1>3, <1>4 DEF Lookup

LEMMA FoundInv ==
    ASSUME SubsInv, NEW p \in Requests, tx[p].pc = "find",
           tx[p].kind \in {"start", "stop", "status"},
           NEW d \in LiveDests(tx[p].chat), Found(p, d)
    PROVE  SubsInv'
<1> DEFINE next == [tx[p] EXCEPT !.pc = "sub", !.dest = d]
<1>1. d \in Dests /\ ChatOf(d) = tx[p].chat /\ dest[d] = "live"
  BY DEF LiveDests
<1>2. /\ next \in Request /\ next.pc = "sub"
      /\ next.kind = tx[p].kind /\ next.bot = tx[p].bot /\ next.chat = tx[p].chat
      /\ next.dest = d /\ next.seen = tx[p].seen /\ next.want = tx[p].want
      /\ next.destWrite = tx[p].destWrite /\ next.subWrites = tx[p].subWrites
      /\ next.contested = tx[p].contested
  BY <1>1, RequestFacts, ZenonT(40) DEF Request, PCs
<1>3. tx' = [tx EXCEPT ![p] = next] /\ UNCHANGED <<bots, dest, sub, optOut, faults>>
  BY RequestFacts DEF Found
<1> HIDE DEF next
<1>4. ReqOK(next) /\ next.destWrite = "none"
  <2>1. next.destWrite = "none"
    BY <1>2, RequestFacts, RequestFields DEF ReqOK
  <2>2. next.subWrites = {} /\ next.dest # NoDest
    BY <1>1, <1>2, RequestFacts, SubscriptionsAssumption DEF ReqOK, Dests
  <2> QED
    BY <1>1, <1>2, <2>1, <2>2, RequestFacts DEF ReqOK, Rival
<1>5. RowOK(p, next)
  BY <1>1, <1>2, <1>4 DEF RowOK
<1>6. StopOK(next)
  <2>1. ASSUME NEW e \in Dests, ChatOf(e) = next.chat, dest[e] = "live"
        PROVE  e = next.dest
    <3>1. RowsInv
      BY RequestFacts
    <3> QED
      BY <1>1, <1>2, <2>1, <3>1 DEF RowsInv
  <2> QED
    BY <1>2, <2>1 DEF StopOK
<1> QED
  BY <1>2, <1>3, <1>4, <1>5, <1>6, RequestFacts, LocalStep DEF Continues, OptOutStep

LEMMA FindDestInv ==
    ASSUME SubsInv, NEW p \in Requests, FindDest(p)
    PROVE  SubsInv'
<1>1. CASE FindOrCreate(p)
  BY <1>1, FoundInv, MoveInv DEF FindOrCreate, FindDest
<1>2. CASE FindToReply(p)
  <2>1. CASE LiveDests(tx[p].chat) = {} /\ Done(p)
    <3>1. Muted(tx[p].bot, tx[p].chat)
      BY <2>1 DEF Muted, LiveDests
    <3> QED
      BY <2>1, <3>1, DoneInv
  <2>2. CASE \E d \in LiveDests(tx[p].chat) : Found(p, d)
    BY <1>2, <2>2, FoundInv DEF FindToReply, FindDest
  <2> QED
    BY <1>2, <2>1, <2>2 DEF FindToReply
<1>3. CASE FindDuplicate(p)
  BY <1>3, FailInv, MoveInv DEF FindDuplicate, FindDest
<1> QED
  BY <1>1, <1>2, <1>3 DEF FindDest

LEMMA InsertDestInv ==
    ASSUME SubsInv, NEW p \in Requests, NEW d \in Dests, InsertDest(p, d)
    PROVE  SubsInv'
<1> DEFINE next == [tx[p] EXCEPT !.pc = "write", !.dest = d, !.destWrite = "insert"]
<1>1. /\ tx[p].pc = "insert" /\ ChatOf(d) = tx[p].chat /\ dest[d] = "none"
      /\ NoLive(tx[p].chat)
      /\ \A q \in Requests \ {p} : tx[q].destWrite = "insert" => tx[q].chat # tx[p].chat
  BY LiveFacts DEF InsertDest, ChatBusy
<1>2. /\ next \in Request /\ next.pc = "write"
      /\ next.kind = tx[p].kind /\ next.bot = tx[p].bot /\ next.chat = tx[p].chat
      /\ next.dest = d /\ next.seen = tx[p].seen /\ next.want = tx[p].want
      /\ next.destWrite = "insert" /\ next.subWrites = tx[p].subWrites
      /\ next.contested = tx[p].contested
  BY RequestFacts, ZenonT(40) DEF Request, PCs
<1>3. tx' = [tx EXCEPT ![p] = next] /\ UNCHANGED <<bots, dest, sub, optOut, faults>>
  BY RequestFacts DEF InsertDest
<1> HIDE DEF next
<1>4. next.kind \in {"start", "create"}
  BY <1>1, <1>2, RequestFacts DEF ReqOK
<1>5. ReqOK(next)
  <2>1. next.subWrites = {} /\ next.dest # NoDest
    BY <1>1, <1>2, RequestFacts, SubscriptionsAssumption DEF ReqOK, Dests
  <2> QED
    BY <1>1, <1>2, <1>4, <2>1, RequestFacts DEF ReqOK, Rival
<1>6. RowOK(p, next)
  BY <1>1, <1>2 DEF RowOK
<1>7. StopOK(next)
  BY <1>4 DEF StopOK
<1> QED
  BY <1>2, <1>3, <1>5, <1>6, <1>7, RequestFacts, LocalStep DEF Continues, OptOutStep

\* The row of the subscription was read.
LEMMA SelectedInv ==
    ASSUME SubsInv, NEW p \in Requests, NEW writes \in BOOLEAN, tx[p].pc = "sub",
           Selected(p, writes),
           tx[p].kind = "stop" =>
              /\ Visible(tx[p].bot, tx[p].dest)
              /\ ~writes => sub[<<tx[p].bot, tx[p].dest>>] # "active"
    PROVE  SubsInv'
<1> DEFINE pc == IF writes THEN "write" ELSE "commit"
           seen == IF Visible(tx[p].bot, tx[p].dest)
                   THEN sub[<<tx[p].bot, tx[p].dest>>] ELSE "none"
           next == [tx[p] EXCEPT !.pc = pc, !.seen = seen]
<1>1. /\ seen \in SubStatus \cup {"none"}
      /\ Visible(tx[p].bot, tx[p].dest) => seen # "none"
  BY DEF Visible, SubStatus
<1>2. tx' = [tx EXCEPT ![p] = next] /\ UNCHANGED <<bots, dest, sub, optOut, faults>>
  BY RequestFacts DEF Selected
<1>3. pc \in {"write", "commit"} /\ (pc = "commit" => ~writes)
  OBVIOUS
<1> HIDE DEF pc, seen
<1>4. /\ next \in Request /\ next.pc = pc
      /\ next.kind = tx[p].kind /\ next.bot = tx[p].bot /\ next.chat = tx[p].chat
      /\ next.dest = tx[p].dest /\ next.seen = seen /\ next.want = tx[p].want
      /\ next.destWrite = tx[p].destWrite /\ next.subWrites = tx[p].subWrites
      /\ next.contested = tx[p].contested
  BY <1>1, <1>3, RequestFacts, ZenonT(40) DEF Request, PCs
<1> HIDE DEF next
<1>5. /\ tx[p].kind \notin {"none", "delete"} /\ tx[p].dest # NoDest
      /\ tx[p].destWrite = "none" /\ tx[p].subWrites = {}
  BY RequestFacts, RequestFields DEF ReqOK
<1>6. ReqOK(next)
  BY <1>1, <1>3, <1>4, <1>5, RequestFacts DEF ReqOK, Rival
<1>7. RowOK(p, next)
  BY <1>4, RequestFacts DEF RowOK
<1>8. StopOK(next)
  BY <1>3, <1>4, RequestFacts DEF StopOK
<1> QED
  BY <1>2, <1>4, <1>6, <1>7, <1>8, RequestFacts, LocalStep DEF Continues, OptOutStep

LEMMA SelectSubInv ==
    ASSUME SubsInv, NEW p \in Requests, SelectSub(p)
    PROVE  SubsInv'
<1>1. tx[p].pc = "sub"
  BY DEF SelectSub
<1>2. CASE ActivateSub(p)
  BY <1>1, <1>2, SelectedInv DEF ActivateSub
<1>3. CASE UnsubscribeSub(p)
  <2>1. CASE Visible(tx[p].bot, tx[p].dest)
    <3>1. /\ Selected(p, sub[<<tx[p].bot, tx[p].dest>>] # tx[p].want)
          /\ tx[p].kind = "stop" /\ tx[p].want = "unsubscribed"
      BY <1>3, <2>1, RequestFacts DEF UnsubscribeSub, ReqOK
    <3> QED
      BY <1>1, <2>1, <3>1, SelectedInv
  <2>2. CASE ~Visible(tx[p].bot, tx[p].dest)
    <3>1. Done(p) /\ tx[p].kind = "stop"
      BY <1>3, <2>2 DEF UnsubscribeSub
    <3>2. sub[<<tx[p].bot, tx[p].dest>>] # "active"
      BY <2>2 DEF Visible, SubStatus
    <3>3. ~tx[p].contested => Muted(tx[p].bot, tx[p].chat)
      BY <1>1, <3>1, <3>2, RequestFacts DEF StopOK, Muted
    <3> QED
      BY <3>1, <3>3, DoneInv
  <2> QED
    BY <2>1, <2>2
<1>4. CASE SetSub(p)
  <2>1. CASE Visible(tx[p].bot, tx[p].dest)
    BY <1>1, <1>4, <2>1, SelectedInv DEF SetSub
  <2>2. CASE ~Visible(tx[p].bot, tx[p].dest)
    BY <1>4, <2>2, FailInv DEF SetSub
  <2> QED
    BY <2>1, <2>2
<1>5. CASE ReportStatus(p)
  BY <1>5, DoneInv DEF ReportStatus
<1> QED
  BY <1>2, <1>3, <1>4, <1>5 DEF SelectSub

LEMMA WriteSubInv ==
    ASSUME SubsInv, NEW p \in Requests, WriteSub(p)
    PROVE  SubsInv'
<1>1. CASE Fail(p)
  BY <1>1, FailInv
<1>2. CASE ~Fail(p)
  <2> DEFINE next == [tx[p] EXCEPT !.pc = "commit", !.subWrites = {tx[p].bot}]
  <2>1. tx[p].pc = "write" /\ tx[p].kind \notin {"none", "delete"} /\ tx[p].bot \in Bots
    BY RequestFacts DEF WriteSub, ReqOK
  <2>2. /\ next \in Request /\ next.pc = "commit"
        /\ next.kind = tx[p].kind /\ next.bot = tx[p].bot /\ next.chat = tx[p].chat
        /\ next.dest = tx[p].dest /\ next.seen = tx[p].seen /\ next.want = tx[p].want
        /\ next.destWrite = tx[p].destWrite /\ next.subWrites = {tx[p].bot}
        /\ next.contested = tx[p].contested
    BY <2>1, RequestFacts, ZenonT(40) DEF Request, PCs
  <2>3. tx' = [tx EXCEPT ![p] = next] /\ UNCHANGED <<bots, dest, sub, optOut, faults>>
    BY <1>2, RequestFacts DEF WriteSub
  <2> HIDE DEF next
  <2>4. ReqOK(next)
    BY <2>1, <2>2, RequestFacts DEF ReqOK, Rival
  <2>5. RowOK(p, next)
    BY <2>2, RequestFacts DEF RowOK
  <2>6. StopOK(next)
    BY <2>1, <2>2, RequestFacts DEF StopOK
  <2> QED
    BY <2>2, <2>3, <2>4, <2>5, <2>6, RequestFacts, LocalStep DEF Continues, OptOutStep
<1> QED
  BY <1>1, <1>2

\* delete_destination goes on.
LEMMA DeletionInv ==
    ASSUME SubsInv, NEW p \in Requests, NEW next \in Request,
           tx[p].pc \in {"list", "cascade"},
           tx' = [tx EXCEPT ![p] = next], UNCHANGED <<bots, dest, sub, optOut, faults>>,
           next.kind = tx[p].kind, next.bot = tx[p].bot, next.chat = tx[p].chat,
           next.dest = tx[p].dest, next.want = tx[p].want,
           next.contested = tx[p].contested,
           \/ next.pc = "cascade" /\ next.destWrite = tx[p].destWrite
           \/ next.pc = "commit" /\ next.destWrite = "delete"
    PROVE  SubsInv'
<1>1. /\ tx[p].kind = "delete" /\ tx[p].dest # NoDest /\ tx[p].destWrite = "none"
  BY RequestFacts, RequestFields DEF ReqOK
<1>2. ReqOK(next)
  BY <1>1, RequestFacts DEF ReqOK, Rival
<1>3. RowOK(p, next)
  BY <1>1, RequestFacts DEF RowOK
<1>4. StopOK(next)
  BY <1>1 DEF StopOK
<1> QED
  BY <1>2, <1>3, <1>4, RequestFacts, LocalStep DEF Continues, OptOutStep

LEMMA ListSubsInv ==
    ASSUME SubsInv, NEW p \in Requests, ListSubs(p)
    PROVE  SubsInv'
<1> DEFINE todo == {b \in Bots : Visible(b, tx[p].dest)}
           next == [tx[p] EXCEPT !.pc = "cascade", !.todo = todo]
<1>1. todo \subseteq Bots
  OBVIOUS
<1>2. tx' = [tx EXCEPT ![p] = next] /\ UNCHANGED <<bots, dest, sub, optOut, faults>>
  BY RequestFacts DEF ListSubs
<1> HIDE DEF todo
<1>3. /\ next \in Request /\ next.pc = "cascade" /\ next.destWrite = tx[p].destWrite
      /\ next.kind = tx[p].kind /\ next.bot = tx[p].bot /\ next.chat = tx[p].chat
      /\ next.dest = tx[p].dest /\ next.want = tx[p].want
      /\ next.contested = tx[p].contested
  BY <1>1, RequestFacts, ZenonT(40) DEF Request, PCs
<1> QED
  BY <1>2, <1>3, DeletionInv DEF ListSubs

LEMMA CascadeSubInv ==
    ASSUME SubsInv, NEW p \in Requests, NEW b \in Bots, CascadeSub(p, b)
    PROVE  SubsInv'
<1> DEFINE next == [tx[p] EXCEPT !.todo = @ \ {b}, !.subWrites = @ \cup {b}]
<1>1. tx' = [tx EXCEPT ![p] = next] /\ UNCHANGED <<bots, dest, sub, optOut, faults>>
  BY RequestFacts DEF CascadeSub
<1>2. /\ next \in Request /\ next.pc = tx[p].pc /\ next.destWrite = tx[p].destWrite
      /\ next.kind = tx[p].kind /\ next.bot = tx[p].bot /\ next.chat = tx[p].chat
      /\ next.dest = tx[p].dest /\ next.want = tx[p].want
      /\ next.contested = tx[p].contested
  BY RequestFacts, ZenonT(40) DEF Request
<1> QED
  BY <1>1, <1>2, DeletionInv DEF CascadeSub

LEMMA RemoveDestInv ==
    ASSUME SubsInv, NEW p \in Requests, RemoveDest(p)
    PROVE  SubsInv'
<1> DEFINE next == [tx[p] EXCEPT !.pc = "commit", !.destWrite = "delete"]
<1>1. tx' = [tx EXCEPT ![p] = next] /\ UNCHANGED <<bots, dest, sub, optOut, faults>>
  BY RequestFacts DEF RemoveDest
<1>2. /\ next \in Request /\ next.pc = "commit" /\ next.destWrite = "delete"
      /\ next.kind = tx[p].kind /\ next.bot = tx[p].bot /\ next.chat = tx[p].chat
      /\ next.dest = tx[p].dest /\ next.want = tx[p].want
      /\ next.contested = tx[p].contested
  BY RequestFacts, ZenonT(40) DEF Request, PCs
<1> QED
  BY <1>1, <1>2, DeletionInv DEF RemoveDest

LEMMA StepInv ==
    ASSUME SubsInv, NEW p \in Requests, Step(p)
    PROVE  SubsInv'
<1>1. CASE InsertConflicts(p) \/ DeadlockVictim(p)
  BY <1>1, FailInv DEF InsertConflicts, DeadlockVictim
<1>2. CASE Commit(p)
  <2>1. /\ tx[p].pc = "commit" /\ Applied(p) /\ tx' = [tx EXCEPT ![p] = Idle]
        /\ bots' = bots /\ faults' = faults
    BY <1>2 DEF Commit
  <2>2. OptOutStep(tx[p])
    BY <1>2, RequestFacts DEF Commit, Wish, OptOutStep, ReqOK
  <2> QED
    BY <2>1, <2>2, RequestFacts, CommitInv
<1>3. CASE \E d \in Dests : InsertDest(p, d)
  BY <1>3, InsertDestInv
<1>4. CASE \E b \in Bots : CascadeSub(p, b)
  BY <1>4, CascadeSubInv
<1>5. CASE \/ Redeliver(p) \/ Lookup(p) \/ FindDest(p) \/ SelectSub(p) \/ WriteSub(p)
           \/ ListSubs(p) \/ RemoveDest(p)
  BY <1>5, RedeliverInv, LookupInv, FindDestInv, SelectSubInv, WriteSubInv,
     ListSubsInv, RemoveDestInv
<1> QED
  BY <1>1, <1>2, <1>3, <1>4, <1>5 DEF Step

LEMMA EnvironmentInv == SubsInv /\ EnvironmentNext => SubsInv'
<1> SUFFICES ASSUME SubsInv, EnvironmentNext PROVE SubsInv'
  OBVIOUS
<1>1. ASSUME NEW b \in Bots, NEW policy \in {"open", "closed", "deleted"},
             bots' = [bots EXCEPT ![b] = policy], UNCHANGED <<dest, sub, tx, optOut, faults>>
      PROVE  SubsInv'
  <2>1. TypeOK'
    BY <1>1 DEF SubsInv, TypeOK
  <2> QED
    BY <1>1, <2>1 DEF SubsInv, RowOK, StopOK, Uncontested, RowsInv, OptOutInv, Muted, NoLive
<1>2. CASE \/ \E b \in Bots, policy \in {"open", "closed"} : SetPolicy(b, policy)
           \/ \E b \in Bots : DeleteBot(b)
  BY <1>1, <1>2 DEF SetPolicy, DeleteBot
<1>3. ASSUME NEW p \in Requests PROVE Over(tx[p], Unanswered(p))
  BY Zenon DEF Over, Unanswered
<1>4. faults < MaxFaults /\ faults' = faults + 1 => faults' \in 0..MaxFaults
  BY SubscriptionsAssumption DEF SubsInv, TypeOK
<1>5. ASSUME NEW p \in Requests, RequestDies(p) PROVE SubsInv'
  BY <1>3, <1>4, <1>5, EndInv DEF RequestDies, OptOutStep
<1>6. ASSUME NEW u \in Updates, AnswerLost(u) PROVE SubsInv'
  BY <1>3, <1>4, <1>6, CommitInv DEF AnswerLost, OptOutStep, Requests
<1> QED
  BY <1>2, <1>5, <1>6 DEF EnvironmentNext

LEMMA SubsNextInv == SubsInv /\ [Next]_vars => SubsInv'
<1> SUFFICES ASSUME SubsInv, [Next]_vars PROVE SubsInv'
  OBVIOUS
<1>1. CASE Next
  BY <1>1, BeginNextInv, StepInv, EnvironmentInv DEF Next
<1>2. CASE UNCHANGED vars
  BY <1>2 DEF vars, SubsInv, TypeOK, RowOK, StopOK, Uncontested, RowsInv, OptOutInv,
              Muted, NoLive
<1> QED
  BY <1>1, <1>2

-----------------------------------------------------------------------------
(* Theorems *)

LEMMA SubsInvariant == Spec => []SubsInv
<1> QED
  BY SubsInitInv, SubsNextInv, PTL DEF Spec

\* However /start, POST /destinations and deletions of a chat overlap, it has
\* one live row at most.
THEOREM LiveDestinationUnique == Spec => []OneLiveDestination
<1>1. SubsInv => OneLiveDestination
  BY SubsInvImplies
<1> QED
  BY <1>1, SubsInvariant, PTL

\* A soft-deleted subscription never stands in the way of a new one of a live
\* destination.
THEOREM NoTombstoneInTheWay == Spec => []TombstonesOffLiveDests
<1>1. SubsInv => TombstonesOffLiveDests
  BY SubsInvImplies
<1> QED
  BY <1>1, SubsInvariant, PTL

\* A /stop that met with no request to subscribe holds until the next one.
THEOREM OptOutHolds == Spec => []OptOutHonoured
<1>1. SubsInv => OptOutHonoured
  BY SubsInvImplies
<1> QED
  BY <1>1, SubsInvariant, PTL

\* Records and rows keep their types.
THEOREM SubscriptionsTyped == Spec => []TypeOK
<1>1. SubsInv => TypeOK
  BY DEF SubsInv
<1> QED
  BY <1>1, SubsInvariant, PTL

\* No commit brings a deleted destination or subscription back.
LEMMA CommitKeepsDeleted ==
    ASSUME SubsInv, NEW p \in Requests, tx[p].pc = "commit", Applied(p)
    PROVE  /\ \A d \in Dests : dest[d] = "deleted" => dest'[d] = "deleted"
           /\ \A s \in Bots \X Dests : sub[s] = "deleted" => sub'[s] = "deleted"
<1>1. tx[p].dest \in Dests
  BY RequestFacts, RequestFields DEF ReqOK
<1>2. tx[p].dest # NoDest
  BY <1>1, SubscriptionsAssumption DEF Dests
<1>3. tx[p].destWrite = "insert" => dest[tx[p].dest] = "none"
  BY <1>2, RequestFacts DEF RowOK
<1>4. \A d \in Dests : dest[d] = "deleted" => dest'[d] = "deleted"
  BY <1>1, <1>3, RequestFacts, AppliedRows
<1>5. \A s \in Bots \X Dests : sub[s] = "deleted" => sub'[s] = "deleted"
  BY DEF Applied
<1> QED
  BY <1>4, <1>5

\* The rows change by commits only.
LEMMA RowsByCommits ==
    ASSUME [Next]_vars
    PROVE  \/ UNCHANGED <<dest, sub>>
           \/ \E p \in Requests : tx[p].pc = "commit" /\ Applied(p)
<1>1. CASE BeginNext
  BY <1>1, ZenonT(40) DEF BeginNext, Receive, BeginCreate, BeginSet, BeginDelete, Begin
<1>2. ASSUME NEW p \in Requests, Step(p), ~Commit(p) PROVE UNCHANGED <<dest, sub>>
  BY <1>2 DEF Step, Redeliver, Lookup, FindDest, InsertDest, InsertConflicts,
     SelectSub, WriteSub, ListSubs, CascadeSub, RemoveDest, DeadlockVictim, Start,
     FindOrCreate, FindToReply, FindDuplicate, Found, Selected, ActivateSub,
     UnsubscribeSub, SetSub, ReportStatus, Fail, Done, Move
<1>3. ASSUME NEW p \in Requests, Commit(p) PROVE tx[p].pc = "commit" /\ Applied(p)
  BY <1>3 DEF Commit
<1>4. CASE EnvironmentNext
  BY <1>4 DEF EnvironmentNext, SetPolicy, DeleteBot, RequestDies, AnswerLost, Requests
<1>5. CASE UNCHANGED vars
  BY <1>5 DEF vars
<1> QED
  BY <1>1, <1>2, <1>3, <1>4, <1>5 DEF Next

\* Deletion is final: the requests that had read a row before it was deleted
\* write only the columns they change.
THEOREM DeletedForGood == Spec => DeletionIsFinal
<1> DEFINE Kept == /\ \A d \in Dests : dest[d] = "deleted" => dest'[d] = "deleted"
                   /\ \A s \in Bots \X Dests : sub[s] = "deleted" => sub'[s] = "deleted"
<1>1. SubsInv /\ [Next]_vars => [Kept]_vars
  <2> SUFFICES ASSUME SubsInv, Next PROVE Kept
    OBVIOUS
  <2>1. ASSUME NEW p \in Requests, tx[p].pc = "commit", Applied(p) PROVE Kept
    BY <2>1, CommitKeepsDeleted
  <2> QED
    BY <2>1, RowsByCommits
<1>2. [][Kept]_vars => DeletionIsFinal
  BY DEF DeletionIsFinal
<1> QED
  BY <1>1, <1>2, SubsInvariant, PTL DEF Spec

-----------------------------------------------------------------------------
(* The register: every commit is one operation on its chat *)

\* What a request is about to write: its kind says which status, a new
\* destination comes with its subscription, and a status is changed only of a
\* subscription that exists.
AimOK(q) ==
    /\ q.kind \in {"start", "create"} => q.want = "active"
    /\ q.kind = "set" => q.want \in SubStatus
    /\ q.pc \in {"write", "commit"} => q.kind \notin {"none", "status", "other"}
    /\ q.pc = "commit" /\ q.destWrite = "insert" => q.subWrites = {q.bot}
    /\ q.pc \in {"write", "commit"} /\ q.kind \in {"stop", "set"} =>
          sub[<<q.bot, q.dest>>] # "none"

AimInv == \A p \in Requests : AimOK(tx[p])

\* No subscription vanishes.
SubsStay == \A s \in Bots \X Dests : sub[s] # "none" => sub'[s] # "none"

LEMMA CommitWrites ==
    ASSUME SubsInv, AimInv, NEW p \in Requests, tx[p].pc = "commit"
    PROVE  /\ tx[p].dest \in Dests /\ ChatOf(tx[p].dest) = tx[p].chat
           /\ tx[p].chat \in Chats
           /\ tx[p].kind \in {"start", "create", "stop", "set", "delete"}
           /\ tx[p].want \in SubStatus \cup {"deleted"}
           /\ tx[p].kind # "delete" => tx[p].want \in SubStatus /\ tx[p].bot \in Bots
<1>1. /\ tx[p] \in Request /\ ReqOK(tx[p]) /\ AimOK(tx[p])
  BY RequestFacts DEF AimInv
<1>2. tx[p].kind \in {"start", "create", "stop", "set", "delete"}
  BY <1>1, RequestFields DEF AimOK, Kinds, UpdateKinds
<1>3. tx[p].dest \in Dests
  BY <1>1, RequestFields DEF ReqOK
<1>4. tx[p].want \in SubStatus \cup {"deleted"}
  BY <1>1, <1>2 DEF AimOK, ReqOK, SubStatus
<1>5. tx[p].kind # "delete" => tx[p].want \in SubStatus
  BY <1>1, <1>4 DEF ReqOK
<1> QED
  BY <1>1, <1>2, <1>3, <1>4, <1>5 DEF ReqOK

LEMMA SubsStayStep == ASSUME SubsInv, AimInv, [Next]_vars PROVE SubsStay
<1> SUFFICES ASSUME NEW s \in Bots \X Dests, sub[s] # "none" PROVE sub'[s] # "none"
  BY DEF SubsStay
<1>1. ASSUME NEW p \in Requests, tx[p].pc = "commit", Applied(p)
      PROVE  sub'[s] # "none"
  <2>1. tx[p].want # "none"
    BY <1>1, CommitWrites DEF SubStatus
  <2> QED
    BY <1>1, <2>1 DEF Applied
<1> QED
  BY <1>1, RowsByCommits

\* One request's step.
LEMMA AimKept ==
    ASSUME AimInv, SubsStay, NEW p \in Requests, AimOK(tx[p])',
           \A q \in Requests \ {p} :
              /\ \/ tx'[q] = tx[q]
                 \/ tx'[q] = [tx[q] EXCEPT !.contested = TRUE]
              /\ tx[q] \in Request /\ ReqOK(tx[q])
    PROVE  AimInv'
<1> SUFFICES ASSUME NEW q \in Requests \ {p} PROVE AimOK(tx[q])'
  BY DEF AimInv
<1>1. AimOK(tx[q]) /\ tx[q] \in Request /\ ReqOK(tx[q])
  BY DEF AimInv
<1>2. /\ tx'[q].pc = tx[q].pc /\ tx'[q].kind = tx[q].kind
      /\ tx'[q].want = tx[q].want /\ tx'[q].bot = tx[q].bot
      /\ tx'[q].dest = tx[q].dest /\ tx'[q].destWrite = tx[q].destWrite
      /\ tx'[q].subWrites = tx[q].subWrites
  BY <1>1 DEF Request
<1>3. ASSUME tx[q].pc \in {"write", "commit"}, tx[q].kind \in {"stop", "set"}
      PROVE  sub'[<<tx[q].bot, tx[q].dest>>] # "none"
  <2>1. tx[q].bot \in Bots /\ tx[q].dest \in Dests
    BY <1>1, <1>3, RequestFields DEF ReqOK
  <2> QED
    BY <1>1, <1>3, <2>1 DEF AimOK, SubsStay
<1> QED
  BY <1>1, <1>2, <1>3 DEF AimOK

LEMMA AimBegin ==
    ASSUME SubsInv, AimInv, SubsStay, NEW p \in Requests, NEW kind, NEW b, NEW c, NEW d,
           NEW want, Begin(p, kind, b, c, d, want),
           kind \in {"start", "create"} => want = "active",
           kind = "set" => want \in SubStatus
    PROVE  AimInv'
<1>1. /\ tx'[p].pc = "lookup" /\ tx'[p].kind = kind /\ tx'[p].want = want
  BY DEF Begin, Idle
<1>2. \A q \in Requests \ {p} :
         \/ tx'[q] = tx[q]
         \/ tx'[q] = [tx[q] EXCEPT !.contested = TRUE]
  BY DEF Begin
<1>3. AimOK(tx[p])'
  BY <1>1 DEF AimOK
<1> QED
  BY <1>2, <1>3, RequestFacts, AimKept

\* A step after which the request is not about to write.
LEMMA AimMoves ==
    ASSUME SubsInv, AimInv, SubsStay, NEW p \in Requests, NEW next,
           tx' = [tx EXCEPT ![p] = next], next.pc \notin {"write", "commit"},
           \/ next.kind = "none"
           \/ next.kind = tx[p].kind /\ next.want = tx[p].want
    PROVE  AimInv'
<1>1. tx'[p] = next /\ \A q \in Requests \ {p} : tx'[q] = tx[q]
  BY RequestFacts
<1>2. AimOK(tx[p])'
  BY <1>1 DEF AimOK, AimInv
<1> QED
  BY <1>1, <1>2, RequestFacts, AimKept

\* A request ends.
LEMMA AimEnds ==
    ASSUME SubsInv, AimInv, SubsStay, NEW p \in Requests,
           tx' = [tx EXCEPT ![p] = Idle] \/ tx' = [tx EXCEPT ![p] = Unanswered(p)]
    PROVE  AimInv'
<1>1. /\ Idle.pc = "idle" /\ Idle.kind = "none"
      /\ Unanswered(p).pc \notin {"write", "commit"}
      /\ \/ Unanswered(p).kind = "none"
         \/ Unanswered(p).kind = tx[p].kind /\ Unanswered(p).want = tx[p].want
  BY DEF Idle, Unanswered
<1>2. CASE tx' = [tx EXCEPT ![p] = Idle]
  BY <1>1, <1>2, AimMoves
<1>3. CASE tx' = [tx EXCEPT ![p] = Unanswered(p)]
  BY <1>1, <1>3, AimMoves
<1> QED
  BY <1>2, <1>3

LEMMA AimMove ==
    ASSUME SubsInv, AimInv, SubsStay, NEW p \in Requests, NEW pc, Move(p, pc),
           pc \notin {"write", "commit"}
    PROVE  AimInv'
<1>1. /\ [tx[p] EXCEPT !.pc = pc].pc = pc
      /\ [tx[p] EXCEPT !.pc = pc].kind = tx[p].kind
      /\ [tx[p] EXCEPT !.pc = pc].want = tx[p].want
  BY RequestFacts DEF Request
<1> QED
  BY <1>1, AimMoves DEF Move

LEMMA AimSelected ==
    ASSUME SubsInv, AimInv, SubsStay, NEW p \in Requests, NEW writes,
           Selected(p, writes), tx[p].pc = "sub",
           tx[p].kind \in {"start", "stop", "set"},
           tx[p].kind \in {"stop", "set"} => Visible(tx[p].bot, tx[p].dest)
    PROVE  AimInv'
<1>1. /\ \A q \in Requests \ {p} : tx'[q] = tx[q]
      /\ tx'[p].pc \in {"write", "commit"} /\ tx'[p].kind = tx[p].kind
      /\ tx'[p].want = tx[p].want /\ tx'[p].bot = tx[p].bot
      /\ tx'[p].dest = tx[p].dest /\ tx'[p].destWrite = tx[p].destWrite
      /\ sub' = sub
  BY RequestFacts DEF Selected, Request
<1>2. tx[p].destWrite # "insert"
  BY RequestFacts DEF ReqOK
<1>3. AimOK(tx[p])'
  BY <1>1, <1>2 DEF AimOK, AimInv, Visible, SubStatus
<1> QED
  BY <1>1, <1>3, RequestFacts, AimKept

LEMMA AimStep == ASSUME SubsInv, AimInv, [Next]_vars PROVE AimInv'
<1>0. SubsStay
  BY SubsStayStep
<1>1. ASSUME NEW u \in Updates, NEW command \in Commands, NEW type \in ChatTypes,
             NEW b \in Bots, NEW c \in Chats, Receive(u, command, type, b, c)
      PROVE  AimInv'
  <2> DEFINE kind == Asked(command, type)
             want == CASE kind = "start" -> "active" [] kind = "stop" -> "unsubscribed"
                       [] OTHER -> "none"
  <2>1. Begin(u, kind, b, c, NoDest, want)
    BY <1>1 DEF Receive
  <2>2. kind \notin {"create", "set"} /\ (kind = "start" => want = "active")
    BY DEF Asked, Commands
  <2> HIDE DEF kind, want
  <2> QED
    BY <1>0, <2>1, <2>2, AimBegin DEF Requests
<1>2. ASSUME NEW a \in Admins, NEW b \in Bots, NEW c \in Chats, BeginCreate(a, b, c)
      PROVE  AimInv'
  BY <1>0, <1>2, AimBegin DEF BeginCreate, Requests
<1>3. ASSUME NEW a \in Admins, NEW b \in Bots, NEW d \in Dests, NEW status \in SubStatus,
             BeginSet(a, b, d, status)
      PROVE  AimInv'
  BY <1>0, <1>3, AimBegin DEF BeginSet, Requests
<1>4. ASSUME NEW a \in Admins, NEW d \in Dests, BeginDelete(a, d)
      PROVE  AimInv'
  BY <1>0, <1>4, AimBegin DEF BeginDelete, Requests
<1>5. ASSUME NEW p \in Requests,
             Fail(p) \/ Done(p) \/ Commit(p) \/ RequestDies(p) \/ AnswerLost(p)
      PROVE  AimInv'
  BY <1>0, <1>5, AimEnds DEF Fail, Done, Commit, RequestDies, AnswerLost
<1>6. ASSUME NEW p \in Requests, Redeliver(p) \/ Lookup(p) PROVE AimInv'
  BY <1>0, <1>5, <1>6, AimMove DEF Redeliver, Lookup, Start
<1>7. ASSUME NEW p \in Requests, NEW d, Found(p, d) PROVE AimInv'
  <2>1. /\ [tx[p] EXCEPT !.pc = "sub", !.dest = d].pc = "sub"
        /\ [tx[p] EXCEPT !.pc = "sub", !.dest = d].kind = tx[p].kind
        /\ [tx[p] EXCEPT !.pc = "sub", !.dest = d].want = tx[p].want
    BY RequestFacts DEF Request
  <2>2. tx' = [tx EXCEPT ![p] = [tx[p] EXCEPT !.pc = "sub", !.dest = d]]
    BY <1>7 DEF Found
  <2> QED
    BY <1>0, <2>1, <2>2, AimMoves
<1>8. ASSUME NEW p \in Requests, FindDest(p) PROVE AimInv'
  BY <1>0, <1>5, <1>7, <1>8, AimMove
     DEF FindDest, FindOrCreate, FindToReply, FindDuplicate
<1>9. ASSUME NEW p \in Requests, NEW d \in Dests, InsertDest(p, d) PROVE AimInv'
  <2>1. /\ \A q \in Requests \ {p} : tx'[q] = tx[q]
        /\ tx'[p].pc = "write" /\ tx'[p].kind = tx[p].kind
        /\ tx'[p].want = tx[p].want
    BY <1>9, RequestFacts DEF InsertDest, Request
  <2>2. tx[p].kind \in {"start", "create"}
    BY <1>9, RequestFacts DEF InsertDest, ReqOK
  <2>3. AimOK(tx[p])'
    BY <2>1, <2>2 DEF AimOK, AimInv
  <2> QED
    BY <1>0, <2>1, <2>3, RequestFacts, AimKept
<1>10. ASSUME NEW p \in Requests, SelectSub(p) PROVE AimInv'
  <2>1. tx[p].pc = "sub"
    BY <1>10 DEF SelectSub
  <2>2. CASE ActivateSub(p)
    BY <1>0, <2>1, <2>2, AimSelected DEF ActivateSub
  <2>3. CASE UnsubscribeSub(p)
    BY <1>0, <1>5, <2>1, <2>3, AimSelected DEF UnsubscribeSub
  <2>4. CASE SetSub(p)
    BY <1>0, <1>5, <2>1, <2>4, AimSelected DEF SetSub
  <2>5. CASE ReportStatus(p)
    BY <1>5, <2>5 DEF ReportStatus
  <2> QED
    BY <1>10, <2>2, <2>3, <2>4, <2>5 DEF SelectSub
<1>11. ASSUME NEW p \in Requests, WriteSub(p) PROVE AimInv'
  <2>1. CASE Fail(p)
    BY <1>5, <2>1
  <2>2. CASE ~Fail(p)
    <3>1. /\ \A q \in Requests \ {p} : tx'[q] = tx[q]
          /\ tx[p].pc = "write" /\ tx'[p].pc = "commit" /\ tx'[p].kind = tx[p].kind
          /\ tx'[p].want = tx[p].want /\ tx'[p].bot = tx[p].bot
          /\ tx'[p].dest = tx[p].dest /\ tx'[p].subWrites = {tx[p].bot}
          /\ sub' = sub
      BY <1>11, <2>2, RequestFacts DEF WriteSub, Request
    <3>2. AimOK(tx[p])'
      BY <3>1 DEF AimOK, AimInv
    <3> QED
      BY <1>0, <3>1, <3>2, RequestFacts, AimKept
  <2> QED
    BY <2>1, <2>2
<1>12. ASSUME NEW p \in Requests, ListSubs(p) \/ \E b \in Bots : CascadeSub(p, b)
       PROVE  AimInv'
  <2>1. /\ \A q \in Requests \ {p} : tx'[q] = tx[q]
        /\ tx'[p].pc = "cascade" /\ tx'[p].kind = tx[p].kind
        /\ tx'[p].want = tx[p].want
    <3>1. CASE ListSubs(p)
      BY <3>1, RequestFacts DEF ListSubs, Request
    <3>2. ASSUME NEW b \in Bots, CascadeSub(p, b)
          PROVE  /\ \A q \in Requests \ {p} : tx'[q] = tx[q]
                 /\ tx'[p].pc = "cascade" /\ tx'[p].kind = tx[p].kind
                 /\ tx'[p].want = tx[p].want
      BY <3>2, RequestFacts DEF CascadeSub, Request
    <3> QED
      BY <1>12, <3>1, <3>2
  <2>2. AimOK(tx[p])'
    BY <2>1 DEF AimOK, AimInv
  <2> QED
    BY <1>0, <2>1, <2>2, RequestFacts, AimKept
<1>13. ASSUME NEW p \in Requests, RemoveDest(p) PROVE AimInv'
  <2>1. /\ \A q \in Requests \ {p} : tx'[q] = tx[q]
        /\ tx'[p].pc = "commit" /\ tx'[p].kind = tx[p].kind
        /\ tx'[p].want = tx[p].want /\ tx'[p].destWrite = "delete"
        /\ tx[p].kind = "delete"
    BY <1>13, RequestFacts DEF RemoveDest, Request, ReqOK
  <2>2. AimOK(tx[p])'
    BY <2>1 DEF AimOK, AimInv
  <2> QED
    BY <1>0, <2>1, <2>2, RequestFacts, AimKept
<1>14. ASSUME tx' = tx, sub' = sub PROVE AimInv'
  BY <1>14 DEF AimInv, AimOK
<1>15. ASSUME NEW p \in Requests, Step(p) PROVE AimInv'
  BY <1>5, <1>6, <1>8, <1>9, <1>10, <1>11, <1>12, <1>13, <1>15
     DEF Step, InsertConflicts, DeadlockVictim
<1>16. CASE BeginNext
  BY <1>1, <1>2, <1>3, <1>4, <1>16 DEF BeginNext
<1>17. CASE EnvironmentNext
  BY <1>5, <1>14, <1>17 DEF EnvironmentNext, SetPolicy, DeleteBot, Requests
<1>18. CASE UNCHANGED vars
  BY <1>14, <1>18 DEF vars
<1> QED
  BY <1>15, <1>16, <1>17, <1>18 DEF Next

\* The live destination of a chat, before and after a step.
LEMMA TheLiveDest ==
    ASSUME RowsInv, NEW d \in Dests, dest[d] = "live"
    PROVE  /\ LiveDest(ChatOf(d)) = d /\ LiveDests(ChatOf(d)) = {d}
           /\ ChatOf(d) \in Registered
<1>1. LiveDests(ChatOf(d)) = {d}
  BY DEF RowsInv, LiveDests
<1>2. LiveDest(ChatOf(d)) = d
  BY <1>1 DEF LiveDest
<1>3. ChatOf(d) \in Chats
  BY DEF Dests, ChatOf
<1> QED
  BY <1>1, <1>2, <1>3 DEF Registered

LEMMA TheLiveDestNext ==
    ASSUME RowsInv', NEW d \in Dests, dest'[d] = "live"
    PROVE  /\ LiveDest(ChatOf(d))' = d /\ LiveDests(ChatOf(d))' = {d}
           /\ ChatOf(d) \in Registered'
<1>1. LiveDests(ChatOf(d))' = {d}
  BY DEF RowsInv, LiveDests
<1>2. LiveDest(ChatOf(d))' = d
  BY <1>1 DEF LiveDest
<1>3. ChatOf(d) \in Chats
  BY DEF Dests, ChatOf
<1> QED
  BY <1>1, <1>2, <1>3 DEF Registered

\* A chat whose destinations a step leaves alone stays as it is.
LEMMA ChatFrame ==
    ASSUME RowsInv, RowsInv', NEW c \in Chats,
           \A d \in Dests : ChatOf(d) = c => (dest'[d] = "live" <=> dest[d] = "live")
    PROVE  /\ c \in Registered' <=> c \in Registered
           /\ c \in Registered =>
                 LiveDest(c)' = LiveDest(c) /\ LiveDest(c) \in LiveDests(c)
<1>1. LiveDests(c)' = LiveDests(c)
  BY DEF LiveDests
<1>2. c \in Registered' <=> c \in Registered
  BY <1>1 DEF Registered
<1>3. ASSUME c \in Registered
      PROVE  LiveDest(c)' = LiveDest(c) /\ LiveDest(c) \in LiveDests(c)
  <2>1. PICK d \in LiveDests(c) : TRUE
    BY <1>3 DEF Registered
  <2>2. d \in Dests /\ ChatOf(d) = c /\ dest[d] = "live" /\ dest'[d] = "live"
    BY <1>1, <2>1 DEF LiveDests
  <2> QED
    BY <2>1, <2>2, TheLiveDest, TheLiveDestNext
<1> QED
  BY <1>2, <1>3

LEMMA RegisteredChats == Registered \subseteq Chats /\ Registered' \subseteq Chats
BY DEF Registered

\* The status of a subscription as the register sees it.
LEMMA StatusAt ==
    ASSUME NEW b \in Bots, NEW c \in Chats
    PROVE  /\ StatusOf[<<b, c>>] = IF c \in Registered THEN sub[<<b, LiveDest(c)>>]
                                                     ELSE "none"
           /\ StatusOf'[<<b, c>>] = IF c \in Registered' THEN sub'[<<b, LiveDest(c)'>>]
                                                       ELSE "none"
BY DEF StatusOf

\* Statuses that agree at each bot and chat are the same.
AtEachPair(f) == f = [s \in Bots \X Chats |-> f[s]]

LEMMA StatusFunction == AtEachPair(StatusOf) /\ AtEachPair(StatusOf')
BY DEF StatusOf, AtEachPair

LEMMA StatusEqual ==
    ASSUME NEW f, NEW g, AtEachPair(f), AtEachPair(g),
           \A b \in Bots, c \in Chats : f[<<b, c>>] = g[<<b, c>>]
    PROVE  f = g
<1>1. ASSUME NEW s \in Bots \X Chats PROVE f[s] = g[s]
  <2>1. PICK b \in Bots, c \in Chats : s = <<b, c>>
    OBVIOUS
  <2> QED
    BY <2>1
<1>2. [s \in Bots \X Chats |-> f[s]] = [s \in Bots \X Chats |-> g[s]]
  BY <1>1, Zenon
<1> QED
  BY <1>2 DEF AtEachPair

LEMMA StatusChanged ==
    ASSUME NEW f, NEW g, NEW b0 \in Bots, NEW c0 \in Chats, NEW v,
           AtEachPair(f), AtEachPair(g),
           \A b \in Bots, c \in Chats :
              g[<<b, c>>] = IF b = b0 /\ c = c0 THEN v ELSE f[<<b, c>>]
    PROVE  g = [f EXCEPT ![<<b0, c0>>] = v]
<1> DEFINE h == [f EXCEPT ![<<b0, c0>>] = v]
<1>1. DOMAIN f = Bots \X Chats
  BY Zenon DEF AtEachPair
<1>2. AtEachPair(h)
  BY <1>1 DEF AtEachPair
<1>3. ASSUME NEW b \in Bots, NEW c \in Chats PROVE g[<<b, c>>] = h[<<b, c>>]
  BY <1>1
<1> HIDE DEF h
<1>4. g = h
  BY <1>2, <1>3, StatusEqual
<1> QED
  BY <1>4 DEF h

\* A commit is one operation on its chat, or none that shows.
LEMMA CommitRegisters ==
    ASSUME SubsInv, RowsInv', AimInv, NEW p \in Requests, tx[p].pc = "commit", Applied(p)
    PROVE  [Register!Next]_<<Registered, StatusOf>>
<1> SUFFICES ASSUME NEW q, q = tx[p]
             PROVE  [Register!Next]_<<Registered, StatusOf>>
  OBVIOUS
<1> DEFINE c0 == q.chat
           d0 == q.dest
           b0 == q.bot
<1>1. /\ d0 \in Dests /\ ChatOf(d0) = c0 /\ c0 \in Chats
      /\ q.kind \in {"start", "create", "stop", "set", "delete"}
      /\ q.kind # "delete" => q.want \in SubStatus /\ b0 \in Bots
      /\ q.kind # "delete" => q.subWrites \subseteq {b0}
      /\ q.kind = "delete" <=> q.destWrite = "delete"
      /\ q.destWrite \in {"none", "insert", "delete"}
      /\ q.kind \in {"start", "create"} => q.want = "active"
      /\ q.kind \in {"stop", "set"} => sub[<<b0, d0>>] # "none"
      /\ q.destWrite = "insert" =>
            q.kind \in {"start", "create"} /\ q.subWrites = {b0} /\ NoLive(c0)
      /\ dest[d0] = "none" <=> q.destWrite = "insert"
  <2>1. AimOK(q) /\ ReqOK(q) /\ RowOK(p, q) /\ q \in Request
    BY RequestFacts DEF AimInv
  <2>2. d0 # NoDest
    BY CommitWrites, SubscriptionsAssumption DEF Dests
  <2> QED
    BY <2>1, <2>2, CommitWrites, RequestFields DEF AimOK, ReqOK, RowOK
<1>2. /\ \A d \in Dests : d # d0 => dest'[d] = dest[d]
      /\ dest'[d0] = CASE q.destWrite = "insert" -> "live"
                       [] q.destWrite = "delete" -> "deleted"
                       [] OTHER -> dest[d0]
      /\ \A b \in Bots, d \in Dests :
            sub'[<<b, d>>] = IF d = d0 /\ b \in q.subWrites /\ sub[<<b, d>>] # "deleted"
                             THEN q.want ELSE sub[<<b, d>>]
      /\ RowsInv /\ dest[d0] \in {"none", "live", "deleted"}
  BY <1>1, RequestFacts, AppliedRows DEF TypeOK
<1> HIDE DEF c0, d0, b0
<1>3. ASSUME NEW c \in Chats, c # c0 \/ (dest[d0] # "live" /\ dest'[d0] # "live")
      PROVE  /\ c \in Registered' <=> c \in Registered
             /\ \A b \in Bots : StatusOf'[<<b, c>>] = StatusOf[<<b, c>>]
  <2>1. \A d \in Dests : ChatOf(d) = c => (dest'[d] = "live" <=> dest[d] = "live")
    BY <1>1, <1>2, <1>3
  <2>2. /\ c \in Registered' <=> c \in Registered
        /\ c \in Registered =>
              LiveDest(c)' = LiveDest(c) /\ LiveDest(c) \in LiveDests(c)
    BY <1>2, <2>1, ChatFrame
  <2>3. ASSUME NEW b \in Bots PROVE StatusOf'[<<b, c>>] = StatusOf[<<b, c>>]
    <3>1. ASSUME c \in Registered
          PROVE  sub'[<<b, LiveDest(c)>>] = sub[<<b, LiveDest(c)>>]
      <4>1. LiveDest(c) \in Dests /\ LiveDest(c) # d0
        BY <1>1, <1>3, <2>2, <3>1 DEF LiveDests
      <4> QED
        BY <1>2, <4>1
    <3> QED
      BY <2>2, <3>1, StatusAt
  <2> QED
    BY <2>2, <2>3
<1>4. CASE q.destWrite = "insert"
  <2>1. /\ dest'[d0] = "live" /\ dest[d0] = "none" /\ b0 \in Bots
        /\ c0 \notin Registered /\ c0 \in Registered' /\ LiveDest(c0)' = d0
    BY <1>1, <1>2, <1>4, LiveFacts, TheLiveDestNext DEF Registered
  <2>2. Registered' = Registered \cup {c0}
    <3>1. \A c \in Chats : c \in Registered' <=> c \in Registered \cup {c0}
      BY <1>3, <2>1
    <3> QED
      BY <1>1, <3>1, RegisteredChats
  <2>3. ASSUME NEW b \in Bots
        PROVE  /\ StatusOf[<<b, c0>>] = "none"
               /\ StatusOf'[<<b, c0>>] = IF b = b0 THEN "active" ELSE "none"
    <3>1. sub[<<b, d0>>] = "none"
      BY <1>1, <1>2, <2>1 DEF RowsInv
    <3>2. sub'[<<b, d0>>] = IF b = b0 THEN "active" ELSE "none"
      BY <1>1, <1>2, <1>4, <3>1
    <3>3. /\ StatusOf[<<b, c0>>] = "none"
          /\ StatusOf'[<<b, c0>>] = sub'[<<b, LiveDest(c0)'>>]
      BY <1>1, <2>1, StatusAt
    <3> QED
      BY <2>1, <3>2, <3>3
  <2>4. StatusOf' = [StatusOf EXCEPT ![<<b0, c0>>] = "active"]
    <3>1. \A b \in Bots, c \in Chats :
             StatusOf'[<<b, c>>] = IF b = b0 /\ c = c0 THEN "active"
                                                     ELSE StatusOf[<<b, c>>]
      BY <1>3, <2>3
    <3>2. b0 \in Bots /\ c0 \in Chats
      BY <1>1, <2>1
    <3> QED
      BY <3>1, <3>2, StatusFunction, StatusChanged
  <2> QED
    BY <1>1, <2>1, <2>2, <2>4 DEF Register!Next, Register!Enlist
<1>5. CASE q.destWrite = "delete" /\ dest[d0] = "live"
  <2>1. c0 \in Registered /\ c0 \notin Registered'
    <3>1. c0 \in Registered /\ LiveDests(c0) = {d0}
      BY <1>1, <1>2, <1>5, TheLiveDest
    <3>2. LiveDests(c0)' = {}
      BY <1>1, <1>2, <1>5, <3>1 DEF LiveDests
    <3> QED
      BY <3>1, <3>2 DEF Registered
  <2>2. Registered' = Registered \ {c0}
    <3>1. \A c \in Chats : c \in Registered' <=> c \in Registered \ {c0}
      BY <1>3, <2>1
    <3> QED
      BY <3>1, RegisteredChats
  <2>3. StatusOf' = [s \in Bots \X Chats |-> IF s[2] = c0 THEN "none" ELSE StatusOf[s]]
    <3>1. \A b \in Bots, c \in Chats :
             StatusOf'[<<b, c>>] = IF c = c0 THEN "none" ELSE StatusOf[<<b, c>>]
      BY <1>3, <2>1, StatusAt
    <3> DEFINE rest == [s \in Bots \X Chats |-> IF s[2] = c0 THEN "none" ELSE StatusOf[s]]
    <3>2. /\ AtEachPair(rest)
          /\ \A b \in Bots, c \in Chats :
                rest[<<b, c>>] = IF c = c0 THEN "none" ELSE StatusOf[<<b, c>>]
      BY DEF AtEachPair
    <3> HIDE DEF rest
    <3>3. StatusOf' = rest
      BY <3>1, <3>2, StatusFunction, StatusEqual
    <3> QED
      BY <3>3 DEF rest
  <2> QED
    BY <1>1, <2>1, <2>2, <2>3 DEF Register!Next, Register!Remove
<1>6. CASE q.destWrite = "none" /\ dest[d0] = "live" /\ q.subWrites # {}
  <2>1. /\ q.subWrites = {b0} /\ b0 \in Bots /\ dest'[d0] = "live" /\ q.want \in SubStatus
        /\ sub[<<b0, d0>>] # "deleted"
        /\ sub[<<b0, d0>>] = "none" => q.want = "active"
    BY <1>1, <1>2, <1>6 DEF RowsInv
  <2>2. /\ c0 \in Registered /\ LiveDest(c0) = d0
        /\ c0 \in Registered' /\ LiveDest(c0)' = d0
    BY <1>1, <1>2, <1>6, <2>1, TheLiveDest, TheLiveDestNext
  <2>3. Registered' = Registered
    <3>1. \A c \in Chats : c \in Registered' <=> c \in Registered
      BY <1>3, <2>2
    <3> QED
      BY <3>1, RegisteredChats
  <2>4. ASSUME NEW b \in Bots
        PROVE  /\ StatusOf[<<b, c0>>] = sub[<<b, d0>>]
               /\ StatusOf'[<<b, c0>>] = IF b = b0 THEN q.want ELSE sub[<<b, d0>>]
    BY <1>1, <1>2, <2>1, <2>2, StatusAt
  <2>5. StatusOf' = [StatusOf EXCEPT ![<<b0, c0>>] = q.want]
    <3>1. \A b \in Bots, c \in Chats :
             StatusOf'[<<b, c>>] = IF b = b0 /\ c = c0 THEN q.want
                                                     ELSE StatusOf[<<b, c>>]
      BY <1>3, <2>4
    <3>2. b0 \in Bots /\ c0 \in Chats
      BY <1>1, <2>1
    <3>3. ASSUME NEW v, v = q.want
          PROVE  StatusOf' = [StatusOf EXCEPT ![<<b0, c0>>] = v]
      <4>1. \A b \in Bots, c \in Chats :
               StatusOf'[<<b, c>>] = IF b = b0 /\ c = c0 THEN v ELSE StatusOf[<<b, c>>]
        BY <3>1, <3>3
      <4> QED
        BY <3>2, <4>1, StatusFunction, StatusChanged
    <3> QED
      BY <3>3
  <2>6. Register!Change(b0, c0, q.want)
    BY <2>1, <2>2, <2>3, <2>4, <2>5 DEF Register!Change
  <2>7. q.want \in Register!SubStatus
    BY <2>1 DEF SubStatus, Register!SubStatus
  <2> QED
    BY <1>1, <2>1, <2>6, <2>7 DEF Register!Next
<1>7. CASE dest[d0] # "live" /\ dest'[d0] # "live"
  <2>1. Registered' = Registered
    <3>1. \A c \in Chats : c \in Registered' <=> c \in Registered
      BY <1>3, <1>7
    <3> QED
      BY <3>1, RegisteredChats
  <2>2. StatusOf' = StatusOf
    <3>1. \A b \in Bots, c \in Chats : StatusOf'[<<b, c>>] = StatusOf[<<b, c>>]
      BY <1>3, <1>7
    <3> QED
      BY <3>1, StatusFunction, StatusEqual
  <2> QED
    BY <2>1, <2>2
<1>8. CASE q.destWrite = "none" /\ q.subWrites = {}
  <2>1. dest' = dest /\ sub' = sub
    BY <1>8, RequestFacts DEF Applied, TypeOK
  <2> QED
    BY <2>1 DEF Registered, StatusOf, LiveDests, LiveDest
<1> QED
  BY <1>1, <1>2, <1>4, <1>5, <1>6, <1>7, <1>8

\* Whatever requests overlap, die, fail and are repeated, each commit does one
\* thing to its chat: the first subscription registers it, a status changes, or
\* a deletion removes the chat with all its subscriptions.
THEOREM RequestsKeepRegister == Spec => RegisterSpec
<1>1. Init => Register!Init
  <2> SUFFICES ASSUME Init PROVE Register!Init
    OBVIOUS
  <2>0. SubsInv
    BY SubsInitInv
  <2>1. Registered \subseteq Chats
    BY DEF Registered
  <2>2. ASSUME NEW b \in Bots, NEW c \in Chats
        PROVE  StatusOf[<<b, c>>] \in SubStatus \cup {"none"}
    <3>1. CASE c \in Registered
      <4>1. PICK d \in LiveDests(c) : TRUE
        BY <3>1 DEF Registered
      <4>2. d \in Dests /\ LiveDest(c) = d
        BY <2>0, <4>1, TheLiveDest DEF SubsInv, LiveDests
      <4>3. sub[<<b, d>>] \in SubStatus \cup {"none"}
        BY <4>2 DEF Init
      <4> QED
        BY <3>1, <4>2, <4>3, StatusAt
    <3> QED
      BY <3>1, StatusAt
  <2>3. StatusOf \in [Bots \X Chats -> SubStatus \cup {"none"}]
    BY <2>2 DEF StatusOf
  <2>4. \A b \in Bots, c \in Chats : c \notin Registered => StatusOf[<<b, c>>] = "none"
    BY StatusAt
  <2> QED
    BY <2>1, <2>3, <2>4 DEF Register!Init, Register!SubStatus, SubStatus
<1>2. Init => AimInv
  BY DEF Init, AimInv, AimOK, Idle
<1>3. SubsInv /\ AimInv /\ [Next]_vars => AimInv'
  BY AimStep
<1>4. SubsInv /\ SubsInv' /\ AimInv /\ [Next]_vars
        => [Register!Next]_<<Registered, StatusOf>>
  <2> SUFFICES ASSUME SubsInv, SubsInv', AimInv, [Next]_vars
               PROVE  [Register!Next]_<<Registered, StatusOf>>
    OBVIOUS
  <2>1. CASE UNCHANGED <<dest, sub>>
    BY <2>1 DEF Registered, StatusOf, LiveDests, LiveDest
  <2>2. ASSUME NEW p \in Requests, tx[p].pc = "commit", Applied(p)
        PROVE  [Register!Next]_<<Registered, StatusOf>>
    BY <2>2, CommitRegisters DEF SubsInv
  <2> QED
    BY <2>1, <2>2, RowsByCommits
<1> QED
  BY <1>1, <1>2, <1>3, <1>4, SubsInvariant, PTL DEF Spec, RegisterSpec, Register!Spec
=============================================================================
