--------------------------- MODULE RateLimitProofs ---------------------------
(***************************************************************************)
(* Proofs about the rate limiter, for any limits and window length, any    *)
(* number of calls, and calls that die anywhere.                           *)
(***************************************************************************)
EXTENDS RateLimit, Integers, SequenceTheorems, FiniteSetTheorems, TLAPS

-----------------------------------------------------------------------------
(* Integer division *)

\* What \div and % return.
LEMMA DivMod ==
    ASSUME NEW L \in Nat \ {0}, NEW s \in Nat
    PROVE  /\ s \div L \in Nat
           /\ s = (s \div L) * L + (s % L)
           /\ s % L \in 0..(L - 1)
BY SMT

\* Multiples of L lie at least L apart.
LEMMA Multiples ==
    ASSUME NEW L \in Nat \ {0}, NEW a \in Nat, NEW b \in Nat, a < b
    PROVE  /\ a * L \in Nat /\ b * L \in Nat
           /\ a * L + L <= b * L
<1>1. PICK n \in Nat : b = a + 1 + n
  BY SMT
<1>2. b * L = a * L + L + n * L
  BY <1>1, SMT
<1>3. n * L \in Nat /\ a * L \in Nat /\ b * L \in Nat
  BY SMT
<1> QED
  BY <1>2, <1>3, SMT

\* Windows come in the order of time.
LEMMA DivMonotone ==
    ASSUME NEW L \in Nat \ {0}, NEW s \in Nat, NEW t \in Nat, s <= t
    PROVE  s \div L <= t \div L
<1> DEFINE a == s \div L
           b == t \div L
<1>1. /\ a \in Nat /\ b \in Nat
      /\ s = a * L + (s % L) /\ s % L \in 0..(L - 1)
      /\ t = b * L + (t % L) /\ t % L \in 0..(L - 1)
  BY DivMod
<1>2. SUFFICES ASSUME b < a PROVE FALSE
  BY <1>1, SMT
<1>3. b * L + L <= a * L /\ a * L \in Nat /\ b * L \in Nat
  BY <1>1, <1>2, Multiples
<1> HIDE DEF a, b
<1> QED
  BY <1>1, <1>3, SMT

\* A window's length later it is another window.
LEMMA DivNext ==
    ASSUME NEW L \in Nat \ {0}, NEW s \in Nat, NEW t \in Nat, t >= s + L
    PROVE  t \div L > s \div L
<1> DEFINE a == s \div L
           b == t \div L
<1>1. /\ a \in Nat /\ b \in Nat
      /\ s = a * L + (s % L) /\ s % L \in 0..(L - 1)
      /\ t = b * L + (t % L) /\ t % L \in 0..(L - 1)
  BY DivMod
<1>2. SUFFICES ASSUME b <= a PROVE FALSE
  BY <1>1, SMT
<1>3. b = a \/ (b * L + L <= a * L /\ a * L \in Nat /\ b * L \in Nat)
  BY <1>1, <1>2, Multiples
<1>4. a * L \in Nat /\ b * L \in Nat
  BY <1>1, SMT
<1> HIDE DEF a, b
<1> QED
  BY <1>1, <1>3, <1>4, SMT

-----------------------------------------------------------------------------
(* Facts about the model's data *)

\* Every key has a group with a limit, and a window of some length.
LEMMA KeyFacts ==
    ASSUME NEW k \in Keys
    PROVE  /\ Limit[k.group] \in Nat \ {0}
           /\ Length(k) \in Nat \ {0}
           /\ TimeToLive(k) \in Nat /\ TimeToLive(k) >= Length(k)
<1>1. k.group \in Groups
  BY DEF Keys, Key, Groups
<1> QED
  BY <1>1, RateLimitAssumption DEF Length, TimeToLive

\* The window a moment belongs to.
LEMMA WindowFacts ==
    ASSUME NEW k \in Keys, NEW s \in Nat, NEW t \in Nat, s <= t
    PROVE  /\ Window(s, k) \in Nat
           /\ Window(s, k) <= Window(t, k)
<1>1. Length(k) \in Nat \ {0}
  BY KeyFacts
<1> QED
  BY <1>1, DivMod, DivMonotone DEF Window

\* A counter outlives the window in which its expiry is set.
LEMMA OutlivesWindow ==
    ASSUME NEW k \in Keys, NEW s \in Nat
    PROVE  /\ s + TimeToLive(k) \in Nat
           /\ Window(s + TimeToLive(k), k) > Window(s, k)
<1>1. /\ Length(k) \in Nat \ {0}
      /\ TimeToLive(k) \in Nat /\ TimeToLive(k) >= Length(k)
  BY KeyFacts
<1>2. s + TimeToLive(k) \in Nat /\ s + TimeToLive(k) >= s + Length(k)
  BY <1>1, SMT
<1> QED
  BY <1>1, <1>2, DivNext DEF Window

\* What the middleware and the throttle consume are sequences of keys.
LEMMA KeySequences ==
    ASSUME NEW keys \in RequestKeys \cup ThrottleKeys
    PROVE  keys \in Seq(Keys) /\ keys # <<>>
<1>1. CASE keys \in RequestKeys
  <2>1. PICK r \in [path : {"auth", "messages", "other"}, client : Clients,
                    user : Users \cup {Nobody}, tenant : Tenants \cup {Nobody},
                    apiKey : Bots \cup {Nobody}] :
                keys = <<Classify(r.path, r.client, r.user, r.tenant, r.apiKey)>>
    BY <1>1 DEF RequestKeys
  <2>2. Classify(r.path, r.client, r.user, r.tenant, r.apiKey) \in Keys
    BY <2>1 DEF Classify, Keys
  <2> QED
    BY <2>1, <2>2
<1>2. CASE keys \in ThrottleKeys
  <2>1. PICK b \in Bots, c \in Chats : keys = <<Key("bot", b), Key("chat", <<b, c>>)>>
    BY <1>2, SMTT(20) DEF ThrottleKeys
  <2>2. Key("bot", b) \in Keys /\ Key("chat", <<b, c>>) \in Keys
    BY DEF Keys
  <2> QED
    BY <2>1, <2>2
<1> QED
  BY <1>1, <1>2
-----------------------------------------------------------------------------
(* The inductive invariant *)

CallTyped ==
    /\ call \in [Callers -> [pc : {"idle", "clock", "incr", "expire", "verdict"},
                             keys : Seq(Keys), window : Nat, ok : BOOLEAN]]
    /\ \A c \in Callers :
          call[c].pc \in {"clock", "incr", "expire"} => call[c].keys # <<>>

RedisTyped ==
    /\ DOMAIN redis \subseteq Keys \X Nat
    /\ \A x \in DOMAIN redis :
          redis[x] \in [count : Nat \ {0}, expires : Nat \cup {Never}]

\* A call under way computed its window from a clock that has only advanced.
WindowsPast ==
    \A c \in Callers :
        call[c].pc \in {"incr", "expire"} =>
           call[c].window <= Window(now, Head(call[c].keys))

\* A counter lives until its window is over.
OutliveWindows ==
    \A x \in DOMAIN redis :
        redis[x].expires # Never => Window(redis[x].expires, x[1]) > x[2]

\* The counter of the clock's window has counted every call that was granted.
GrantsCounted ==
    \A k \in Keys :
        granted[k] > 0 => /\ <<k, Window(now, k)>> \in DOMAIN redis
                          /\ granted[k] <= redis[<<k, Window(now, k)>>].count

LimitInv ==
    /\ now \in Nat
    /\ granted \in [Keys -> Nat]
    /\ CallTyped
    /\ RedisTyped
    /\ WindowsPast
    /\ OutliveWindows
    /\ GrantsCounted
    /\ WithinLimit

LEMMA LimitInitInv == LimitInit => LimitInv
<1> SUFFICES ASSUME LimitInit PROVE LimitInv
  OBVIOUS
<1>1. call \in [Callers -> [pc : {"idle", "clock", "incr", "expire", "verdict"},
                           keys : Seq(Keys), window : Nat, ok : BOOLEAN]]
  <2>1. NoCall \in [pc : {"idle", "clock", "incr", "expire", "verdict"},
                   keys : Seq(Keys), window : Nat, ok : BOOLEAN]
    BY DEF NoCall
  <2> QED
    BY <2>1 DEF LimitInit
<1>2. \A c \in Callers : call[c].pc = "idle"
  BY DEF LimitInit, NoCall
<1>3. DOMAIN redis = {}
  BY DEF LimitInit
<1>4. \A k \in Keys : granted[k] = 0
  BY DEF LimitInit
<1>5. WithinLimit
  BY <1>4, KeyFacts DEF WithinLimit
<1> QED
  BY <1>1, <1>2, <1>3, <1>4, <1>5
  DEF LimitInit, LimitInv, CallTyped, RedisTyped, WindowsPast, OutliveWindows,
      GrantsCounted

\* What a call under way works on.
LEMMA CallFacts ==
    ASSUME LimitInv, NEW c \in Callers,
           call[c].pc \in {"clock", "incr", "expire"}
    PROVE  /\ call[c].keys \in Seq(Keys) /\ call[c].keys # <<>>
           /\ Head(call[c].keys) \in Keys
           /\ Tail(call[c].keys) \in Seq(Keys)
           /\ Len(call[c].keys) \in Nat
           /\ Len(call[c].keys) # 1 => Tail(call[c].keys) # <<>>
           /\ call[c].window \in Nat
           /\ Counter(c) \in Keys \X Nat
           /\ Counter(c)[1] = Head(call[c].keys)
           /\ Counter(c)[2] = call[c].window
<1>1. /\ call[c].keys \in Seq(Keys) /\ call[c].keys # <<>>
      /\ call[c].window \in Nat
  BY DEF LimitInv, CallTyped
<1>2. Len(call[c].keys) \in Nat
  BY <1>1, LenProperties
<1>3. /\ Head(call[c].keys) \in Keys
      /\ Tail(call[c].keys) \in Seq(Keys)
      /\ Len(Tail(call[c].keys)) = Len(call[c].keys) - 1
  BY <1>1, HeadTailProperties
<1>4. Len(call[c].keys) # 1 => Tail(call[c].keys) # <<>>
  <2>1. SUFFICES ASSUME Tail(call[c].keys) = <<>> PROVE Len(call[c].keys) = 1
    OBVIOUS
  <2>2. Len(<<>>) = 0
    OBVIOUS
  <2>3. Len(Tail(call[c].keys)) = 0
    BY <2>1, <2>2, Zenon
  <2> QED
    BY <1>2, <1>3, <2>3
<1> QED
  BY <1>1, <1>2, <1>3, <1>4 DEF Counter

\* A call that goes on to its next key keeps the calls in order.
LEMMA CallMoves ==
    ASSUME LimitInv, NEW c \in Callers, call[c].pc \in {"incr", "expire"},
           NEW ok \in BOOLEAN, UNCHANGED now,
           call' = [call EXCEPT ![c] = NextKey(c, ok)]
    PROVE  CallTyped' /\ WindowsPast'
<1>1. NextKey(c, ok) \in [pc : {"clock", "verdict"}, keys : Seq(Keys),
                         window : Nat, ok : BOOLEAN]
  <2>1. /\ Tail(call[c].keys) \in Seq(Keys) /\ Len(call[c].keys) \in Nat
    BY CallFacts
  <2>2. call[c] \in [pc : {"incr", "expire"}, keys : Seq(Keys), window : Nat, ok : BOOLEAN]
    BY DEF LimitInv, CallTyped
  <2> QED
    BY <2>1, <2>2, ZenonT(60) DEF NextKey
<1>2. NextKey(c, ok).pc = "clock" => NextKey(c, ok).keys # <<>>
  BY CallFacts DEF NextKey, LimitInv, CallTyped
<1>3. CallTyped'
  BY <1>1, <1>2 DEF LimitInv, CallTyped
<1>4. WindowsPast'
  BY <1>1 DEF LimitInv, CallTyped, WindowsPast
<1> QED
  BY <1>3, <1>4

\* INCR: it counts the call before it is granted.
LEMMA IncrInv ==
    ASSUME LimitInv, NEW c \in Callers, Incr(c)
    PROVE  LimitInv'
<1> DEFINE x == Counter(c)
           k == Head(call[c].keys)
           count == IF x \in DOMAIN redis THEN redis[x].count + 1 ELSE 1
           expires == IF x \in DOMAIN redis THEN redis[x].expires ELSE Never
           within == count <= Limit[k.group]
<1>1. /\ call[c].pc = "incr"
      /\ redis' = [y \in DOMAIN redis \cup {x} |->
                      IF y = x THEN [count |-> count, expires |-> expires]
                               ELSE redis[y]]
      /\ call' = [call EXCEPT ![c] = IF count = 1 THEN [@ EXCEPT !.pc = "expire"]
                                     ELSE NextKey(c, within)]
      /\ granted' = IF within /\ call[c].window = Window(now, k)
                    THEN [granted EXCEPT ![k] = @ + 1]
                    ELSE granted
      /\ now' = now
  BY DEF Incr
<1>2. /\ k \in Keys /\ x \in Keys \X Nat
      /\ x = <<k, call[c].window>> /\ call[c].window \in Nat
      /\ call[c].window <= Window(now, k)
      /\ now \in Nat /\ Window(now, k) \in Nat
      /\ Limit[k.group] \in Nat \ {0}
  <2>1. /\ k \in Keys /\ call[c].window \in Nat
        /\ x = <<k, call[c].window>>
    BY <1>1, CallFacts DEF Counter
  <2>2. now \in Nat /\ call[c].window <= Window(now, k)
    BY <1>1 DEF LimitInv, WindowsPast
  <2>3. Window(now, k) \in Nat
    BY <2>1, <2>2, WindowFacts
  <2>4. Limit[k.group] \in Nat \ {0}
    BY <2>1, KeyFacts
  <2> QED
    BY <2>1, <2>2, <2>3, <2>4
<1>3. count \in Nat \ {0} /\ expires \in Nat \cup {Never} /\ within \in BOOLEAN
  BY <1>2 DEF LimitInv, RedisTyped
<1>4. /\ DOMAIN redis' = DOMAIN redis \cup {x}
      /\ redis'[x] = [count |-> count, expires |-> expires]
      /\ \A y \in DOMAIN redis : y # x => redis'[y] = redis[y]
  BY <1>1
<1> HIDE DEF count, expires, within, x, k
<1>5. CallTyped' /\ WindowsPast'
  <2>1. CASE count # 1
    BY <1>1, <1>3, <2>1, CallMoves
  <2>2. CASE count = 1
    <3>1. call' = [call EXCEPT ![c] = [@ EXCEPT !.pc = "expire"]]
      BY <1>1, <2>2
    <3>2. \A d \in Callers : /\ call'[d].keys = call[d].keys
                             /\ call'[d].window = call[d].window
                             /\ d # c => call'[d].pc = call[d].pc
      BY <3>1 DEF LimitInv, CallTyped
    <3>3. call[c].pc = "incr"
      BY <1>1
    <3>4. CallTyped'
      BY <3>1, <3>2, <3>3, ZenonT(40) DEF LimitInv, CallTyped
    <3>5. WindowsPast'
      <4>1. now' = now
        BY <1>1
      <4> QED
        BY <3>2, <3>3, <4>1 DEF LimitInv, WindowsPast, Window, Length
    <3> QED
      BY <3>4, <3>5
  <2> QED
    BY <2>1, <2>2
<1>6. RedisTyped'
  BY <1>2, <1>3, <1>4 DEF LimitInv, RedisTyped
<1>7. OutliveWindows'
  <2> SUFFICES ASSUME NEW y \in DOMAIN redis', redis'[y].expires # Never
               PROVE  Window(redis'[y].expires, y[1]) > y[2]
    BY DEF OutliveWindows, Window, Length
  <2>1. y \in DOMAIN redis /\ redis'[y].expires = redis[y].expires
    BY <1>4 DEF expires
  <2> QED
    BY <2>1 DEF LimitInv, OutliveWindows
<1>8. granted' \in [Keys -> Nat]
  BY <1>1, <1>2 DEF LimitInv
<1>9. GrantsCounted' /\ WithinLimit'
  <2> SUFFICES ASSUME NEW j \in Keys
               PROVE  /\ granted'[j] > 0 =>
                            /\ <<j, Window(now, j)>> \in DOMAIN redis'
                            /\ granted'[j] <= redis'[<<j, Window(now, j)>>].count
                      /\ granted'[j] <= Limit[j.group]
    BY <1>1 DEF GrantsCounted, WithinLimit, Window, Length
  <2> DEFINE z == <<j, Window(now, j)>>
  <2>1. /\ granted[j] > 0 => z \in DOMAIN redis /\ granted[j] <= redis[z].count
        /\ granted[j] <= Limit[j.group] /\ granted[j] \in Nat
        /\ \A y \in DOMAIN redis : redis[y].count \in Nat
        /\ Limit[j.group] \in Nat
    BY KeyFacts DEF LimitInv, GrantsCounted, WithinLimit, RedisTyped
  <2>2. z \in DOMAIN redis =>
           z \in DOMAIN redis' /\ redis'[z].count >= redis[z].count
    BY <1>4, <2>1 DEF count
  <2>3. CASE within /\ call[c].window = Window(now, k) /\ j = k
    <3>1. granted'[j] = granted[j] + 1 /\ z = x
      BY <1>1, <1>2, <2>3 DEF LimitInv
    <3>2. granted[j] + 1 <= count
      BY <2>1, <3>1 DEF count
    <3> QED
      BY <1>2, <1>3, <1>4, <2>1, <2>3, <3>1, <3>2 DEF within
  <2>4. CASE ~(within /\ call[c].window = Window(now, k) /\ j = k)
    <3>1. granted'[j] = granted[j]
      BY <1>1, <1>2, <2>4 DEF LimitInv
    <3>2. z \in DOMAIN redis' => redis'[z].count \in Nat
      BY <1>3, <1>4, <2>1
    <3> QED
      BY <2>1, <2>2, <3>1, <3>2
  <2> QED
    BY <2>3, <2>4
<1> QED
  BY <1>1, <1>5, <1>6, <1>7, <1>8, <1>9 DEF LimitInv

\* A call that starts, or goes on to its next key, is in the clock's window.
LEMMA ConsumeInv ==
    ASSUME LimitInv, NEW c \in Callers, NEW keys \in Seq(Keys), keys # <<>>,
           NEW ok \in BOOLEAN,
           call' = [call EXCEPT ![c] = [pc |-> "incr", keys |-> keys,
                                        window |-> Window(now, Head(keys)), ok |-> ok]],
           UNCHANGED <<now, redis, granted>>
    PROVE  LimitInv'
<1>1. Head(keys) \in Keys
  BY HeadTailProperties
<1>2. Window(now, Head(keys)) \in Nat
  BY <1>1, WindowFacts DEF LimitInv
<1>3. CallTyped'
  BY <1>2 DEF LimitInv, CallTyped
<1>4. WindowsPast'
  <2> SUFFICES ASSUME NEW d \in Callers, call'[d].pc \in {"incr", "expire"}
               PROVE  call'[d].window <= Window(now, Head(call'[d].keys))
    BY DEF WindowsPast, Window, Length
  <2>1. CASE d = c
    <3>1. call'[d].window = Window(now, Head(keys)) /\ call'[d].keys = keys
      BY <2>1 DEF LimitInv, CallTyped
    <3> QED
      BY <1>2, <3>1
  <2>2. CASE d # c
    BY <2>2 DEF LimitInv, CallTyped, WindowsPast
  <2> QED
    BY <2>1, <2>2
<1> QED
  BY <1>3, <1>4
  DEF LimitInv, RedisTyped, OutliveWindows, GrantsCounted, WithinLimit, Window, Length

\* EXPIRE: the counter outlives its window.
LEMMA SetExpiryInv ==
    ASSUME LimitInv, NEW c \in Callers, SetExpiry(c)
    PROVE  LimitInv'
<1> DEFINE x == Counter(c)
           k == Head(call[c].keys)
           expires == now + TimeToLive(k)
<1>1. /\ call[c].pc = "expire"
      /\ redis' = [redis EXCEPT ![x].expires = expires]
      /\ call' = [call EXCEPT ![c] = NextKey(c, TRUE)]
      /\ UNCHANGED <<now, granted>>
  BY DEF SetExpiry
<1>2. k \in Keys /\ x[1] = k /\ x[2] = call[c].window /\ x[2] \in Nat
  BY <1>1, CallFacts
<1>3. now \in Nat /\ x[2] <= Window(now, k)
  BY <1>1, <1>2 DEF LimitInv, WindowsPast
<1>4. expires \in Nat /\ Window(expires, k) > Window(now, k)
  BY <1>2, <1>3, OutlivesWindow
<1>5. Window(now, k) \in Nat /\ Window(expires, k) \in Nat
  BY <1>2, <1>3, <1>4, WindowFacts
<1>6. Window(expires, x[1]) > x[2]
  BY <1>2, <1>3, <1>4, <1>5
<1> HIDE DEF x, k, expires
<1>7. /\ DOMAIN redis' = DOMAIN redis
      /\ \A y \in DOMAIN redis :
            /\ redis'[y].count = redis[y].count
            /\ redis'[y].expires = IF y = x THEN expires ELSE redis[y].expires
            /\ redis'[y] \in [count : Nat \ {0}, expires : Nat \cup {Never}]
  BY <1>1, <1>4 DEF LimitInv, RedisTyped
<1>8. CallTyped' /\ WindowsPast'
  BY <1>1, CallMoves
<1>9. RedisTyped'
  BY <1>7 DEF LimitInv, RedisTyped
<1>10. OutliveWindows'
  BY <1>6, <1>7 DEF LimitInv, OutliveWindows, Window, Length
<1>11. GrantsCounted'
  BY <1>1, <1>7 DEF LimitInv, GrantsCounted, Window, Length
<1> QED
  BY <1>1, <1>8, <1>9, <1>10, <1>11 DEF LimitInv, WithinLimit

\* A second passes: the counters of the clock's window stay.
LEMMA TickInv ==
    ASSUME LimitInv, Tick
    PROVE  LimitInv'
<1>1. /\ now' = now + 1 /\ now \in Nat /\ now' \in Nat
      /\ redis' = [x \in {y \in DOMAIN redis : redis[y].expires # now'} |-> redis[x]]
      /\ granted' = [k \in Keys |-> IF Window(now', k) = Window(now, k)
                                    THEN granted[k] ELSE 0]
      /\ call' = call
  BY DEF Tick, LimitInv
<1>2. /\ \A x \in DOMAIN redis' : x \in DOMAIN redis /\ redis'[x] = redis[x]
      /\ \A x \in DOMAIN redis : redis[x].expires # now' => x \in DOMAIN redis'
  BY <1>1
<1>3. WindowsPast'
  <2> SUFFICES ASSUME NEW c \in Callers, call[c].pc \in {"incr", "expire"}
               PROVE  call[c].window <= Window(now', Head(call[c].keys))
    BY <1>1 DEF WindowsPast, Window, Length
  <2> DEFINE k == Head(call[c].keys)
  <2>1. k \in Keys /\ call[c].window \in Nat /\ call[c].window <= Window(now, k)
    BY CallFacts DEF LimitInv, WindowsPast
  <2>2. now <= now'
    BY <1>1
  <2>3. /\ Window(now, k) \in Nat /\ Window(now', k) \in Nat
        /\ Window(now, k) <= Window(now', k)
    BY <1>1, <2>1, <2>2, WindowFacts
  <2> QED
    BY <2>1, <2>3
<1>4. GrantsCounted'
  <2> SUFFICES ASSUME NEW k \in Keys, granted'[k] > 0
               PROVE  /\ <<k, Window(now', k)>> \in DOMAIN redis'
                      /\ granted'[k] <= redis'[<<k, Window(now', k)>>].count
    BY DEF GrantsCounted, Window, Length
  <2> DEFINE z == <<k, Window(now', k)>>
  <2>1. Window(now', k) = Window(now, k) /\ granted'[k] = granted[k]
    BY <1>1
  <2>2. z \in DOMAIN redis /\ granted[k] <= redis[z].count
    BY <2>1 DEF LimitInv, GrantsCounted
  <2>3. redis[z].expires # now'
    <3>1. SUFFICES ASSUME redis[z].expires = now' PROVE FALSE
      OBVIOUS
    <3>2. now' # Never
      BY <1>1, RateLimitAssumption
    <3>3. Window(now', k) > Window(now', k)
      BY <2>2, <3>1, <3>2 DEF LimitInv, OutliveWindows
    <3>4. Window(now', k) \in Nat
      BY <1>1, WindowFacts
    <3> QED
      BY <3>3, <3>4
  <2> QED
    BY <1>2, <2>1, <2>2, <2>3
<1>5. granted' \in [Keys -> Nat]
  BY <1>1 DEF LimitInv
<1>6. WithinLimit'
  BY <1>1, KeyFacts DEF LimitInv, WithinLimit
<1>7. RedisTyped' /\ OutliveWindows'
  BY <1>2 DEF LimitInv, RedisTyped, OutliveWindows, Window, Length
<1>8. CallTyped'
  BY <1>1 DEF LimitInv, CallTyped
<1> QED
  BY <1>1, <1>3, <1>4, <1>5, <1>6, <1>7, <1>8 DEF LimitInv

\* A call that answers or dies leaves the counters alone.
LEMMA CallEndsInv ==
    ASSUME LimitInv, NEW c \in Callers, call' = [call EXCEPT ![c] = NoCall],
           UNCHANGED <<now, redis, granted>>
    PROVE  LimitInv'
<1>1. NoCall \in [pc : {"idle"}, keys : Seq(Keys), window : Nat, ok : BOOLEAN]
  BY EmptySeq DEF NoCall
<1>2. CallTyped'
  BY <1>1 DEF LimitInv, CallTyped
<1>3. WindowsPast'
  BY <1>1 DEF LimitInv, CallTyped, WindowsPast, Window, Length
<1> QED
  BY <1>2, <1>3
  DEF LimitInv, RedisTyped, OutliveWindows, GrantsCounted, WithinLimit, Window, Length

\* Every step of the limiter, and every step that leaves it alone.
LEMMA LimitNextInv == LimitInv /\ [LimitNext]_limitVars => LimitInv'
<1> SUFFICES ASSUME LimitInv, [LimitNext]_limitVars PROVE LimitInv'
  OBVIOUS
<1>1. ASSUME NEW c \in Callers, NEW keys \in RequestKeys \cup ThrottleKeys,
             StartCall(c, keys)
      PROVE  LimitInv'
  <2>1. keys \in Seq(Keys) /\ keys # <<>>
    BY KeySequences
  <2> QED
    BY <1>1, <2>1, ConsumeInv DEF StartCall, Consume
<1>2. ASSUME NEW c \in Callers, ReadClock(c) PROVE LimitInv'
  <2>1. call[c].keys \in Seq(Keys) /\ call[c].keys # <<>> /\ call[c].ok \in BOOLEAN
    BY <1>2, CallFacts DEF ReadClock, LimitInv, CallTyped
  <2> QED
    BY <1>2, <2>1, ConsumeInv DEF ReadClock, Consume
<1>3. ASSUME NEW c \in Callers, Incr(c) PROVE LimitInv'
  BY <1>3, IncrInv
<1>4. ASSUME NEW c \in Callers, SetExpiry(c) PROVE LimitInv'
  BY <1>4, SetExpiryInv
<1>5. ASSUME NEW c \in Callers, Answer(c) PROVE LimitInv'
  BY <1>5, CallEndsInv DEF Answer
<1>6. ASSUME NEW c \in Callers, CallDies(c) PROVE LimitInv'
  BY <1>6, CallEndsInv DEF CallDies
<1>7. CASE Tick
  BY <1>7, TickInv
<1>8. CASE UNCHANGED limitVars
  BY <1>8
  DEF limitVars, LimitInv, CallTyped, RedisTyped, WindowsPast, OutliveWindows,
      GrantsCounted, WithinLimit, Window, Length
<1> QED
  BY <1>1, <1>2, <1>3, <1>4, <1>5, <1>6, <1>7, <1>8 DEF LimitNext

-----------------------------------------------------------------------------
\* No window lets more than the limit through, for any limits, any window and
\* any number of calls, wherever they die.
THEOREM LimitHolds == LimitSpec => []WithinLimit
<1>1. LimitInv => WithinLimit
  BY DEF LimitInv
<1> QED
  BY <1>1, LimitInitInv, LimitNextInv, PTL DEF LimitSpec

-----------------------------------------------------------------------------
(* Counters without an expiry *)

\* The two sets that CountersExpire compares.
Eternal == {x \in DOMAIN redis : redis[x].expires = Never}
Expiring == {c \in Callers : call[c].pc = "expire"}

\* It says that all but as many as the deaths are owed an expiry.
LEMMA Accounts ==
    /\ CountersExpire <=> Cardinality(Eternal) <= Cardinality(Expiring) + deaths
    /\ CountersExpire' <=> Cardinality(Eternal') <= Cardinality(Expiring') + deaths'
BY DEF CountersExpire, Eternal, Expiring

\* Each call about to set an expiry owes it to a counter of its own that has
\* none, and the counters nobody owes an expiry are as many as the deaths.
ExpiryInv ==
    /\ IsFiniteSet(Eternal) /\ IsFiniteSet(Expiring)
    /\ deaths \in Nat
    /\ \A c \in Expiring : Counter(c) \in Eternal
    /\ \A c, d \in Expiring : Counter(c) = Counter(d) => c = d
    /\ CountersExpire

\* Steps that neither create a counter nor give one its expiry.
LEMMA ExpiryFrame ==
    ASSUME ExpiryInv, Eternal' = Eternal, Expiring' = Expiring,
           \A c \in Expiring : Counter(c)' = Counter(c), deaths' = deaths
    PROVE  ExpiryInv'
BY DEF ExpiryInv, CountersExpire, Eternal, Expiring

\* The call that creates a counter is new among those about to set an expiry,
\* and its counter among those without.
LEMMA IncrExpiry ==
    ASSUME LimitInv, ExpiryInv, NEW c \in Callers, Incr(c)
    PROVE  ExpiryInv'
<1>1. /\ call[c].pc = "incr" /\ deaths' = deaths /\ c \notin Expiring
      /\ \A d \in Callers : d # c => call'[d] = call[d]
      /\ Counter(c) \in DOMAIN redis' /\ DOMAIN redis' = DOMAIN redis \cup {Counter(c)}
      /\ \A x \in DOMAIN redis : x # Counter(c) => redis'[x] = redis[x]
  BY DEF Incr, Expiring, LimitInv, CallTyped
<1>2. \A d \in Callers : d # c => Counter(d)' = Counter(d)
  BY <1>1 DEF Counter
<1>3. CASE Counter(c) \in DOMAIN redis
  <2>1. /\ redis'[Counter(c)].expires = redis[Counter(c)].expires
        /\ redis[Counter(c)].count \in Nat \ {0}
    BY <1>3 DEF Incr, LimitInv, RedisTyped
  <2>2. call'[c].pc \in {"verdict", "clock"}
    BY <1>1, <1>3, <2>1 DEF Incr, NextKey, LimitInv, CallTyped
  <2>3. Eternal' = Eternal
    BY <1>1, <1>3, <2>1 DEF Eternal
  <2>4. Expiring' = Expiring
    BY <1>1, <2>2 DEF Expiring
  <2> QED
    BY <1>1, <1>2, <2>3, <2>4, ExpiryFrame DEF Expiring
<1>4. CASE Counter(c) \notin DOMAIN redis
  <2>1. redis'[Counter(c)].expires = Never
    BY <1>4 DEF Incr
  <2>2. call'[c] = [call[c] EXCEPT !.pc = "expire"]
    BY <1>1, <1>4 DEF Incr, LimitInv, CallTyped
  <2>3. call'[c].pc = "expire" /\ Counter(c)' = Counter(c)
    BY <1>1, <2>2 DEF Counter, LimitInv, CallTyped
  <2>4. Eternal' = Eternal \cup {Counter(c)} /\ Counter(c) \notin Eternal
    BY <1>1, <1>4, <2>1 DEF Eternal
  <2>5. Expiring' = Expiring \cup {c}
    BY <1>1, <2>3 DEF Expiring
  <2>6. IsFiniteSet(Expiring)
    BY DEF ExpiryInv
  <2>7. /\ IsFiniteSet(Eternal') /\ IsFiniteSet(Expiring')
        /\ Cardinality(Eternal') = Cardinality(Eternal) + 1
        /\ Cardinality(Expiring') = Cardinality(Expiring) + 1
    BY <1>1, <2>4, <2>5, <2>6, FS_AddElement DEF ExpiryInv
  <2>8. Cardinality(Eternal) \in Nat /\ Cardinality(Expiring) \in Nat
    BY <2>6, FS_CardinalityType DEF ExpiryInv
  <2>9. CountersExpire'
    BY <1>1, <2>7, <2>8, Accounts DEF ExpiryInv
  <2>10. \A d \in Expiring' : Counter(d)' \in Eternal'
    BY <1>2, <2>3, <2>4, <2>5 DEF ExpiryInv, Expiring
  <2>11. \A d, e \in Expiring' : Counter(d)' = Counter(e)' => d = e
    BY <1>2, <2>3, <2>4, <2>5 DEF ExpiryInv, Expiring
  <2> QED
    BY <1>1, <2>7, <2>9, <2>10, <2>11 DEF ExpiryInv
<1> QED
  BY <1>3, <1>4

\* A call that is through with its counter, or dies, owes no expiry any more.
LEMMA ExpiringLess ==
    ASSUME IsFiniteSet(Expiring), NEW c \in Expiring, Expiring' = Expiring \ {c}
    PROVE  /\ IsFiniteSet(Expiring')
           /\ Cardinality(Expiring) \in Nat /\ Cardinality(Expiring') \in Nat
           /\ Cardinality(Expiring') = Cardinality(Expiring) - 1
<1>1. IsFiniteSet(Expiring') /\ Cardinality(Expiring') = Cardinality(Expiring) - 1
  BY FS_RemoveElement
<1> QED
  BY <1>1, FS_CardinalityType

\* EXPIRE settles the debt of the call with the counter it created.
LEMMA SetExpiryExpiry ==
    ASSUME LimitInv, ExpiryInv, NEW c \in Callers, SetExpiry(c)
    PROVE  ExpiryInv'
<1>1. /\ c \in Expiring /\ Counter(c) \in Eternal /\ deaths' = deaths
      /\ \A d \in Callers : d # c => call'[d] = call[d]
      /\ DOMAIN redis' = DOMAIN redis
      /\ \A x \in DOMAIN redis : x # Counter(c) => redis'[x] = redis[x]
  BY DEF SetExpiry, Expiring, ExpiryInv, LimitInv, CallTyped
<1>2. redis'[Counter(c)].expires # Never
  <2>1. now + TimeToLive(Head(call[c].keys)) \in Nat
    <3>1. Head(call[c].keys) \in Keys
      BY <1>1, CallFacts DEF Expiring
    <3> QED
      BY <3>1, KeyFacts DEF LimitInv
  <2>2. redis'[Counter(c)].expires = now + TimeToLive(Head(call[c].keys))
    BY <1>1 DEF SetExpiry, Eternal, LimitInv, RedisTyped
  <2> QED
    BY <2>1, <2>2, RateLimitAssumption
<1>3. Eternal' = Eternal \ {Counter(c)}
  BY <1>1, <1>2 DEF Eternal
<1>4. call'[c].pc # "expire"
  BY DEF SetExpiry, NextKey, LimitInv, CallTyped
<1>5. Expiring' = Expiring \ {c}
  BY <1>1, <1>4 DEF Expiring
<1>6. \A d \in Expiring' : Counter(d)' = Counter(d) /\ d \in Expiring /\ d # c
  BY <1>1, <1>5 DEF Counter, Expiring
<1>7. /\ IsFiniteSet(Eternal') /\ Cardinality(Eternal) \in Nat
      /\ Cardinality(Eternal') = Cardinality(Eternal) - 1
  BY <1>1, <1>3, FS_RemoveElement, FS_CardinalityType DEF ExpiryInv
<1>8. CountersExpire' /\ IsFiniteSet(Expiring')
  <2>1. /\ IsFiniteSet(Expiring')
        /\ Cardinality(Expiring) \in Nat /\ Cardinality(Expiring') \in Nat
        /\ Cardinality(Expiring') = Cardinality(Expiring) - 1
    BY <1>1, <1>5, ExpiringLess DEF ExpiryInv
  <2> QED
    BY <1>1, <1>7, <2>1, Accounts DEF ExpiryInv
<1>9. \A d \in Expiring' : Counter(d)' \in Eternal'
  BY <1>1, <1>3, <1>6 DEF ExpiryInv
<1>10. \A d, e \in Expiring' : Counter(d)' = Counter(e)' => d = e
  BY <1>6 DEF ExpiryInv
<1> QED
  BY <1>1, <1>7, <1>8, <1>9, <1>10 DEF ExpiryInv

\* A death leaves behind one counter without an expiry at most.
LEMMA DeathExpiry ==
    ASSUME LimitInv, ExpiryInv, NEW c \in Callers, CallDies(c)
    PROVE  ExpiryInv'
<1>1. /\ deaths' = deaths + 1 /\ Eternal' = Eternal
      /\ \A d \in Callers : d # c => call'[d] = call[d]
      /\ call'[c].pc = "idle"
  BY DEF CallDies, Eternal, NoCall, LimitInv, CallTyped
<1>2. Expiring' = Expiring \ {c}
  BY <1>1 DEF Expiring
<1>3. \A d \in Expiring' : Counter(d)' = Counter(d) /\ d \in Expiring
  BY <1>1, <1>2 DEF Counter, Expiring
<1>4. Cardinality(Eternal) \in Nat
  BY FS_CardinalityType DEF ExpiryInv
<1>5. CountersExpire' /\ IsFiniteSet(Expiring')
  <2>1. CASE c \in Expiring
    <3>1. /\ IsFiniteSet(Expiring')
          /\ Cardinality(Expiring) \in Nat /\ Cardinality(Expiring') \in Nat
          /\ Cardinality(Expiring') = Cardinality(Expiring) - 1
      BY <1>2, <2>1, ExpiringLess DEF ExpiryInv
    <3> QED
      BY <1>1, <1>4, <3>1, Accounts DEF ExpiryInv
  <2>2. CASE c \notin Expiring
    <3>1. IsFiniteSet(Expiring) /\ Expiring' = Expiring
      BY <1>2, <2>2 DEF ExpiryInv
    <3>2. Cardinality(Expiring) \in Nat
      BY <3>1, FS_CardinalityType
    <3> QED
      BY <1>1, <1>4, <3>1, <3>2, Accounts DEF ExpiryInv
  <2> QED
    BY <2>1, <2>2
<1> QED
  BY <1>1, <1>3, <1>5 DEF ExpiryInv

\* Every step keeps the account.
LEMMA ExpiryNextInv ==
    ASSUME LimitInv, ExpiryInv, [LimitNext]_limitVars
    PROVE  ExpiryInv'
<1>1. ASSUME NEW c \in Callers, call'[c].pc # "expire", call[c].pc # "expire",
             \A d \in Callers : d # c => call'[d] = call[d],
             deaths' = deaths, redis' = redis
      PROVE  ExpiryInv'
  <2>1. Eternal' = Eternal /\ Expiring' = Expiring
    BY <1>1 DEF Eternal, Expiring
  <2>2. \A d \in Expiring : Counter(d)' = Counter(d)
    BY <1>1 DEF Counter, Expiring
  <2> QED
    BY <1>1, <2>1, <2>2, ExpiryFrame
<1>2. ASSUME NEW c \in Callers, NEW keys \in RequestKeys \cup ThrottleKeys,
             StartCall(c, keys)
      PROVE  ExpiryInv'
  <2>1. /\ call'[c].pc = "incr" /\ call[c].pc = "idle"
        /\ \A d \in Callers : d # c => call'[d] = call[d]
    BY <1>2 DEF StartCall, Consume, LimitInv, CallTyped
  <2> QED
    BY <1>1, <1>2, <2>1 DEF StartCall
<1>3. ASSUME NEW c \in Callers, ReadClock(c) PROVE ExpiryInv'
  <2>1. /\ call'[c].pc = "incr" /\ call[c].pc = "clock"
        /\ \A d \in Callers : d # c => call'[d] = call[d]
    BY <1>3 DEF ReadClock, Consume, LimitInv, CallTyped
  <2> QED
    BY <1>1, <1>3, <2>1 DEF ReadClock
<1>4. ASSUME NEW c \in Callers, Answer(c) PROVE ExpiryInv'
  <2>1. /\ call'[c].pc = "idle" /\ call[c].pc = "verdict"
        /\ \A d \in Callers : d # c => call'[d] = call[d]
    BY <1>4 DEF Answer, NoCall, LimitInv, CallTyped
  <2> QED
    BY <1>1, <1>4, <2>1 DEF Answer
<1>5. CASE Tick
  <2>1. now + 1 # Never
    BY RateLimitAssumption DEF LimitInv
  <2>2. Eternal' = Eternal
    BY <1>5, <2>1 DEF Tick, Eternal
  <2> QED
    BY <1>5, <2>2, ExpiryFrame DEF Tick, Expiring, Counter
<1>6. CASE UNCHANGED limitVars
  BY <1>6, ExpiryFrame DEF limitVars, Eternal, Expiring, Counter
<1> QED
  BY <1>2, <1>3, <1>4, <1>5, <1>6, IncrExpiry, SetExpiryExpiry, DeathExpiry
     DEF LimitNext

\* A counter that will live for ever is the doing of a call that died, one
\* counter a death, for any number of callers.
THEOREM CountersAreAccountedFor == LimitSpec => []CountersExpire
<1>1. LimitInit => ExpiryInv
  <2> SUFFICES ASSUME LimitInit PROVE ExpiryInv
    OBVIOUS
  <2>1. Eternal = {} /\ Expiring = {} /\ deaths = 0
    BY DEF LimitInit, Eternal, Expiring, NoCall
  <2> QED
    BY <2>1, FS_EmptySet, Accounts DEF ExpiryInv
<1>2. LimitInv /\ ExpiryInv /\ [LimitNext]_limitVars => ExpiryInv'
  BY ExpiryNextInv
<1>3. ExpiryInv => CountersExpire
  BY DEF ExpiryInv
<1> QED
  BY <1>1, <1>2, <1>3, LimitInitInv, LimitNextInv, PTL DEF LimitSpec

-----------------------------------------------------------------------------
(* Types and bounds *)

\* A window is numbered no later than its moments.
LEMMA WindowBounded ==
    ASSUME NEW k \in Keys, NEW t \in Nat
    PROVE  Window(t, k) \in 0..t
<1> DEFINE L == Length(k)
           a == t \div L
<1>1. L \in Nat \ {0}
  BY KeyFacts
<1>2. /\ a \in Nat /\ t % L \in 0..(L - 1)
      /\ t = a * L + (t % L)
  BY <1>1, DivMod
<1> HIDE DEF a, L
<1>3. PICK m \in Nat : L = 1 + m
  BY <1>1, SMT
<1>4. a * L = a + a * m /\ a * m \in Nat
  BY <1>2, <1>3, SMT
<1>5. a <= t
  BY <1>1, <1>2, <1>4, SMT
<1> QED
  BY <1>2, <1>5 DEF Window, a, L

Elements(s) == {s[i] : i \in 1..Len(s)}

\* A call has two keys at most, and they differ.
ShortList(s) ==
    \/ s = <<>>
    \/ \E a \in Keys : s = <<a>>
    \/ \E a, b \in Keys : a # b /\ s = <<a, b>>

\* What is left of such a list behind its head.
LEMMA ShortLists ==
    ASSUME NEW s, ShortList(s)
    PROVE  /\ Len(s) \in Nat /\ Len(s) <= 2
           /\ s # <<>> => /\ Head(s) \in Elements(s)
                          /\ ShortList(Tail(s))
                          /\ Elements(Tail(s)) = Elements(s) \ {Head(s)}
                          /\ Len(s) = 1 => Tail(s) = <<>>
           /\ Elements(<<>>) = {}
<1>1. Elements(<<>>) = {} /\ ShortList(<<>>)
  BY DEF Elements, ShortList
<1>2. ASSUME NEW a, s = <<a>>
      PROVE  /\ Len(s) = 1 /\ Head(s) = a /\ Tail(s) = <<>> /\ Elements(s) = {a}
  BY <1>2 DEF Elements
<1>3. ASSUME NEW a, NEW b, a # b, s = <<a, b>>
      PROVE  /\ Len(s) = 2 /\ Head(s) = a /\ Tail(s) = <<b>>
             /\ Elements(s) = {a, b} /\ Elements(<<b>>) = {b}
  BY <1>3 DEF Elements
<1>4. CASE s = <<>>
  BY <1>1, <1>4
<1>5. CASE \E a \in Keys : s = <<a>>
  BY <1>1, <1>2, <1>5
<1>6. CASE \E a, b \in Keys : a # b /\ s = <<a, b>>
  <2>1. PICK a, b \in Keys : a # b /\ s = <<a, b>>
    BY <1>6
  <2>2. ShortList(<<b>>)
    BY DEF ShortList
  <2> QED
    BY <1>1, <1>3, <2>1, <2>2
<1> QED
  BY <1>4, <1>5, <1>6 DEF ShortList

\* Requests consume one key, the throttle its bot's and its chat's.
LEMMA KeysShort ==
    ASSUME NEW keys \in RequestKeys \cup ThrottleKeys
    PROVE  ShortList(keys)
<1>1. CASE keys \in RequestKeys
  <2>1. PICK r \in [path : {"auth", "messages", "other"}, client : Clients,
                    user : Users \cup {Nobody}, tenant : Tenants \cup {Nobody},
                    apiKey : Bots \cup {Nobody}] :
                keys = <<Classify(r.path, r.client, r.user, r.tenant, r.apiKey)>>
    BY <1>1 DEF RequestKeys
  <2>2. Classify(r.path, r.client, r.user, r.tenant, r.apiKey) \in Keys
    BY <2>1 DEF Classify, Keys
  <2> QED
    BY <2>1, <2>2 DEF ShortList
<1>2. CASE keys \in ThrottleKeys
  <2>1. PICK b \in Bots, c \in Chats : keys = <<Key("bot", b), Key("chat", <<b, c>>)>>
    BY <1>2, SMTT(20) DEF ThrottleKeys
  <2>2. Key("bot", b) # Key("chat", <<b, c>>)
    BY DEF Key
  <2>3. Key("bot", b) \in Keys /\ Key("chat", <<b, c>>) \in Keys
    BY DEF Keys
  <2> QED
    BY <2>1, <2>2, <2>3 DEF ShortList
<1> QED
  BY <1>1, <1>2

\* The keys under which a call has yet to be counted, and the calls that have
\* yet to be counted under a key.
Ahead(q) ==
    IF q.pc \in {"clock", "incr"} THEN Elements(q.keys)
    ELSE IF q.pc = "expire" THEN Elements(Tail(q.keys)) ELSE {}

Pending(k) == {c \in Callers : k \in Ahead(call[c])}

\* Every unit of a counter is a call, and no call under way that has yet to be
\* counted by it is among them.
CallsCounted ==
    /\ calls \in 0..MaxCalls
    /\ \A c \in Callers : ShortList(call[c].keys)
    /\ \A k \in Keys : IsFiniteSet(Pending(k)) /\ Cardinality(Pending(k)) <= calls
    /\ \A x \in DOMAIN redis : redis[x].count + Cardinality(Pending(x[1])) <= calls

Bounded ==
    /\ now \in Times
    /\ deaths \in 0..MaxDeaths
    /\ \A c \in Callers : call[c].window \in Times
    /\ DOMAIN redis \subseteq Keys \X Times

CountInv == LimitInv /\ CallsCounted /\ Bounded

\* Together they type the limiter.
LEMMA CountTypes == CountInv => LimitTypeOK
<1> SUFFICES ASSUME CountInv PROVE LimitTypeOK
  OBVIOUS
<1>1. \A x \in DOMAIN redis :
         /\ x \in Keys \X Times
         /\ redis[x].count \in Nat \ {0} /\ redis[x].expires \in Nat \cup {Never}
  BY DEF CountInv, LimitInv, RedisTyped, Bounded
<1>2. \A x \in DOMAIN redis : redis[x].count \in 1..MaxCalls
  <2> SUFFICES ASSUME NEW x \in DOMAIN redis PROVE redis[x].count \in 1..MaxCalls
    OBVIOUS
  <2>1. /\ x[1] \in Keys /\ calls \in 0..MaxCalls /\ MaxCalls \in Nat
        /\ redis[x].count + Cardinality(Pending(x[1])) <= calls
    BY <1>1, RateLimitAssumption DEF CountInv, CallsCounted
  <2>2. Cardinality(Pending(x[1])) \in Nat
    BY <2>1, FS_CardinalityType DEF CountInv, CallsCounted
  <2> QED
    BY <1>1, <2>1, <2>2
<1>3. granted \in [Keys -> 0..MaxCalls]
  <2> SUFFICES ASSUME NEW k \in Keys PROVE granted[k] \in 0..MaxCalls
    BY DEF CountInv, LimitInv
  <2>1. granted[k] \in Nat /\ MaxCalls \in Nat
    BY RateLimitAssumption DEF CountInv, LimitInv
  <2>2. CASE granted[k] > 0
    <3>1. PICK x \in DOMAIN redis : granted[k] <= redis[x].count
      BY <2>2 DEF CountInv, LimitInv, GrantsCounted
    <3>2. redis[x].count \in 1..MaxCalls
      BY <1>2
    <3> QED
      BY <2>1, <3>1, <3>2
  <2> QED
    BY <2>1, <2>2
<1>4. \A c \in Callers :
         /\ call[c].pc \in {"idle", "clock", "incr", "expire", "verdict"}
         /\ call[c].window \in Times /\ call[c].ok \in BOOLEAN
  BY DEF CountInv, LimitInv, CallTyped, Bounded
<1>5. \A c \in Callers : Len(call[c].keys) <= 2
  BY ShortLists DEF CountInv, CallsCounted
<1> QED
  BY <1>1, <1>2, <1>3, <1>4, <1>5 DEF LimitTypeOK, CountInv, CallsCounted, Bounded

LEMMA CountInitInv == LimitInit => CountInv
<1> SUFFICES ASSUME LimitInit PROVE CountInv
  OBVIOUS
<1>1. /\ \A c \in Callers : call[c] = NoCall
      /\ DOMAIN redis = {} /\ now = 0 /\ calls = 0 /\ deaths = 0
  BY DEF LimitInit
<1>2. \A k \in Keys : Pending(k) = {}
  BY <1>1 DEF Pending, Ahead, NoCall
<1>3. \A k \in Keys : IsFiniteSet(Pending(k)) /\ Cardinality(Pending(k)) = 0
  BY <1>2, FS_EmptySet
<1>4. \A c \in Callers : call[c].keys = <<>> /\ call[c].window = 0
  BY <1>1 DEF NoCall
<1>5. 0 \in Times /\ 0 \in 0..MaxCalls /\ 0 \in 0..MaxDeaths
  BY RateLimitAssumption DEF Times
<1> QED
  BY <1>1, <1>3, <1>4, <1>5, LimitInitInv DEF CountInv, CallsCounted, Bounded, ShortList

\* A call that has no key before it that it had not before leaves every
\* counter as much room as there was.
LEMMA FewerPending ==
    ASSUME CallsCounted, NEW c \in Callers,
           \A d \in Callers : d # c => call'[d] = call[d],
           Ahead(call'[c]) \subseteq Ahead(call[c]),
           NEW k \in Keys
    PROVE  /\ IsFiniteSet(Pending(k)')
           /\ Cardinality(Pending(k)) \in Nat /\ Cardinality(Pending(k)') \in Nat
           /\ Cardinality(Pending(k)') <= Cardinality(Pending(k))
<1>1. Pending(k)' \subseteq Pending(k)
  BY DEF Pending, Ahead
<1>2. IsFiniteSet(Pending(k))
  BY DEF CallsCounted
<1> QED
  BY <1>1, <1>2, FS_Subset, FS_CardinalityType

\* So that a step that counts nothing keeps the account.
LEMMA NothingCounted ==
    ASSUME CallsCounted, RedisTyped, NEW c \in Callers,
           \A d \in Callers : d # c => call'[d] = call[d],
           Ahead(call'[c]) \subseteq Ahead(call[c]), ShortList(call'[c].keys),
           calls' = calls,
           \A x \in DOMAIN redis' : x \in DOMAIN redis /\ redis'[x].count = redis[x].count
    PROVE  CallsCounted'
<1>1. \A k \in Keys : /\ IsFiniteSet(Pending(k)')
                      /\ Cardinality(Pending(k)) \in Nat /\ Cardinality(Pending(k)') \in Nat
                      /\ Cardinality(Pending(k)') <= Cardinality(Pending(k))
  BY FewerPending
<1>2. calls \in Nat
  BY DEF CallsCounted
<1>3. \A k \in Keys : IsFiniteSet(Pending(k)') /\ Cardinality(Pending(k)') <= calls'
  BY <1>1, <1>2 DEF CallsCounted
<1>4. \A x \in DOMAIN redis' : redis'[x].count + Cardinality(Pending(x[1])') <= calls'
  BY <1>1, <1>2 DEF CallsCounted, RedisTyped
<1>5. \A d \in Callers : ShortList(call'[d].keys)
  BY DEF CallsCounted
<1>6. calls' \in 0..MaxCalls
  BY DEF CallsCounted
<1> QED
  BY <1>3, <1>4, <1>5, <1>6 DEF CallsCounted, Pending, Ahead, ShortList

\* A call that starts may be one more for each of its keys.
LEMMA StartCounted ==
    ASSUME CountInv, NEW c \in Callers, NEW keys \in RequestKeys \cup ThrottleKeys,
           StartCall(c, keys)
    PROVE  CallsCounted'
<1>1. /\ calls' = calls + 1 /\ calls' \in 0..MaxCalls /\ calls \in Nat
      /\ redis' = redis
      /\ \A d \in Callers : d # c => call'[d] = call[d]
      /\ call'[c].keys = keys
  BY RateLimitAssumption DEF StartCall, Consume, CountInv, CallsCounted, LimitInv, CallTyped
<1>2. ASSUME NEW k \in Keys
      PROVE  /\ IsFiniteSet(Pending(k)')
             /\ Cardinality(Pending(k)) \in Nat /\ Cardinality(Pending(k)') \in Nat
             /\ Cardinality(Pending(k)') <= Cardinality(Pending(k)) + 1
  <2>1. Pending(k)' \subseteq Pending(k) \cup {c}
    BY <1>1 DEF Pending, Ahead
  <2>2. IsFiniteSet(Pending(k))
    BY DEF CountInv, CallsCounted
  <2>3. /\ IsFiniteSet(Pending(k) \cup {c})
        /\ Cardinality(Pending(k) \cup {c}) <= Cardinality(Pending(k)) + 1
        /\ Cardinality(Pending(k)) \in Nat
    <3>1. Cardinality(Pending(k)) \in Nat
      BY <2>2, FS_CardinalityType
    <3>2. /\ IsFiniteSet(Pending(k) \cup {c})
          /\ \/ Cardinality(Pending(k) \cup {c}) = Cardinality(Pending(k))
             \/ Cardinality(Pending(k) \cup {c}) = Cardinality(Pending(k)) + 1
      BY <2>2, FS_AddElement
    <3> QED
      BY <3>1, <3>2
  <2>4. /\ IsFiniteSet(Pending(k)') /\ Cardinality(Pending(k)') \in Nat
        /\ Cardinality(Pending(k)') <= Cardinality(Pending(k) \cup {c})
        /\ Cardinality(Pending(k) \cup {c}) \in Nat
    BY <2>1, <2>3, FS_Subset, FS_CardinalityType
  <2> QED
    BY <2>3, <2>4
<1>3. \A k \in Keys : IsFiniteSet(Pending(k)') /\ Cardinality(Pending(k)') <= calls'
  BY <1>1, <1>2 DEF CountInv, CallsCounted
<1>4. \A x \in DOMAIN redis' : redis'[x].count + Cardinality(Pending(x[1])') <= calls'
  BY <1>1, <1>2 DEF CountInv, CallsCounted, LimitInv, RedisTyped
<1>5. \A d \in Callers : ShortList(call'[d].keys)
  BY <1>1, KeysShort DEF CountInv, CallsCounted
<1> QED
  BY <1>1, <1>3, <1>4, <1>5 DEF CallsCounted, Pending, Ahead, ShortList

\* INCR counts a call that was pending until then.
LEMMA IncrCounted ==
    ASSUME CountInv, NEW c \in Callers, Incr(c)
    PROVE  CallsCounted'
<1>1. PICK k \in Keys : k = Head(call[c].keys)
  BY CallFacts DEF CountInv, Incr
<1>2. PICK x \in Keys \X Nat : x = Counter(c) /\ x[1] = k
  BY <1>1, CallFacts DEF CountInv, Incr
<1>3. /\ call[c].pc = "incr" /\ calls' = calls /\ calls \in Nat
      /\ \A d \in Callers : d # c => call'[d] = call[d]
      /\ DOMAIN redis' = DOMAIN redis \cup {x}
      /\ redis'[x].count = IF x \in DOMAIN redis THEN redis[x].count + 1 ELSE 1
      /\ \A y \in DOMAIN redis : y # x => redis'[y] = redis[y]
  BY <1>2 DEF Incr, CountInv, CallsCounted, LimitInv, CallTyped
<1>4. PICK s : /\ s = call[c].keys /\ ShortList(s) /\ s # <<>> /\ k = Head(s)
               /\ Ahead(call[c]) = Elements(s)
  BY <1>1, <1>3, CallFacts DEF CountInv, CallsCounted, Ahead
<1>5. \/ call'[c].pc = "expire" /\ call'[c].keys = s
      \/ call'[c].pc \in {"clock", "verdict"} /\ call'[c].keys = Tail(s)
         /\ (call'[c].pc = "verdict" <=> Len(s) = 1)
  BY <1>3, <1>4 DEF Incr, NextKey, CountInv, LimitInv, CallTyped
<1>6. /\ k \in Elements(s) /\ ShortList(Tail(s))
      /\ Elements(Tail(s)) = Elements(s) \ {k}
      /\ Len(s) = 1 => Elements(Tail(s)) = {}
  BY <1>4, ShortLists
<1>7. Ahead(call'[c]) = Elements(s) \ {k}
  BY <1>5, <1>6 DEF Ahead
<1>8. ShortList(call'[c].keys)
  BY <1>4, <1>5, <1>6
<1>9. \A j \in Keys : /\ IsFiniteSet(Pending(j)')
                      /\ Cardinality(Pending(j)) \in Nat /\ Cardinality(Pending(j)') \in Nat
                      /\ Cardinality(Pending(j)') <= Cardinality(Pending(j))
  BY <1>3, <1>4, <1>7, FewerPending DEF CountInv
<1>10. Cardinality(Pending(k)') = Cardinality(Pending(k)) - 1
  <2>1. c \in Pending(k) /\ Pending(k)' = Pending(k) \ {c}
    BY <1>3, <1>4, <1>6, <1>7 DEF Pending
  <2>2. IsFiniteSet(Pending(k))
    BY DEF CountInv, CallsCounted
  <2> QED
    BY <2>1, <2>2, FS_RemoveElement
<1>11. \A y \in DOMAIN redis : y[1] \in Keys /\ redis[y].count \in Nat
  BY DEF CountInv, LimitInv, RedisTyped
<1>12. \A j \in Keys : IsFiniteSet(Pending(j)') /\ Cardinality(Pending(j)') <= calls'
  BY <1>3, <1>9 DEF CountInv, CallsCounted
<1>13. \A y \in DOMAIN redis' : redis'[y].count + Cardinality(Pending(y[1])') <= calls'
  <2> SUFFICES ASSUME NEW y \in DOMAIN redis'
               PROVE  redis'[y].count + Cardinality(Pending(y[1])') <= calls
    BY <1>3
  <2>1. CASE y = x /\ x \in DOMAIN redis
    <3>1. redis[x].count + Cardinality(Pending(k)) <= calls /\ redis[x].count \in Nat
      BY <1>2, <1>11, <2>1 DEF CountInv, CallsCounted
    <3> QED
      BY <1>2, <1>3, <1>9, <1>10, <2>1, <3>1
  <2>2. CASE y = x /\ x \notin DOMAIN redis
    <3>1. Cardinality(Pending(k)) <= calls
      BY DEF CountInv, CallsCounted
    <3> QED
      BY <1>2, <1>3, <1>9, <1>10, <2>2, <3>1
  <2>3. CASE y # x
    <3>1. /\ redis'[y] = redis[y] /\ y[1] \in Keys /\ redis[y].count \in Nat
          /\ redis[y].count + Cardinality(Pending(y[1])) <= calls
      BY <1>3, <1>11, <2>3 DEF CountInv, CallsCounted
    <3> QED
      BY <1>3, <1>9, <3>1
  <2> QED
    BY <2>1, <2>2, <2>3
<1>14. \A d \in Callers : ShortList(call'[d].keys)
  BY <1>3, <1>8 DEF CountInv, CallsCounted
<1>15. calls' \in 0..MaxCalls
  BY <1>3 DEF CountInv, CallsCounted
<1> QED
  BY <1>12, <1>13, <1>14, <1>15 DEF CallsCounted, Pending, Ahead, ShortList

\* Every step.
LEMMA CountNextInv == CountInv /\ [LimitNext]_limitVars => CountInv'
<1> SUFFICES ASSUME CountInv, [LimitNext]_limitVars PROVE CountInv'
  OBVIOUS
<1>1. /\ LimitInv /\ LimitInv' /\ CallsCounted /\ Bounded /\ RedisTyped
      /\ call \in [Callers -> [pc : {"idle", "clock", "incr", "expire", "verdict"},
                              keys : Seq(Keys), window : Nat, ok : BOOLEAN]]
      /\ now \in Nat
  BY LimitNextInv DEF CountInv, LimitInv, CallTyped
<1>2. ASSUME NEW k \in Keys PROVE Window(now, k) \in Times
  BY <1>1, WindowBounded, RateLimitAssumption DEF Bounded, Times
<1>3. ASSUME NEW c \in Callers, NEW keys \in RequestKeys \cup ThrottleKeys,
             StartCall(c, keys)
      PROVE  CountInv'
  <2>1. Window(now, Head(keys)) \in Times
    BY <1>2, KeySequences, HeadTailProperties
  <2>2. \A d \in Callers : call'[d].window \in Times
    BY <1>1, <1>3, <2>1 DEF StartCall, Consume, Bounded
  <2>3. Bounded'
    BY <1>1, <1>3, <2>2 DEF StartCall, Bounded
  <2> QED
    BY <1>1, <1>3, <2>3, StartCounted DEF CountInv
<1>4. ASSUME NEW c \in Callers, ReadClock(c) PROVE CountInv'
  <2>1. /\ call'[c] = Consume(call[c].keys, call[c].ok) /\ call[c].pc = "clock"
        /\ \A d \in Callers : d # c => call'[d] = call[d]
        /\ UNCHANGED <<now, redis, calls, deaths>>
    BY <1>1, <1>4 DEF ReadClock
  <2>2. Window(now, Head(call[c].keys)) \in Times
    BY <1>1, <1>2, <2>1, CallFacts
  <2>3. /\ call'[c].window \in Times /\ call'[c].keys = call[c].keys
        /\ Ahead(call'[c]) = Ahead(call[c])
    BY <2>1, <2>2 DEF Consume, Ahead
  <2>4. Bounded'
    BY <1>1, <2>1, <2>3 DEF Bounded
  <2>5. CallsCounted'
    BY <1>1, <2>1, <2>3, NothingCounted DEF CallsCounted
  <2> QED
    BY <1>1, <2>4, <2>5 DEF CountInv
<1>5. ASSUME NEW c \in Callers, Incr(c) PROVE CountInv'
  <2>1. /\ call[c].pc = "incr" /\ UNCHANGED <<now, deaths>>
        /\ \A d \in Callers : call'[d].window = call[d].window
        /\ DOMAIN redis' = DOMAIN redis \cup {Counter(c)}
    BY <1>1, <1>5 DEF Incr, NextKey
  <2>2. Counter(c) \in Keys \X Times
    BY <1>1, <2>1, CallFacts DEF Counter, Bounded
  <2>3. Bounded'
    BY <1>1, <2>1, <2>2 DEF Bounded
  <2> QED
    BY <1>1, <1>5, <2>3, IncrCounted DEF CountInv
<1>6. ASSUME NEW c \in Callers, SetExpiry(c) PROVE CountInv'
  <2>1. /\ call[c].pc = "expire" /\ UNCHANGED <<now, calls, deaths>>
        /\ call'[c] = NextKey(c, TRUE)
        /\ \A d \in Callers : d # c => call'[d] = call[d]
        /\ DOMAIN redis' = DOMAIN redis
        /\ \A x \in DOMAIN redis : redis'[x].count = redis[x].count
    BY <1>1, <1>6 DEF SetExpiry, RedisTyped
  <2>2. PICK s : s = call[c].keys /\ ShortList(s) /\ s # <<>>
    BY <1>1, <2>1, CallFacts DEF CallsCounted
  <2>3. /\ call'[c].keys = Tail(s) /\ call'[c].window = call[c].window
        /\ call'[c].pc = IF Len(s) = 1 THEN "verdict" ELSE "clock"
    BY <1>1, <2>1, <2>2 DEF NextKey
  <2>4. Ahead(call'[c]) \subseteq Ahead(call[c]) /\ ShortList(call'[c].keys)
    BY <2>1, <2>2, <2>3, ShortLists DEF Ahead
  <2>5. Bounded'
    BY <1>1, <2>1, <2>3 DEF Bounded
  <2>6. CallsCounted'
    BY <1>1, <2>1, <2>4, NothingCounted
  <2> QED
    BY <1>1, <2>5, <2>6 DEF CountInv
<1>7. ASSUME NEW c \in Callers, call'[c] = NoCall, calls' = calls, redis' = redis,
             now' = now, deaths' \in 0..MaxDeaths,
             \A d \in Callers : d # c => call'[d] = call[d]
      PROVE  CountInv'
  <2>1. Ahead(call'[c]) = {} /\ ShortList(call'[c].keys) /\ call'[c].window \in Times
    BY <1>7, RateLimitAssumption DEF NoCall, Ahead, ShortList, Times
  <2>2. CallsCounted'
    BY <1>1, <1>7, <2>1, NothingCounted
  <2>3. Bounded'
    BY <1>1, <1>7, <2>1 DEF Bounded
  <2> QED
    BY <1>1, <2>2, <2>3 DEF CountInv
<1>8. ASSUME NEW c \in Callers, Answer(c) \/ CallDies(c) PROVE CountInv'
  <2>1. deaths' \in 0..MaxDeaths
    BY <1>1, <1>8, RateLimitAssumption DEF Answer, CallDies, Bounded
  <2>2. /\ call'[c] = NoCall /\ calls' = calls /\ redis' = redis /\ now' = now
        /\ \A d \in Callers : d # c => call'[d] = call[d]
    BY <1>1, <1>8 DEF Answer, CallDies
  <2> QED
    BY <1>7, <2>1, <2>2
<1>9. CASE UNCHANGED <<call, calls, deaths>> /\ now' \in Times
           /\ \A x \in DOMAIN redis' : x \in DOMAIN redis /\ redis'[x] = redis[x]
  <2>1. \A k : Pending(k)' = Pending(k)
    BY <1>9 DEF Pending, Ahead
  <2>2. CallsCounted'
    BY <1>1, <1>9, <2>1 DEF CallsCounted, ShortList
  <2>3. Bounded'
    BY <1>1, <1>9 DEF Bounded
  <2> QED
    BY <1>1, <2>2, <2>3 DEF CountInv
<1>10. CASE Tick
  <2>1. now' \in Times
    BY <1>1, <1>10, RateLimitAssumption DEF Tick, Times
  <2> QED
    BY <1>9, <1>10, <2>1 DEF Tick
<1>11. CASE UNCHANGED limitVars
  BY <1>1, <1>9, <1>11 DEF limitVars, Bounded
<1> QED
  BY <1>3, <1>4, <1>5, <1>6, <1>8, <1>10, <1>11 DEF LimitNext

\* No counter and no grant is ever more than the calls there were, and the
\* clock, the windows and the calls stay in their bounds.
THEOREM LimiterTyped == LimitSpec => []LimitTypeOK
BY CountInitInv, CountNextInv, CountTypes, PTL DEF LimitSpec
=============================================================================
