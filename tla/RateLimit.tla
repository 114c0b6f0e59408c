----------------------------- MODULE RateLimit -----------------------------
(***************************************************************************)
(* The fixed-window counters in Redis: the HTTP middleware                 *)
(* (core/middleware/rate_limit) consumes one window per request, the send  *)
(* task's throttle (modules/messaging/tasks) one of its bot and then one   *)
(* of its chat.  A call reads the clock, then INCRs the counter of the     *)
(* window it computed, then, if it was the first, sets the counter's       *)
(* expiry; time passes, and other calls run, between any two of these.     *)
(***************************************************************************)
EXTENDS Naturals, FiniteSets, Sequences

CONSTANTS
    Callers,        \* requests and tasks in flight at a time
    Clients,        \* IP addresses
    Users, Tenants, \* claims of access tokens
    Bots, Chats,
    Nobody,         \* a claim or header that is absent or invalid
    Never,          \* no expiry
    Limit,          \* group |-> calls per window
    WINDOW_SECONDS, \* of the middleware
    MaxTime,        \* bounds on the clock, the calls and the calls that die
    MaxCalls,
    MaxDeaths

Groups == {"auth", "messaging_send", "general", "bot", "chat"}
Throttles == {"bot", "chat"}

ASSUME RateLimitAssumption ==
    /\ Limit \in [Groups -> Nat \ {0}]
    /\ WINDOW_SECONDS \in Nat \ {0}
    /\ MaxTime \in Nat /\ MaxCalls \in Nat /\ MaxDeaths \in Nat
    /\ Never \notin Nat

Key(group, who) == [group |-> group, who |-> who]

Keys ==
    {Key("auth", c) : c \in Clients}
    \cup {Key("messaging_send", x) : x \in Tenants \cup Bots \cup Clients}
    \cup {Key("general", x) : x \in Users \cup Clients}
    \cup {Key("bot", b) : b \in Bots}
    \cup {Key("chat", bc) : bc \in Bots \X Chats}

\* A bearer token counts when it decodes, whoever sent it; a bot's API key
\* stands for itself, unverified.
Classify(path, client, user, tenant, apiKey) ==
    CASE path = "auth" -> Key("auth", client)
      [] path = "messages" ->
            Key("messaging_send", CASE tenant # Nobody -> tenant
                                    [] apiKey # Nobody -> apiKey
                                    [] OTHER -> client)
      [] OTHER -> Key("general", IF user # Nobody THEN user ELSE client)

\* The throttle's windows last a second and its counters two.
Length(k) == IF k.group \in Throttles THEN 1 ELSE WINDOW_SECONDS

\* Mutant: the counter lives a second less than its window.
TimeToLiveShort(k) ==
    IF k.group \in Throttles THEN 2 ELSE WINDOW_SECONDS - 1

TimeToLive(k) == IF k.group \in Throttles THEN 2 ELSE WINDOW_SECONDS

Window(t, k) == t \div Length(k)

Times == 0..MaxTime

VARIABLES
    now,     \* the clock, in seconds
    redis,   \* the counters that exist: <<key, window>> |-> count and expiry
    call,    \* the calls under way
    calls,   \* how many there have been
    deaths,
    granted  \* calls within the limit that reached Redis in the window they
             \* had computed, of the window that the clock is in

limitVars == <<now, redis, call, calls, deaths, granted>>

NoCall == [pc |-> "idle", keys |-> <<>>, window |-> 0, ok |-> TRUE]

LimitTypeOK ==
    /\ now \in Times
    /\ \A x \in DOMAIN redis :
          /\ x \in Keys \X Times
          /\ redis[x].count \in 1..MaxCalls
          /\ redis[x].expires \in Nat \cup {Never}
    /\ \A c \in Callers :
          /\ call[c].pc \in {"idle", "clock", "incr", "expire", "verdict"}
          /\ call[c].window \in Times /\ call[c].ok \in BOOLEAN
          /\ Len(call[c].keys) <= 2
    /\ calls \in 0..MaxCalls
    /\ deaths \in 0..MaxDeaths
    /\ granted \in [Keys -> 0..MaxCalls]

LimitInit ==
    /\ now = 0
    /\ redis = <<>>
    /\ call = [c \in Callers |-> NoCall]
    /\ calls = 0
    /\ deaths = 0
    /\ granted = [k \in Keys |-> 0]

-----------------------------------------------------------------------------
(* A call *)

\* The keys a call consumes one after the other: the middleware's one ...
RequestKeys ==
    {<<Classify(r.path, r.client, r.user, r.tenant, r.apiKey)>> :
        r \in [path : {"auth", "messages", "other"}, client : Clients,
               user : Users \cup {Nobody}, tenant : Tenants \cup {Nobody},
               apiKey : Bots \cup {Nobody}]}

\* ... and both of _check_throttle: a full bot window does not spare the chat's.
ThrottleKeys == {<<Key("bot", b), Key("chat", <<b, c>>)>> : b \in Bots, c \in Chats}

Consume(keys, ok) ==
    [pc |-> "incr", keys |-> keys, window |-> Window(now, Head(keys)), ok |-> ok]

StartCall(c, keys) ==
    /\ call[c].pc = "idle" /\ calls < MaxCalls
    /\ call' = [call EXCEPT ![c] = Consume(keys, TRUE)]
    /\ calls' = calls + 1
    /\ UNCHANGED <<now, redis, deaths, granted>>

\* The next key of the throttle, in the window it is by then.
ReadClock(c) ==
    /\ call[c].pc = "clock"
    /\ call' = [call EXCEPT ![c] = Consume(call[c].keys, call[c].ok)]
    /\ UNCHANGED <<now, redis, calls, deaths, granted>>

\* What the call does once it is through with its first key.
NextKey(c, ok) ==
    [call[c] EXCEPT !.keys = Tail(@), !.ok = @ /\ ok,
                    !.pc = IF Len(call[c].keys) = 1 THEN "verdict" ELSE "clock"]

Counter(c) == <<Head(call[c].keys), call[c].window>>

\* INCR creates a counter that lives for ever; only its creator, who sees 1,
\* gives it an expiry.
Incr(c) ==
    LET x == Counter(c)
        k == Head(call[c].keys)
        count == IF x \in DOMAIN redis THEN redis[x].count + 1 ELSE 1
        expires == IF x \in DOMAIN redis THEN redis[x].expires ELSE Never
    IN  /\ call[c].pc = "incr"
        /\ redis' = [y \in DOMAIN redis \cup {x} |->
                        IF y = x THEN [count |-> count, expires |-> expires]
                                 ELSE redis[y]]
        /\ call' = [call EXCEPT ![c] = IF count = 1 THEN [@ EXCEPT !.pc = "expire"]
                                       ELSE NextKey(c, count <= Limit[k.group])]
        /\ granted' = IF count <= Limit[k.group] /\ call[c].window = Window(now, k)
                      THEN [granted EXCEPT ![k] = @ + 1]
                      ELSE granted
        /\ UNCHANGED <<now, calls, deaths>>

\* Mutant: the counter never gets its expiry.
SetExpiryForgotten(c) ==
    /\ call[c].pc = "expire"
    /\ call' = [call EXCEPT ![c] = NextKey(c, TRUE)]
    /\ UNCHANGED <<now, redis, calls, deaths, granted>>

\* EXPIRE, and on with a count of 1, which is within every limit.
SetExpiry(c) ==
    /\ call[c].pc = "expire"
    /\ redis' = [redis EXCEPT ![Counter(c)].expires =
                    now + TimeToLive(Head(call[c].keys))]
    /\ call' = [call EXCEPT ![c] = NextKey(c, TRUE)]
    /\ UNCHANGED <<now, calls, deaths, granted>>

\* 429 and Retry-After, or the handler; "throttled", or the send.
Answer(c) ==
    /\ call[c].pc = "verdict"
    /\ call' = [call EXCEPT ![c] = NoCall]
    /\ UNCHANGED <<now, redis, calls, deaths, granted>>

\* The process or its connection to Redis dies.
CallDies(c) ==
    /\ call[c].pc # "idle" /\ deaths < MaxDeaths
    /\ call' = [call EXCEPT ![c] = NoCall]
    /\ deaths' = deaths + 1
    /\ UNCHANGED <<now, redis, calls, granted>>

\* A second passes; Redis drops the counters that expire.
Tick ==
    /\ now < MaxTime
    /\ now' = now + 1
    /\ redis' = [x \in {y \in DOMAIN redis : redis[y].expires # now + 1} |-> redis[x]]
    /\ granted' = [k \in Keys |-> IF Window(now + 1, k) = Window(now, k)
                                  THEN granted[k] ELSE 0]
    /\ UNCHANGED <<call, calls, deaths>>

-----------------------------------------------------------------------------
LimitNext ==
    \/ \E c \in Callers :
          \/ \E keys \in RequestKeys \cup ThrottleKeys : StartCall(c, keys)
          \/ ReadClock(c)
          \/ Incr(c)
          \/ SetExpiry(c)
          \/ Answer(c)
          \/ CallDies(c)
    \/ Tick

LimitSpec == LimitInit /\ [][LimitNext]_limitVars

-----------------------------------------------------------------------------
(* Properties *)

\* Of the calls that reach Redis in the window they computed, no window lets
\* more than the limit through, however the calls interleave and whichever
\* die.  (A call that is late, because it read the clock a moment before the
\* window ended, may find its counter gone and pass as the first of its own.)
WithinLimit ==
    \A k \in Keys : granted[k] <= Limit[k.group]

\* A counter without an expiry is about to get one from the call that created
\* it, or that call died: at most one counter a death stays behind for ever.
CountersExpire ==
    Cardinality({x \in DOMAIN redis : redis[x].expires = Never})
    <= Cardinality({c \in Callers : call[c].pc = "expire"}) + deaths
=============================================================================
