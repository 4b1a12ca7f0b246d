------------------------------ MODULE Gateway ------------------------------
(***************************************************************************)
(* What stands between a request and its handler: rate_limit.lua and       *)
(* auth.lua at the edge and JwtAuthGuard in the API, with the counters in  *)
(* the ephemeral Redis and the blacklist and the auth cache in the         *)
(* persistent one.  Every call to a Redis is a step of its own.            *)
(***************************************************************************)
EXTENDS Naturals

CONSTANTS
    Request,
    Address,
    Token,
    Limit,      \* Limit[k]: what nginx.conf passes to rate_limit for kind k
    Faults      \* which of "redis" and "evict" may happen

Kind == {"refresh", "logout", "api", "market"}

ASSUME LimitAssumption == Limit \in [Kind -> Nat]

VARIABLES
    count,      \* count[a]: rate:ip:a, 0 when there is no key
    ttl,        \* ttl[a]: whether the key has an expiry
    lost,       \* addresses whose key was to get an expiry and has not
    blacklist,  \* tokens with a blacklist:jti key
    cache,      \* tokens with an auth:cache key
    stale,      \* tokens past exp
    over,       \* tokens whose logout has been answered
    call

counters == <<count, ttl, lost>>
tokens == <<blacklist, cache, stale, over>>
vars == <<counters, tokens, call>>

Step == {"incr", "expire", "limit", "blacklist", "cache", "verify", "store", "guard",
         "lookup", "handler", "revoke"}
Idle == [pc |-> "idle"]
Busy == [pc : Step, kind : Kind, from : Address, token : Token,
         tooMany : BOOLEAN,     \* the count it was given is above its limit
         late : BOOLEAN]        \* it began when its token's logout was answered

\* Who comes where: only the locations of bets and wallet call auth.lua.
Routed(c) ==
    /\ c.kind = "refresh" => c.pc \in {"incr", "expire", "limit"}
    /\ c.pc \in {"blacklist", "cache", "verify", "store"} => c.kind = "api"
    /\ c.pc = "revoke" => c.kind = "logout"

TypeOK ==
    /\ count \in [Address -> Nat]
    /\ ttl \in [Address -> BOOLEAN]
    /\ lost \subseteq Address
    /\ blacklist \subseteq Token
    /\ cache \subseteq Token
    /\ stale \subseteq Token
    /\ over \subseteq Token
    /\ call \in [Request -> Busy \cup {Idle}]
    /\ \A r \in Request : call[r] # Idle => Routed(call[r])

Init ==
    /\ count = [a \in Address |-> 0]
    /\ ttl = [a \in Address |-> FALSE]
    /\ lost = {}
    /\ blacklist = {} /\ cache = {} /\ stale = {} /\ over = {}
    /\ call = [r \in Request |-> Idle]

At(r, pc) == call[r] # Idle /\ call[r].pc = pc
Goto(r, pc) == call' = [call EXCEPT ![r].pc = pc]
Answer(r) == call' = [call EXCEPT ![r] = Idle]

Arrive(r, kind, a, t) ==
    /\ call[r] = Idle
    /\ call' = [call EXCEPT ![r] = [pc |-> "incr", kind |-> kind, from |-> a, token |-> t,
                                    tooMany |-> FALSE, late |-> t \in over]]
    /\ UNCHANGED <<counters, tokens>>

-----------------------------------------------------------------------------
(* rate_limit.lua                                                          *)

\* A count above every limit stands for all of them.
Bumped(n) == IF \E k \in Kind : n <= Limit[k] THEN n + 1 ELSE n

\* Mutant of Incr: the window is meant to begin with the request after the first.
IncrLate(r) ==
    /\ At(r, "incr")
    /\ LET a == call[r].from
           n == Bumped(count[a])
       IN /\ count' = [count EXCEPT ![a] = n]
          /\ call' = [call EXCEPT ![r].tooMany = n > Limit[call[r].kind],
                                  ![r].pc = IF n = 2 THEN "expire" ELSE "limit"]
    /\ UNCHANGED <<ttl, lost, tokens>>

Incr(r) ==
    /\ At(r, "incr")
    /\ LET a == call[r].from
           n == Bumped(count[a])
       IN /\ count' = [count EXCEPT ![a] = n]
          /\ call' = [call EXCEPT ![r].tooMany = n > Limit[call[r].kind],
                                  ![r].pc = IF n = 1 THEN "expire" ELSE "limit"]
    /\ UNCHANGED <<ttl, lost, tokens>>

\* Mutant of SetExpiry: the expiry is set on another key.
SetNoExpiry(r) ==
    /\ At(r, "expire")
    /\ Goto(r, "limit")
    /\ UNCHANGED <<counters, tokens>>

\* EXPIRE does nothing to a key that is gone.
SetExpiry(r) ==
    /\ At(r, "expire")
    /\ LET a == call[r].from
       IN /\ ttl' = [ttl EXCEPT ![a] = count[a] > 0]
          /\ lost' = lost \ {a}
    /\ Goto(r, "limit")
    /\ UNCHANGED <<count, tokens>>

\* Mutant of Onward: every location but that of the login calls auth.lua.
OnwardChecked(kind) == IF kind = "refresh" THEN "guard" ELSE "blacklist"

\* Where the locations of nginx.conf send a request that is within the limit.
Onward(kind) == IF kind = "api" THEN "blacklist" ELSE "guard"

CheckLimit(r) ==
    /\ At(r, "limit")
    /\ IF call[r].tooMany \/ call[r].kind = "refresh"
       THEN Answer(r)
       ELSE Goto(r, Onward(call[r].kind))
    /\ UNCHANGED <<counters, tokens>>

\* Redis does not answer within 20 ms, though it may have counted: the request
\* is let through, and if it was the first nobody sets its expiry.
FailOpen(r) ==
    /\ "redis" \in Faults
    /\ At(r, "incr")
    /\ LET a == call[r].from
       IN \/ UNCHANGED counters
          \/ /\ count' = [count EXCEPT ![a] = Bumped(count[a])]
             /\ lost' = IF count[a] = 0 THEN lost \cup {a} ELSE lost
             /\ UNCHANGED ttl
    /\ IF call[r].kind = "refresh" THEN Answer(r) ELSE Goto(r, Onward(call[r].kind))
    /\ UNCHANGED tokens

\* EXPIRE is lost, by a timeout or with the nginx worker.
LoseExpiry(r) ==
    /\ "redis" \in Faults
    /\ At(r, "expire")
    /\ LET a == call[r].from
       IN lost' = IF count[a] > 0 /\ ~ttl[a] THEN lost \cup {a} ELSE lost
    /\ Goto(r, "limit")
    /\ UNCHANGED <<count, ttl, tokens>>

-----------------------------------------------------------------------------
(* auth.lua                                                                *)

\* Mutant of LookBlacklist: the cache is asked instead.
LookCacheFirst(r) ==
    /\ At(r, "blacklist")
    /\ Goto(r, IF call[r].token \in cache THEN "guard" ELSE "verify")
    /\ UNCHANGED <<counters, tokens>>

LookBlacklist(r) ==
    /\ At(r, "blacklist")
    /\ IF call[r].token \in blacklist THEN Answer(r) ELSE Goto(r, "cache")
    /\ UNCHANGED <<counters, tokens>>

LookCache(r) ==
    /\ At(r, "cache")
    /\ Goto(r, IF call[r].token \in cache THEN "guard" ELSE "verify")
    /\ UNCHANGED <<counters, tokens>>

\* No connection, or one that is closed by a timeout: on to the subrequest.
FallThrough(r) ==
    /\ "redis" \in Faults
    /\ At(r, "blacklist") \/ At(r, "cache")
    /\ Goto(r, "verify")
    /\ UNCHANGED <<counters, tokens>>

\* The verification subrequest: whatever is not a 200 is a refusal.
Verify(r) ==
    /\ At(r, "verify")
    /\ IF call[r].token \in blacklist \cup stale THEN Answer(r) ELSE Goto(r, "store")
    /\ UNCHANGED <<counters, tokens>>

Store(r) ==
    /\ At(r, "store")
    /\ \/ cache' = cache \cup {call[r].token}
       \/ "redis" \in Faults /\ UNCHANGED cache
    /\ Goto(r, "guard")
    /\ UNCHANGED <<counters, blacklist, stale, over>>

-----------------------------------------------------------------------------
(* The API.                                                                *)

\* JwtAuthGuard verifies the token and then looks for it in the blacklist.
GuardVerify(r) ==
    /\ At(r, "guard")
    /\ IF call[r].token \in stale THEN Answer(r) ELSE Goto(r, "lookup")
    /\ UNCHANGED <<counters, tokens>>

GuardLookup(r) ==
    /\ At(r, "lookup")
    /\ IF call[r].token \in blacklist
       THEN Answer(r)
       ELSE Goto(r, IF call[r].kind = "logout" THEN "revoke" ELSE "handler")
    /\ UNCHANGED <<counters, tokens>>

Handle(r) ==
    /\ At(r, "handler")
    /\ Answer(r)
    /\ UNCHANGED <<counters, tokens>>

\* logout() blacklists the token for as long as it is valid, and answers.
Revoke(r) ==
    /\ At(r, "revoke")
    /\ blacklist' = blacklist \cup ({call[r].token} \ stale)
    /\ over' = over \cup {call[r].token}
    /\ Answer(r)
    /\ UNCHANGED <<counters, cache, stale>>

\* A subrequest, a Redis of the API or the API itself fails: an error.
Fail(r) ==
    /\ "redis" \in Faults
    /\ call[r] # Idle
    /\ call[r].pc \in {"verify", "guard", "lookup", "handler", "revoke"}
    /\ Answer(r)
    /\ UNCHANGED <<counters, tokens>>

-----------------------------------------------------------------------------
(* Time and eviction.                                                      *)

Forget(a) ==
    /\ count' = [count EXCEPT ![a] = 0]
    /\ ttl' = [ttl EXCEPT ![a] = FALSE]
    /\ lost' = lost \ {a}
    /\ UNCHANGED <<tokens, call>>

\* The 60 seconds are over.
WindowEnds(a) == ttl[a] /\ Forget(a)

\* allkeys-lru removes the counter, or the ephemeral Redis is restarted.
Evict(a) == "evict" \in Faults /\ count[a] > 0 /\ Forget(a)

ExpireToken(t) ==
    /\ t \notin stale
    /\ stale' = stale \cup {t}
    /\ UNCHANGED <<counters, blacklist, cache, over, call>>

\* The key lives for exp - now in whole seconds: not less than the token.
BlacklistEnds(t) ==
    /\ t \in blacklist \cap stale
    /\ blacklist' = blacklist \ {t}
    /\ UNCHANGED <<counters, cache, stale, over, call>>

CacheEnds(t) ==
    /\ t \in cache
    /\ cache' = cache \ {t}
    /\ UNCHANGED <<counters, blacklist, stale, over, call>>

-----------------------------------------------------------------------------
Limiter(r) == Incr(r) \/ SetExpiry(r) \/ CheckLimit(r)
Edge(r) == LookBlacklist(r) \/ LookCache(r) \/ Verify(r) \/ Store(r)
Api(r) == GuardVerify(r) \/ GuardLookup(r) \/ Handle(r) \/ Revoke(r)

Next ==
    \/ \E r \in Request :
        \/ \E kind \in Kind, a \in Address, t \in Token : Arrive(r, kind, a, t)
        \/ Limiter(r) \/ Edge(r) \/ Api(r)
        \/ FailOpen(r) \/ LoseExpiry(r) \/ FallThrough(r) \/ Fail(r)
    \/ \E a \in Address : WindowEnds(a) \/ Evict(a)
    \/ \E t \in Token : ExpireToken(t) \/ BlacklistEnds(t) \/ CacheEnds(t)

Fairness ==
    /\ \A r \in Request : WF_vars(Limiter(r))
    /\ \A a \in Address : WF_vars(WindowEnds(a))

Spec == Init /\ [][Next]_vars
FairSpec == Spec /\ Fairness

-----------------------------------------------------------------------------
(* Properties *)

\* A request that begins when its token's logout has been answered gets past
\* neither the edge nor the guard before the token expires anyway: not by an
\* entry that another request puts into the cache after the logout, nor by a
\* Redis that is out of reach for a while.
RevokedStaysOut ==
    \A r \in Request :
        (/\ call[r] # Idle
         /\ call[r].late
         /\ \/ call[r].kind = "api" /\ call[r].pc \in {"guard", "lookup"}
            \/ call[r].pc \in {"handler", "revoke"})
        => call[r].token \in stale

\* A counter without an expiry has a request that is about to set one, or
\* has had one whose EXPIRE, or whose answer to the first INCR, was lost.
CounterHasEnd ==
    \A a \in Address : (count[a] > 0 /\ ~ttl[a]) =>
        a \in lost \/ \E r \in Request : At(r, "expire") /\ call[r].from = a

\* rate_limit.lua:40, "Try again in 60 seconds": an address that is refused is
\* let in again, however many requests race for the first count of a window
\* and whenever the counter is evicted; unless Redis failed as it began.
TryAgain ==
    \A a \in Address, k \in Kind :
        count[a] > Limit[k] ~> (count[a] = 0 \/ a \in lost)
=============================================================================
