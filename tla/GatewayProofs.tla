--------------------------- MODULE GatewayProofs ---------------------------
(* Gateway for every number of requests, addresses and tokens, and for any *)
(* limits: types, what a logout shuts out, and the end of every counter.   *)
EXTENDS Gateway, TLAPS

USE DEF counters, tokens

\* A step that leaves the records to the two lemmas below.
CallTypeOK ==
    /\ call \in [Request -> Busy \cup {Idle}]
    /\ \A r \in Request : call[r] # Idle => Routed(call[r])

LEMMA SetType ==
    ASSUME TypeOK, NEW r \in Request, NEW c \in Busy, Routed(c),
           call' = [call EXCEPT ![r] = c]
    PROVE  CallTypeOK'
    BY DEF TypeOK, CallTypeOK, Routed

LEMMA GotoType ==
    ASSUME TypeOK, NEW r \in Request, call[r] # Idle, NEW pc \in Step, Goto(r, pc),
           Routed([call[r] EXCEPT !.pc = pc])
    PROVE  CallTypeOK'
<1>1. call[r] \in Busy
    BY DEF TypeOK
<1>2. [call[r] EXCEPT !.pc = pc] \in Busy
    BY <1>1 DEF Busy
<1>3. call' = [call EXCEPT ![r] = [call[r] EXCEPT !.pc = pc]]
    BY DEF Goto
<1> QED
    BY <1>2, <1>3, SetType

LEMMA AnswerType == ASSUME TypeOK, NEW r \in Request, Answer(r) PROVE CallTypeOK'
    BY DEF Answer, TypeOK, CallTypeOK, Routed

LEMMA BumpedType == ASSUME NEW n \in Nat PROVE Bumped(n) \in Nat /\ Bumped(n) > 0
    BY LimitAssumption DEF Bumped, Kind

\* A request moves on, or is answered, and nothing else changes.
LEMMA MoveType ==
    ASSUME TypeOK, NEW r \in Request, call[r] # Idle, UNCHANGED <<counters, tokens>>,
           Answer(r) \/ \E pc \in Step : Goto(r, pc) /\ Routed([call[r] EXCEPT !.pc = pc])
    PROVE  TypeOK'
<1>1. CallTypeOK'
    BY AnswerType, GotoType
<1> QED
    BY <1>1 DEF TypeOK, CallTypeOK

LEMMA LimiterType ==
    ASSUME TypeOK, NEW r \in Request,
           Limiter(r) \/ FailOpen(r) \/ LoseExpiry(r)
    PROVE  TypeOK'
<1> USE DEF At, Step
<1>0. call[r] \in Busy /\ call[r] # Idle /\ Routed(call[r])
    BY DEF Limiter, Incr, SetExpiry, CheckLimit, FailOpen, LoseExpiry, TypeOK
<1>1. CASE Incr(r)
    <2> DEFINE a == call[r].from
               n == Bumped(count[a])
               c == [call[r] EXCEPT !.tooMany = n > Limit[call[r].kind],
                                    !.pc = IF n = 1 THEN "expire" ELSE "limit"]
    <2>1. a \in Address /\ n \in Nat
        BY <1>0, BumpedType DEF Busy, TypeOK
    <2>2. c \in Busy /\ Routed(c)
        <3>1. call[r].pc = "incr"
            BY <1>1 DEF Incr
        <3>2. (n > Limit[call[r].kind]) \in BOOLEAN
            OBVIOUS
        <3> DEFINE m == n > Limit[call[r].kind]
        <3> HIDE DEF n, m
        <3>3. CASE n = 1
            BY <1>0, <3>2, <3>3 DEF Busy, Routed, m
        <3>4. CASE n # 1
            BY <1>0, <3>2, <3>4 DEF Busy, Routed, m
        <3> QED
            BY <3>3, <3>4
    <2>3. call' = [call EXCEPT ![r] = c] /\ count' = [count EXCEPT ![a] = n]
        BY <1>1 DEF Incr
    <2> HIDE DEF c, n
    <2>4. CallTypeOK'
        BY <2>2, <2>3, SetType
    <2> QED
        BY <1>1, <2>1, <2>3, <2>4 DEF Incr, TypeOK, CallTypeOK
<1>2. CASE SetExpiry(r) \/ LoseExpiry(r)
    <2> DEFINE a == call[r].from
    <2>1. a \in Address
        BY <1>0 DEF Busy
    <2>2. Routed([call[r] EXCEPT !.pc = "limit"])
        BY <1>0 DEF Routed, Busy
    <2>3. Goto(r, "limit") /\ UNCHANGED <<count, tokens>>
        BY <1>2 DEF SetExpiry, LoseExpiry
    <2>4. CallTypeOK'
        BY <1>0, <2>2, <2>3, GotoType
    <2>5. ttl' = ttl \/ ttl' = [ttl EXCEPT ![a] = count[a] > 0]
        BY <1>2 DEF SetExpiry, LoseExpiry
    <2>6. lost' = lost \/ lost' = lost \ {a} \/ lost' = lost \cup {a}
        BY <1>2 DEF SetExpiry, LoseExpiry
    <2>7. (count[a] > 0) \in BOOLEAN
        OBVIOUS
    <2> HIDE DEF a
    <2>8. ttl' \in [Address -> BOOLEAN]
        BY <2>1, <2>5, <2>7 DEF TypeOK
    <2>9. lost' \subseteq Address
        BY <2>1, <2>6 DEF TypeOK
    <2> QED
        BY <2>3, <2>4, <2>8, <2>9 DEF TypeOK, CallTypeOK
<1>3. CASE CheckLimit(r) \/ FailOpen(r)
    <2>1. \/ Answer(r)
          \/ call[r].kind # "refresh" /\ Goto(r, Onward(call[r].kind))
        BY <1>3 DEF CheckLimit, FailOpen
    <2>2. /\ Onward(call[r].kind) \in Step
          /\ call[r].kind # "refresh" =>
                 Routed([call[r] EXCEPT !.pc = Onward(call[r].kind)])
        BY <1>0 DEF Onward, Routed, Busy
    <2>3. CallTypeOK'
        BY <1>0, <2>1, <2>2, AnswerType, GotoType
    <2>4. call[r].from \in Address
        BY <1>0 DEF Busy
    <2>5. count' \in [Address -> Nat] /\ ttl' = ttl /\ lost' \subseteq Address
        BY <1>3, <2>4, BumpedType DEF CheckLimit, FailOpen, TypeOK
    <2> QED
        BY <1>3, <2>3, <2>5 DEF CheckLimit, FailOpen, TypeOK, CallTypeOK
<1> QED
    BY <1>1, <1>2, <1>3 DEF Limiter

LEMMA CheckType ==
    ASSUME TypeOK, NEW r \in Request,
           Edge(r) \/ Api(r) \/ FallThrough(r) \/ Fail(r)
    PROVE  TypeOK'
<1> USE DEF At, Step
<1>0. call[r] \in Busy /\ call[r] # Idle /\ Routed(call[r])
    BY DEF Edge, Api, LookBlacklist, LookCache, Verify, Store, GuardVerify, GuardLookup,
           Handle, Revoke, FallThrough, Fail, TypeOK
<1>1. CASE LookBlacklist(r) \/ LookCache(r) \/ Verify(r) \/ FallThrough(r)
    <2>1. /\ UNCHANGED <<counters, tokens>>
          /\ call[r].kind = "api"
          /\ \/ Answer(r)
             \/ \E pc \in {"cache", "guard", "verify", "store"} : Goto(r, pc)
        BY <1>0, <1>1 DEF LookBlacklist, LookCache, Verify, FallThrough, Routed
    <2>2. \A pc \in {"cache", "guard", "verify", "store"} :
              Routed([call[r] EXCEPT !.pc = pc])
        BY <1>0, <2>1 DEF Routed, Busy
    <2> QED
        BY <1>0, <2>1, <2>2, MoveType
<1>2. CASE Store(r)
    <2>1. Routed([call[r] EXCEPT !.pc = "guard"])
        BY <1>0, <1>2 DEF Store, Routed, Busy
    <2>2. CallTypeOK'
        BY <1>0, <1>2, <2>1, GotoType DEF Store
    <2>3. call[r].token \in Token
        BY <1>0 DEF Busy
    <2> QED
        BY <1>2, <2>2, <2>3 DEF Store, TypeOK, CallTypeOK
<1>3. CASE GuardVerify(r) \/ GuardLookup(r)
    <2>1. /\ UNCHANGED <<counters, tokens>>
          /\ call[r].kind # "refresh"
          /\ \/ Answer(r)
             \/ Goto(r, "lookup")
             \/ Goto(r, IF call[r].kind = "logout" THEN "revoke" ELSE "handler")
        BY <1>0, <1>3 DEF GuardVerify, GuardLookup, Routed
    <2>2. /\ Routed([call[r] EXCEPT !.pc = "lookup"])
          /\ Routed([call[r] EXCEPT !.pc =
                         IF call[r].kind = "logout" THEN "revoke" ELSE "handler"])
        BY <1>0, <2>1 DEF Routed, Busy
    <2> QED
        BY <1>0, <2>1, <2>2, MoveType
<1>4. CASE Revoke(r)
    <2>1. call[r].token \in Token
        BY <1>0 DEF Busy
    <2> QED
        BY <1>4, <2>1, AnswerType DEF Revoke, TypeOK, CallTypeOK
<1>5. CASE Handle(r) \/ Fail(r)
    BY <1>0, <1>5, MoveType DEF Handle, Fail
<1> QED
    BY <1>1, <1>2, <1>3, <1>4, <1>5 DEF Edge, Api

LEMMA OtherType ==
    ASSUME TypeOK,
           \/ \E r \in Request, kind \in Kind, a \in Address, t \in Token :
                  Arrive(r, kind, a, t)
           \/ \E a \in Address : WindowEnds(a) \/ Evict(a)
           \/ \E t \in Token : ExpireToken(t) \/ BlacklistEnds(t) \/ CacheEnds(t)
    PROVE  TypeOK'
<1>1. ASSUME NEW r \in Request, NEW kind \in Kind, NEW a \in Address, NEW t \in Token,
             Arrive(r, kind, a, t)
      PROVE  TypeOK'
    <2> DEFINE c == [pc |-> "incr", kind |-> kind, from |-> a, token |-> t,
                     tooMany |-> FALSE, late |-> t \in over]
    <2>1. c \in Busy /\ Routed(c)
        BY DEF Busy, Step, Routed
    <2>2. call' = [call EXCEPT ![r] = c]
        BY <1>1 DEF Arrive
    <2> HIDE DEF c
    <2>3. CallTypeOK'
        BY <2>1, <2>2, SetType
    <2> QED
        BY <1>1, <2>3 DEF Arrive, TypeOK, CallTypeOK
<1>2. ASSUME NEW a \in Address, WindowEnds(a) \/ Evict(a) PROVE TypeOK'
    <2>1. Forget(a)
        BY <1>2 DEF WindowEnds, Evict
    <2>2. count' \in [Address -> Nat] /\ ttl' \in [Address -> BOOLEAN]
        BY <2>1 DEF Forget, TypeOK
    <2>3. lost' \subseteq Address
        BY <2>1 DEF Forget, TypeOK
    <2>4. CallTypeOK'
        BY <2>1 DEF Forget, TypeOK, CallTypeOK, Routed
    <2> QED
        BY <2>1, <2>2, <2>3, <2>4 DEF Forget, TypeOK, CallTypeOK
<1>3. ASSUME NEW t \in Token, ExpireToken(t) \/ BlacklistEnds(t) \/ CacheEnds(t)
      PROVE  TypeOK'
    BY <1>3 DEF ExpireToken, BlacklistEnds, CacheEnds, TypeOK, Routed
<1> QED
    BY <1>1, <1>2, <1>3

LEMMA NextType == TypeOK /\ [Next]_vars => TypeOK'
<1>1. TypeOK /\ UNCHANGED vars => TypeOK'
    BY DEF TypeOK, vars, Routed
<1> QED
    BY <1>1, LimiterType, CheckType, OtherType DEF Next

\* No request comes to auth.lua or to logout() but by the locations and
\* routes that lead there.
THEOREM GatewayTypeCorrect == Spec => []TypeOK
<1>1. Init => TypeOK
    BY DEF Init, TypeOK
<1> QED
    BY <1>1, NextType, PTL DEF Spec

-----------------------------------------------------------------------------
(* The end of every counter. *)

\* A step that leaves the counters, and whoever is about to set an expiry.
LEMMA EndFrame ==
    ASSUME CounterHasEnd, UNCHANGED counters,
           \A q \in Request : At(q, "expire") => call'[q] = call[q]
    PROVE  CounterHasEnd'
    BY DEF CounterHasEnd, At

LEMMA EndIncr ==
    ASSUME TypeOK, CounterHasEnd, NEW r \in Request, Incr(r)
    PROVE  CounterHasEnd'
<1> DEFINE b == call[r].from
           n == Bumped(count[b])
<1>1. /\ call[r] \in Busy /\ b \in Address /\ call[r].pc = "incr"
      /\ call' = [call EXCEPT ![r] = call'[r]]
      /\ call'[r].from = b /\ call'[r] # Idle
      /\ count' = [count EXCEPT ![b] = n] /\ UNCHANGED <<ttl, lost>>
      /\ n = 1 => call'[r].pc = "expire"
    <2>1. call[r] \in Busy /\ call[r].pc = "incr"
        BY DEF Incr, At, TypeOK
    <2> DEFINE e == n > Limit[call[r].kind]
    <2>2. call' = [call EXCEPT ![r].tooMany = e,
                               ![r].pc = IF n = 1 THEN "expire" ELSE "limit"]
        BY DEF Incr
    <2> HIDE DEF n, e
    <2>3. call'[r] = [call[r] EXCEPT !.tooMany = e,
                                     !.pc = IF n = 1 THEN "expire" ELSE "limit"]
        BY <2>2 DEF TypeOK
    <2>4. call' = [call EXCEPT ![r] = call'[r]]
        BY <2>2, <2>3 DEF TypeOK
    <2>5. call'[r].from = b /\ (n = 1 => call'[r].pc = "expire") /\ call'[r] # Idle
        BY <2>1, <2>3 DEF Busy, Idle
    <2>6. b \in Address
        BY <2>1 DEF Busy
    <2> QED
        BY <2>1, <2>4, <2>5, <2>6 DEF Incr, n
<1>2. n = count[b] \/ n = count[b] + 1
    BY DEF Bumped
<1>3. n > 0 /\ count[b] \in Nat
    BY <1>1, BumpedType DEF TypeOK
<1> HIDE DEF b, n
<1> SUFFICES ASSUME NEW a \in Address, count'[a] > 0, ~ttl'[a]
             PROVE  a \in lost' \/ \E q \in Request : At(q, "expire")' /\ call'[q].from = a
    BY DEF CounterHasEnd
<1>4. CASE a = b /\ n = 1
    BY <1>1, <1>4 DEF At
<1>5. CASE a # b \/ n # 1
    <2>1. count[a] > 0 /\ ~ttl[a]
        BY <1>1, <1>2, <1>3, <1>5 DEF TypeOK
    <2>2. CASE a \in lost
        BY <1>1, <2>2
    <2>3. CASE \E q \in Request : At(q, "expire") /\ call[q].from = a
        BY <1>1, <2>3 DEF At, TypeOK
    <2> QED
        BY <2>1, <2>2, <2>3 DEF CounterHasEnd
<1> QED
    BY <1>4, <1>5

LEMMA EndExpire ==
    ASSUME TypeOK, CounterHasEnd, NEW r \in Request, SetExpiry(r) \/ LoseExpiry(r)
    PROVE  CounterHasEnd'
<1> DEFINE b == call[r].from
<1>1. b \in Address
    BY DEF SetExpiry, LoseExpiry, At, TypeOK, Busy
<1>2. \A q \in Request : q # r => call'[q] = call[q]
    BY DEF SetExpiry, LoseExpiry, Goto, TypeOK
<1>3. UNCHANGED count
    BY DEF SetExpiry, LoseExpiry
<1> SUFFICES ASSUME NEW a \in Address, count'[a] > 0, ~ttl'[a]
             PROVE  a \in lost' \/ \E q \in Request : At(q, "expire")' /\ call'[q].from = a
    BY DEF CounterHasEnd
<1>4. CASE a = b
    <2>1. CASE SetExpiry(r)
        BY <1>1, <1>3, <1>4, <2>1 DEF SetExpiry, TypeOK
    <2>2. CASE LoseExpiry(r)
        BY <1>3, <1>4, <2>2 DEF LoseExpiry
    <2> QED
        BY <2>1, <2>2
<1>5. CASE a # b
    <2>1. ttl'[a] = ttl[a]
        BY <1>1, <1>5 DEF SetExpiry, LoseExpiry, TypeOK
    <2>2. a \in lost => a \in lost'
        BY <1>5 DEF SetExpiry, LoseExpiry
    <2> QED
        BY <1>2, <1>3, <1>5, <2>1, <2>2 DEF CounterHasEnd, At
<1> QED
    BY <1>4, <1>5

LEMMA EndFailOpen ==
    ASSUME TypeOK, CounterHasEnd, NEW r \in Request, FailOpen(r)
    PROVE  CounterHasEnd'
<1> DEFINE b == call[r].from
<1>1. b \in Address
    BY DEF FailOpen, At, TypeOK, Busy
<1>2. \A q \in Request : At(q, "expire") => call'[q] = call[q]
    BY DEF FailOpen, Goto, Answer, At, TypeOK
<1>3. CASE UNCHANGED counters
    BY <1>2, <1>3, EndFrame
<1>4. CASE /\ count' = [count EXCEPT ![b] = Bumped(count[b])]
           /\ lost' = IF count[b] = 0 THEN lost \cup {b} ELSE lost
           /\ UNCHANGED ttl
    <2> HIDE DEF b
    <2> SUFFICES ASSUME NEW a \in Address, count'[a] > 0, ~ttl[a], a \notin lost'
                 PROVE  \E q \in Request : At(q, "expire")' /\ call'[q].from = a
        BY <1>4 DEF CounterHasEnd
    <2>1. count[a] > 0 /\ a \notin lost
        BY <1>1, <1>4 DEF TypeOK
    <2>2. PICK q \in Request : At(q, "expire") /\ call[q].from = a
        BY <2>1 DEF CounterHasEnd
    <2> QED
        BY <1>2, <2>2 DEF At
<1> QED
    BY <1>3, <1>4 DEF FailOpen

LEMMA EndNext == TypeOK /\ CounterHasEnd /\ [Next]_vars => CounterHasEnd'
<1> SUFFICES ASSUME TypeOK, CounterHasEnd, [Next]_vars PROVE CounterHasEnd'
    OBVIOUS
<1>1. ASSUME NEW r \in Request, NEW kind \in Kind, NEW a \in Address, NEW t \in Token,
             Arrive(r, kind, a, t)
      PROVE  CounterHasEnd'
    BY <1>1, EndFrame DEF Arrive, At, TypeOK
<1>2. ASSUME NEW r \in Request, CheckLimit(r) \/ FallThrough(r) \/ Fail(r)
      PROVE  CounterHasEnd'
    BY <1>2, EndFrame DEF CheckLimit, FallThrough, Fail, At, Goto, Answer, TypeOK
<1>3. ASSUME NEW r \in Request, Edge(r) PROVE CounterHasEnd'
    BY <1>3, EndFrame DEF Edge, LookBlacklist, LookCache, Verify, Store, At, Goto, Answer, TypeOK
<1>4. ASSUME NEW r \in Request, Api(r) PROVE CounterHasEnd'
    BY <1>4, EndFrame DEF Api, GuardVerify, GuardLookup, Handle, Revoke, At, Goto, Answer, TypeOK
<1>5. ASSUME NEW a \in Address, WindowEnds(a) \/ Evict(a) PROVE CounterHasEnd'
    BY <1>5 DEF WindowEnds, Evict, Forget, CounterHasEnd, At, TypeOK
<1>6. ASSUME NEW t \in Token, ExpireToken(t) \/ BlacklistEnds(t) \/ CacheEnds(t)
      PROVE  CounterHasEnd'
    BY <1>6, EndFrame DEF ExpireToken, BlacklistEnds, CacheEnds
<1>7. CASE UNCHANGED vars
    BY <1>7, EndFrame DEF vars
<1> QED
    BY <1>1, <1>2, <1>3, <1>4, <1>5, <1>6, <1>7, EndIncr, EndExpire, EndFailOpen
    DEF Next, Limiter

\* No interleaving of the requests of an address, and no eviction of its
\* counter between INCR and EXPIRE, leaves a counter that nobody will end,
\* unless an EXPIRE was lost.
THEOREM CountersEnd == Spec => []CounterHasEnd
<1>1. Init => CounterHasEnd
    BY DEF Init, CounterHasEnd
<1> QED
    BY <1>1, GatewayTypeCorrect, EndNext, PTL DEF Spec

-----------------------------------------------------------------------------
(* What a logout shuts out. *)

\* Where a request comes only by a look at the blacklist that let it by.
Past(c) ==
    \/ c.pc \in {"cache", "store", "handler", "revoke"}
    \/ c.kind = "api" /\ c.pc \in {"guard", "lookup"}

\* A request that began after the logout of its token.
Barred(c) ==
    (c # Idle /\ c.late) => c.token \in over /\ (Past(c) => c.token \in stale)

\* A token leaves the blacklist only when it has expired; until then a late
\* request passes no look at it.
RevokedInv ==
    /\ over \subseteq blacklist \cup stale
    /\ \A r \in Request : Barred(call[r])

\* What a logout has shut out stays out, and tokens only become more stale.
LEMMA BarredFrame ==
    ASSUME RevokedInv, over \subseteq over', stale \subseteq stale',
           over' \subseteq blacklist' \cup stale',
           \A q \in Request : call'[q] = call[q] \/ Barred(call[q])' \/ call'[q] = Idle
    PROVE  RevokedInv'
    BY DEF RevokedInv, Barred

\* A request goes on: as its token was outside the blacklist or it has
\* expired, or to a place before the next look.
LEMMA BarredGoto ==
    ASSUME TypeOK, RevokedInv, UNCHANGED <<blacklist, stale, over>>,
           NEW r \in Request, call[r] # Idle, NEW pc \in Step, Goto(r, pc),
           \/ call[r].token \notin blacklist
           \/ Past(call[r])
           \/ pc \in {"expire", "limit", "blacklist", "verify"}
           \/ call[r].kind # "api" /\ pc \in {"guard", "lookup"}
    PROVE  RevokedInv'
<1>1. call[r] \in Busy /\ Barred(call[r])
    BY DEF TypeOK, RevokedInv
<1>2. /\ call'[r] = [call[r] EXCEPT !.pc = pc]
      /\ \A q \in Request : q # r => call'[q] = call[q]
    BY DEF Goto, TypeOK
<1>3. /\ call'[r].token = call[r].token /\ call'[r].late = call[r].late
      /\ call'[r].kind = call[r].kind /\ call'[r].pc = pc
    BY <1>1, <1>2 DEF Busy
<1>4. call[r].late => call[r].token \in over /\ (call[r].token \in blacklist \cup stale)
    BY <1>1 DEF Barred, RevokedInv
<1>5. Barred(call[r])'
    BY <1>1, <1>3, <1>4 DEF Barred, Past
<1> QED
    BY <1>2, <1>5, BarredFrame DEF RevokedInv

LEMMA BarredAnswer ==
    ASSUME TypeOK, RevokedInv, UNCHANGED <<blacklist, stale, over>>,
           NEW r \in Request, Answer(r)
    PROVE  RevokedInv'
    BY BarredFrame DEF Answer, TypeOK, RevokedInv

LEMMA BarredLimiter ==
    ASSUME TypeOK, RevokedInv, NEW r \in Request,
           Limiter(r) \/ FailOpen(r) \/ LoseExpiry(r)
    PROVE  RevokedInv'
<1> USE DEF At, Step
<1>0. call[r] # Idle /\ call[r] \in Busy
    BY DEF Limiter, Incr, SetExpiry, CheckLimit, FailOpen, LoseExpiry, TypeOK
<1>1. CASE Incr(r)
    <2> DEFINE n == Bumped(count[call[r].from])
               e == n > Limit[call[r].kind]
               pc == IF n = 1 THEN "expire" ELSE "limit"
    <2>1. call' = [call EXCEPT ![r].tooMany = e, ![r].pc = pc]
        BY <1>1 DEF Incr
    <2>2. pc \in {"expire", "limit"}
        OBVIOUS
    <2> HIDE DEF n, e, pc
    <2>3. /\ call'[r] = [call[r] EXCEPT !.tooMany = e, !.pc = pc]
          /\ \A q \in Request : q # r => call'[q] = call[q]
        BY <2>1 DEF TypeOK
    <2>4. /\ call'[r].token = call[r].token /\ call'[r].late = call[r].late
          /\ call'[r].pc = pc
        BY <1>0, <2>3 DEF Busy
    <2>5. Barred(call[r])
        BY DEF RevokedInv
    <2>6. UNCHANGED <<over, stale, blacklist>>
        BY <1>1 DEF Incr
    <2>7. Barred(call[r])'
        BY <1>0, <2>2, <2>4, <2>5, <2>6 DEF Barred, Past
    <2> QED
        BY <2>3, <2>6, <2>7, BarredFrame DEF RevokedInv
<1>2. CASE SetExpiry(r) \/ LoseExpiry(r)
    BY <1>0, <1>2, BarredGoto DEF SetExpiry, LoseExpiry
<1>3. CASE CheckLimit(r) \/ FailOpen(r)
    <2>1. \/ Answer(r)
          \/ call[r].kind # "api" /\ Goto(r, "guard")
          \/ Goto(r, "blacklist")
        BY <1>3 DEF CheckLimit, FailOpen, Onward
    <2>2. UNCHANGED <<blacklist, stale, over>>
        BY <1>3 DEF CheckLimit, FailOpen
    <2> QED
        BY <1>0, <2>1, <2>2, BarredAnswer, BarredGoto
<1> QED
    BY <1>1, <1>2, <1>3 DEF Limiter

LEMMA BarredCheck ==
    ASSUME TypeOK, RevokedInv, NEW r \in Request,
           Edge(r) \/ Api(r) \/ FallThrough(r) \/ Fail(r)
    PROVE  RevokedInv'
<1> USE DEF At, Step
<1>0. call[r] # Idle /\ call[r] \in Busy /\ Routed(call[r])
    BY DEF Edge, Api, LookBlacklist, LookCache, Verify, Store, GuardVerify, GuardLookup,
           Handle, Revoke, FallThrough, Fail, TypeOK
<1>1. CASE LookBlacklist(r) \/ LookCache(r) \/ Verify(r) \/ FallThrough(r)
    <2>1. UNCHANGED <<blacklist, stale, over>>
        BY <1>1 DEF LookBlacklist, LookCache, Verify, FallThrough
    <2>2. \/ Answer(r)
          \/ Goto(r, "cache") /\ call[r].token \notin blacklist
          \/ Goto(r, "guard") /\ Past(call[r])
          \/ Goto(r, "verify")
          \/ Goto(r, "store") /\ call[r].token \notin blacklist
        BY <1>1 DEF LookBlacklist, LookCache, Verify, FallThrough, Past
    <2> QED
        BY <1>0, <2>1, <2>2, BarredAnswer, BarredGoto
<1>2. CASE Store(r)
    BY <1>0, <1>2, BarredGoto DEF Store, Past
<1>3. CASE GuardVerify(r)
    <2>1. \/ Answer(r)
          \/ Goto(r, "lookup") /\ (call[r].kind # "api" \/ Past(call[r]))
        BY <1>3 DEF GuardVerify, Past
    <2> QED
        BY <1>0, <1>3, <2>1, BarredAnswer, BarredGoto DEF GuardVerify
<1>4. CASE GuardLookup(r)
    <2>1. \/ Answer(r)
          \/ /\ call[r].token \notin blacklist
             /\ Goto(r, "revoke") \/ Goto(r, "handler")
        BY <1>4 DEF GuardLookup
    <2> QED
        BY <1>0, <1>4, <2>1, BarredAnswer, BarredGoto DEF GuardLookup
<1>5. CASE Revoke(r)
    BY <1>5, BarredFrame DEF Revoke, Answer, TypeOK, RevokedInv
<1>6. CASE Handle(r) \/ Fail(r)
    BY <1>6, BarredAnswer DEF Handle, Fail
<1> QED
    BY <1>1, <1>2, <1>3, <1>4, <1>5, <1>6 DEF Edge, Api

LEMMA BarredNext == TypeOK /\ RevokedInv /\ [Next]_vars => RevokedInv'
<1> SUFFICES ASSUME TypeOK, RevokedInv, [Next]_vars PROVE RevokedInv'
    OBVIOUS
<1>1. ASSUME NEW r \in Request, NEW kind \in Kind, NEW a \in Address, NEW t \in Token,
             Arrive(r, kind, a, t)
      PROVE  RevokedInv'
    <2> DEFINE c == [pc |-> "incr", kind |-> kind, from |-> a, token |-> t,
                     tooMany |-> FALSE, late |-> t \in over]
    <2>1. /\ c.pc = "incr" /\ c.token = t /\ (c.late <=> t \in over)
          /\ call' = [call EXCEPT ![r] = c]
        BY <1>1 DEF Arrive
    <2> HIDE DEF c
    <2>2. Barred(call[r])' /\ \A q \in Request : q # r => call'[q] = call[q]
        BY <1>1, <2>1 DEF Arrive, TypeOK, Barred, Past
    <2> QED
        BY <1>1, <2>2, BarredFrame DEF Arrive, RevokedInv
<1>2. ASSUME NEW a \in Address, WindowEnds(a) \/ Evict(a) PROVE RevokedInv'
    BY <1>2, BarredFrame DEF WindowEnds, Evict, Forget, RevokedInv
<1>3. ASSUME NEW t \in Token, ExpireToken(t) \/ BlacklistEnds(t) \/ CacheEnds(t)
      PROVE  RevokedInv'
    BY <1>3, BarredFrame DEF ExpireToken, BlacklistEnds, CacheEnds, RevokedInv
<1>4. CASE UNCHANGED vars
    BY <1>4, BarredFrame DEF vars, RevokedInv
<1> QED
    BY <1>1, <1>2, <1>3, <1>4, BarredLimiter, BarredCheck DEF Next

\* A request that begins when a logout has been answered gets by neither the
\* edge nor the guard, however the cache was filled, the entries expire and
\* the Redis fails, until its token expires.
THEOREM RevokedTokensStayOut == Spec => []RevokedStaysOut
<1>1. Init => RevokedInv
    BY DEF Init, RevokedInv, Barred
<1>2. RevokedInv => RevokedStaysOut
    BY DEF RevokedInv, Barred, Past, RevokedStaysOut
<1> QED
    BY <1>1, <1>2, GatewayTypeCorrect, BarredNext, PTL DEF Spec
=============================================================================
