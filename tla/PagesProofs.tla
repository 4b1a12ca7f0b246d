---------------------------- MODULE PagesProofs ----------------------------
(* Pages for any markets, faults and number of calls: types, what the list *)
(* in the cache shows, what keeps a settled market settled, and what a     *)
(* disabled button waits for.                                              *)
EXTENDS Pages, TLAPS

USE DEF server, local, list, AdminKind, UpdateKind, MarketStatus, Page

\* A call is either idle or has the fields of one.
LEMMA CallShape ==
    ASSUME TypeOK, NEW c \in Call
    PROVE  /\ calls[c] \in Calling \cup {Idle}
           /\ Busy(c) => calls[c] \in Calling
           /\ calls[c] \in Calling => Busy(c)
<1>1. ASSUME calls[c] \in Calling PROVE calls[c] # Idle
    <2>1. calls[c].step # "idle"
        BY <1>1 DEF Calling
    <2> QED
        BY <2>1 DEF Idle
<1> QED
    BY <1>1 DEF TypeOK, Busy

\* What a slot holds after each of the ways in which it changes.
LEMMA SlotTypes ==
    ASSUME NEW k \in Calling, NEW s \in {"begin", "save", "publish", "ok", "failed"}
    PROVE  /\ [k EXCEPT !.step = s] \in Calling
           /\ [k EXCEPT !.here = FALSE] \in Calling
           /\ [k EXCEPT !.waits = FALSE, !.here = FALSE] \in Calling
    BY DEF Calling

LEMMA ProceedType ==
    ASSUME TypeOK, NEW c \in Call, Busy(c), NEW s \in {"begin", "save", "publish", "ok", "failed"},
           Proceed(c, s) \/ Respond(c, s)
    PROVE  calls' \in [Call -> Calling \cup {Idle}]
<1> DEFINE k == [calls[c] EXCEPT !.step = s]
<1>1. k \in Calling
    BY CallShape, SlotTypes
<1>2. calls' = [calls EXCEPT ![c] = k] \/ calls' = [calls EXCEPT ![c] = Idle]
    BY DEF Proceed, Respond, TypeOK
<1> HIDE DEF k
<1> QED
    BY <1>1, <1>2 DEF TypeOK

LEMMA UnmountType ==
    ASSUME NEW cs \in [Call -> Calling \cup {Idle}]
    PROVE  Unmount(cs) \in [Call -> Calling \cup {Idle}]
    BY SlotTypes DEF Unmount

LEMMA EmptyType == Empty \in Listing
    BY DEF Empty, Listing

LEMMA InvalidateType ==
    ASSUME TypeOK, Invalidate
    PROVE  /\ fetch' \in {"none", "sent", "read", "fresh", "stale", "failed"}
           /\ got' \in Listing /\ missed' \in BOOLEAN
    BY DEF TypeOK, Invalidate, Fetching, Empty, Listing

LEMMA BeginType ==
    ASSUME TypeOK, NEW kind \in AdminKind \cup {"bet"}, NEW m \in Market, NEW mine \in BOOLEAN,
           Begin(kind, m, mine)
    PROVE  calls' \in [Call -> Calling \cup {Idle}] /\ made' \in Nat
<1> DEFINE k == [step |-> "begin", kind |-> kind, market |-> m, waits |-> mine, here |-> mine]
<1>1. k \in Calling
    BY DEF Calling
<1> DEFINE n == made + 1
<1>2. calls' = [calls EXCEPT ![n] = k] /\ made' = made + 1
    BY DEF Begin
<1> HIDE DEF k, n
<1>3. calls' \in [Call -> Calling \cup {Idle}]
    BY <1>1, <1>2 DEF TypeOK
<1>4. made' \in Nat
    BY <1>2 DEF TypeOK
<1> QED
    BY <1>3, <1>4

LEMMA ClicksType == TypeOK /\ Clicks => TypeOK'
<1>1. ASSUME TypeOK, NEW p \in Page, Navigate(p) PROVE TypeOK'
    <2>1. calls' \in [Call -> Calling \cup {Idle}]
        BY <1>1, UnmountType DEF Navigate, TypeOK
    <2> QED
        BY <1>1, <2>1 DEF Navigate, Mount, Forget, TypeOK
<1>2. ASSUME TypeOK, RefuseInput PROVE TypeOK'
    BY <1>2 DEF RefuseInput, AddToast, TypeOK
<1>3. ASSUME TypeOK, NEW m \in Market, AskResult(m) PROVE TypeOK'
    BY <1>3, PagesAssumption DEF AskResult, TypeOK
<1>4. ASSUME TypeOK, NEW m \in Market, PlaceBet(m) PROVE TypeOK'
    <2>1. calls' \in [Call -> Calling \cup {Idle}] /\ made' \in Nat
        BY <1>4, BeginType DEF PlaceBet
    <2> QED
        BY <1>4, <2>1 DEF PlaceBet, Begin, TypeOK
<1>5. ASSUME TypeOK, NEW m \in Market, NEW kind \in AdminKind, NEW mine \in BOOLEAN,
             Begin(kind, m, mine), UNCHANGED local, strayed' \in BOOLEAN
      PROVE  TypeOK'
    <2>1. calls' \in [Call -> Calling \cup {Idle}] /\ made' \in Nat
        BY <1>5, BeginType
    <2> QED
        BY <1>5, <2>1 DEF Begin, TypeOK
<1>6. ASSUME TypeOK, NEW m \in Market, Settle(m) \/ Create(m) PROVE TypeOK'
    BY <1>5, <1>6 DEF Settle, Create, TypeOK
<1>7. ASSUME TypeOK, NEW m \in Market, NEW kind \in {"suspend", "reopen"}, ChangeStatus(kind, m)
      PROVE  TypeOK'
    BY <1>5, <1>7 DEF ChangeStatus, TypeOK
<1>8. ASSUME TypeOK, NEW m \in Market, NEW kind \in AdminKind, OtherAdmin(kind, m) PROVE TypeOK'
    BY <1>5, <1>8 DEF OtherAdmin, TypeOK
<1> QED
    BY <1>1, <1>2, <1>3, <1>4, <1>6, <1>7, <1>8 DEF Clicks

LEMMA ServeType == ASSUME TypeOK, NEW c \in Call,
                          CheckStatus(c) \/ TakeBet(c) \/ Save(c) \/ Publish(c) \/ ServerError(c)
                   PROVE  TypeOK'
<1>1. Busy(c) /\ calls[c] \in Calling
    BY CallShape DEF CheckStatus, TakeBet, Save, Publish, ServerError, AtStep, Running
<1>2. calls[c].market \in Market /\ calls[c].kind \in AdminKind \cup {"bet"}
    BY <1>1 DEF Calling
<1>3. calls' \in [Call -> Calling \cup {Idle}]
    BY <1>1, ProceedType DEF CheckStatus, TakeBet, Save, Publish, ServerError
<1>4. CASE CheckStatus(c) \/ TakeBet(c)
    BY <1>3, <1>4 DEF CheckStatus, TakeBet, TypeOK
<1>5. CASE Save(c)
    <2>1. Target(calls[c].kind) \in MarketStatus
        BY DEF Target
    <2> QED
        BY <1>2, <1>3, <1>5, <2>1 DEF Save, TypeOK, Listing
<1>6. CASE Publish(c)
    <2> DEFINE e == [kind |-> IF calls[c].kind = "create" THEN "created" ELSE "updated",
                     market |-> calls[c].market]
    <2>1. e \in Event
        BY <1>2 DEF Event
    <2>2. events' = events \cup {e}
        BY <1>6 DEF Publish
    <2> HIDE DEF e
    <2> QED
        BY <1>3, <1>6, <2>1, <2>2 DEF Publish, TypeOK
<1>7. CASE ServerError(c)
    BY <1>3, <1>7 DEF ServerError, TypeOK
<1> QED
    BY <1>4, <1>5, <1>6, <1>7

LEMMA AnswerType == ASSUME TypeOK, NEW c \in Call,
                           Succeed(c) \/ Created(c) \/ Fail(c) \/ LoseAnswer(c)
                    PROVE  TypeOK'
<1> DEFINE cs == [calls EXCEPT ![c] = Idle]
<1>1. cs \in [Call -> Calling \cup {Idle}] /\ Unmount(cs) \in [Call -> Calling \cup {Idle}]
    <2>1. cs \in [Call -> Calling \cup {Idle}]
        BY DEF TypeOK
    <2> HIDE DEF cs
    <2> QED
        BY <2>1, UnmountType
<1>2. CASE Succeed(c)
    <2>1. calls' = cs
        BY <1>2 DEF Succeed
    <2> HIDE DEF cs
    <2>2. placing' \in {placing, NoMarket} /\ confirm' \in {confirm, NoMarket}
        BY <1>2 DEF Succeed, Release
    <2>3. /\ fetch' \in {"none", "sent", "read", "fresh", "stale", "failed"}
          /\ got' \in Listing /\ missed' \in BOOLEAN /\ loaded' = loaded /\ shown' = shown
        BY <1>2, InvalidateType DEF Succeed, TypeOK
    <2> QED
        BY <1>1, <1>2, <2>1, <2>2, <2>3 DEF Succeed, AddToast, TypeOK
<1>3. CASE Created(c)
    <2>1. calls' = cs \/ calls' = Unmount(cs)
        BY <1>3 DEF Created
    <2> HIDE DEF cs
    <2>2. /\ fetch' \in {"none", "sent", "read", "fresh", "stale", "failed"}
          /\ got' \in Listing /\ missed' \in BOOLEAN
        BY <1>3, InvalidateType DEF Created, TypeOK, Fetching
    <2>3. strayed' \in BOOLEAN
        BY <1>3 DEF Created, TypeOK
    <2>4. /\ page' \in Page /\ placing' \in {placing, NoMarket} /\ confirm' \in {confirm, NoMarket}
          /\ placing' # NoMarket => page' = page
          /\ confirm' # NoMarket => page' = page
        BY <1>3 DEF Created, Forget, TypeOK
    <2> QED
        BY <1>1, <1>3, <2>1, <2>2, <2>3, <2>4 DEF Created, AddToast, TypeOK
<1>4. CASE Fail(c)
    <2>1. calls' = cs
        BY <1>4 DEF Fail
    <2> HIDE DEF cs
    <2> QED
        BY <1>1, <1>4, <2>1 DEF Fail, Release, AddToast, TypeOK
<1>5. CASE LoseAnswer(c)
    <2> DEFINE k == [calls[c] EXCEPT !.waits = FALSE, !.here = FALSE]
    <2>1. k \in Calling
        BY <1>5, CallShape, SlotTypes DEF LoseAnswer
    <2>2. calls' = [calls EXCEPT ![c] = k] \/ calls' = [calls EXCEPT ![c] = Idle]
        BY <1>5 DEF LoseAnswer, TypeOK
    <2> HIDE DEF k
    <2>3. calls' \in [Call -> Calling \cup {Idle}]
        BY <2>1, <2>2 DEF TypeOK
    <2> QED
        BY <1>5, <2>3 DEF LoseAnswer, Release, AddToast, TypeOK
<1> QED
    BY <1>2, <1>3, <1>4, <1>5

LEMMA ListType == TypeOK /\ (Load \/ FetchFails \/ Refetch \/ DismissTimer) => TypeOK'
<1>1. TypeOK /\ (Load \/ FetchFails \/ Refetch) => TypeOK'
    BY EmptyType DEF TypeOK, Load, ReadList, ShowList, FetchFails, Refetch
<1>2. TypeOK /\ DismissTimer => TypeOK'
    BY DEF TypeOK, DismissTimer, Dismiss
<1> QED
    BY <1>1, <1>2

LEMMA EventType == ASSUME TypeOK, NEW e \in events, Arrive(e) \/ LoseEvent(e) PROVE TypeOK'
<1>1. CASE Arrive(e)
    <2>1. toasts' \in Nat /\ events' \subseteq Event
        BY <1>1 DEF Arrive, AddToast, TypeOK
    <2>2. /\ fetch' \in {"none", "sent", "read", "fresh", "stale", "failed"}
          /\ got' \in Listing /\ missed' \in BOOLEAN
        BY <1>1, InvalidateType DEF Arrive
    <2> QED
        BY <1>1, <2>1, <2>2 DEF Arrive, TypeOK
<1>2. CASE LoseEvent(e)
    BY <1>2 DEF LoseEvent, TypeOK
<1> QED
    BY <1>1, <1>2

LEMMA NextType == TypeOK /\ [Next]_vars => TypeOK'
<1>1. TypeOK /\ UNCHANGED vars => TypeOK'
    BY DEF TypeOK, vars
<1> QED
    BY <1>1, ClicksType, ServeType, AnswerType, ListType, EventType
    DEF Next, Serve, Answer, Deliver

LEMMA InitType == Init => TypeOK
<1>1. ASSUME Init PROVE calls \in [Call -> Calling \cup {Idle}]
    BY <1>1 DEF Init
<1>2. Init => made \in Nat /\ toasts \in Nat /\ events \subseteq Event
    BY DEF Init
<1> QED
    BY <1>1, <1>2, EmptyType DEF Init, TypeOK

\* The state of a page ends with the page, and a call stays one of a known kind
\* about a known market.
THEOREM PagesTypeCorrect == Spec => []TypeOK
    BY InitType, NextType, PTL DEF Spec

-----------------------------------------------------------------------------
\* What is read, like what is shown, is behind only where a change is announced.
CurrentInv ==
    /\ TypeOK
    /\ \A c \in Call : c > made => calls[c] = Idle
    /\ (fetch = "read" /\ ~missed) => \A m \in Market : got[m] # market[m] => Announced(m)
    /\ ListIsCurrent

\* A handler that has saved keeps its announcement to come.
StillSaved ==
    \A c \in Call : AtStep(c, "publish") =>
        calls'[c].step = "publish" /\ calls'[c].market = calls[c].market

LEMMA StillAnnounced ==
    ASSUME NEW m \in Market, Announced(m), StillSaved, events \subseteq events'
    PROVE  Announced(m)'
<1>1. ASSUME NEW c \in Call, AtStep(c, "publish"), calls[c].market = m
      PROVE  calls'[c] # Idle /\ calls'[c].step = "publish" /\ calls'[c].market = m
    BY <1>1 DEF StillSaved, Idle
<1> QED
    BY <1>1 DEF Announced, AtStep, Busy

\* A step that changes no market and loses no announcement, and after which the
\* tab has the list that it had, or is about to fetch another.
LEMMA CurrentKept ==
    ASSUME CurrentInv, TypeOK', StillSaved, events \subseteq events', market' = market,
           \A c \in Call : c > made' => calls'[c] = Idle,
           (fetch' \in {"fresh", "read"} /\ ~missed') => UNCHANGED <<fetch, got, shown, missed>>
    PROVE  CurrentInv'
<1>1. \A m \in Market : Announced(m) => Announced(m)'
    BY StillAnnounced
<1> QED
    BY <1>1 DEF CurrentInv, ListIsCurrent

\* Calls other than c stay as they are, and c has nothing to announce.
LEMMA OthersStay ==
    ASSUME CurrentInv, NEW c \in Call, Busy(c), ~AtStep(c, "publish"), UNCHANGED made,
           \A d \in Call \ {c} : calls'[d] = calls[d]
    PROVE  StillSaved /\ \A d \in Call : d > made' => calls'[d] = Idle
<1>1. StillSaved
    BY DEF StillSaved, AtStep
<1>2. ~(c > made)
    BY DEF CurrentInv, Busy
<1> QED
    BY <1>1, <1>2 DEF CurrentInv

LEMMA BeginStays ==
    ASSUME CurrentInv, NEW kind, NEW m, NEW mine, Begin(kind, m, mine)
    PROVE  /\ StillSaved
           /\ \A c \in Call : c > made' => calls'[c] = Idle
           /\ UNCHANGED <<market, events, fetch, got, shown, missed>>
<1> DEFINE n == made + 1
<1>1. n \in Call /\ made' = n /\ made \in Nat
    BY PagesAssumption DEF Begin, CurrentInv, TypeOK, Call
<1>2. \A c \in Call \ {n} : calls'[c] = calls[c]
    BY DEF Begin, CurrentInv, TypeOK
<1>3. calls[n] = Idle
    <2>1. n > made
        BY <1>1
    <2> QED
        BY <1>1, <2>1 DEF CurrentInv
<1>4. UNCHANGED <<market, events, fetch, got, shown, missed>>
    BY DEF Begin
<1> HIDE DEF n
<1>5. StillSaved
    BY <1>2, <1>3 DEF StillSaved, AtStep, Busy
<1>6. ASSUME NEW c \in Call, c > n PROVE calls'[c] = Idle
    <2>1. c # n /\ c > made
        BY <1>1, <1>6 DEF Call, n
    <2> QED
        BY <1>2, <2>1 DEF CurrentInv
<1> QED
    BY <1>1, <1>4, <1>5, <1>6

\* The page that is left forgets its calls; what they are about stays.
LEMMA UnmountStays ==
    ASSUME TypeOK, NEW c \in Call, NEW cs \in [Call -> Calling \cup {Idle}],
           calls' = Unmount(cs), cs[c] = calls[c]
    PROVE  /\ calls[c] = Idle => calls'[c] = Idle
           /\ Busy(c) => calls'[c] \in Calling /\ calls'[c].step = calls[c].step
                         /\ calls'[c].market = calls[c].market /\ calls'[c].kind = calls[c].kind
<1>1. calls[c] = Idle => calls'[c] = Idle
    BY DEF Unmount
<1>2. ASSUME Busy(c)
      PROVE  /\ calls'[c] \in Calling /\ calls'[c].step = calls[c].step
             /\ calls'[c].market = calls[c].market /\ calls'[c].kind = calls[c].kind
    <2> DEFINE k == [calls[c] EXCEPT !.here = FALSE]
    <2>1. calls'[c] = k
        BY <1>2 DEF Unmount, Busy
    <2>2. calls[c] \in Calling
        BY <1>2, CallShape
    <2>3. k \in Calling
        BY <2>2, SlotTypes
    <2>4. k.step = calls[c].step /\ k.market = calls[c].market /\ k.kind = calls[c].kind
        BY <2>2 DEF Calling
    <2> QED
        BY <2>1, <2>3, <2>4
<1> QED
    BY <1>1, <1>2

LEMMA CurrentClicks == CurrentInv /\ TypeOK' /\ Clicks => CurrentInv'
<1> USE DEF Fetching
<1>1. ASSUME CurrentInv, TypeOK', NEW p \in Page, Navigate(p) PROVE CurrentInv'
    <2>1. \A c \in Call : /\ calls[c] = Idle => calls'[c] = Idle
                          /\ Busy(c) => /\ calls'[c].step = calls[c].step
                                        /\ calls'[c].market = calls[c].market
        BY <1>1, UnmountStays DEF Navigate, CurrentInv, TypeOK
    <2>2. StillSaved /\ \A c \in Call : c > made' => calls'[c] = Idle
        BY <1>1, <2>1 DEF StillSaved, AtStep, CurrentInv, Navigate
    <2> QED
        BY <1>1, <2>2, CurrentKept DEF Navigate, Mount
<1>2. ASSUME CurrentInv, TypeOK', NEW m, RefuseInput \/ AskResult(m) PROVE CurrentInv'
    <2>1. StillSaved /\ \A c \in Call : c > made' => calls'[c] = Idle
        BY <1>2 DEF StillSaved, AtStep, CurrentInv, RefuseInput, AskResult
    <2> QED
        BY <1>2, <2>1, CurrentKept DEF RefuseInput, AskResult
<1>3. ASSUME CurrentInv, TypeOK', NEW kind, NEW m, NEW mine, Begin(kind, m, mine) PROVE CurrentInv'
    BY <1>3, BeginStays, CurrentKept
<1> QED
    BY <1>1, <1>2, <1>3 DEF Clicks, PlaceBet, Settle, Create, ChangeStatus, OtherAdmin

LEMMA CurrentServe ==
    ASSUME CurrentInv, TypeOK', NEW c \in Call,
           CheckStatus(c) \/ TakeBet(c) \/ Save(c) \/ Publish(c) \/ ServerError(c)
    PROVE  CurrentInv'
<1>1. Busy(c) /\ calls[c] \in Calling /\ calls[c].market \in Market
    BY CallShape DEF CheckStatus, TakeBet, Save, Publish, ServerError, AtStep, Running, CurrentInv,
       Calling
<1>2. \A d \in Call \ {c} : calls'[d] = calls[d]
    BY DEF CheckStatus, TakeBet, Save, Publish, ServerError, Proceed, Respond, CurrentInv, TypeOK
<1>3. UNCHANGED <<made, fetch, got, shown>>
    BY DEF CheckStatus, TakeBet, Save, Publish, ServerError
<1>4. CASE CheckStatus(c) \/ TakeBet(c) \/ (ServerError(c) /\ ~AtStep(c, "publish"))
    <2>1. StillSaved /\ \A d \in Call : d > made' => calls'[d] = Idle
        BY <1>1, <1>2, <1>3, <1>4, OthersStay DEF CheckStatus, TakeBet, ServerError, AtStep
    <2>2. missed' = missed
        BY <1>4 DEF CheckStatus, TakeBet, ServerError, CurrentInv, TypeOK
    <2> QED
        BY <1>3, <1>4, <2>1, <2>2, CurrentKept DEF CheckStatus, TakeBet, ServerError
<1>5. \A d \in Call : d > made' => calls'[d] = Idle
    BY <1>1, <1>2, <1>3 DEF CurrentInv, Busy
<1>6. CASE ServerError(c) /\ AtStep(c, "publish")
    BY <1>5, <1>6 DEF ServerError, CurrentInv, ListIsCurrent
<1>7. CASE Save(c)
    <2> DEFINE k == [calls[c] EXCEPT !.step = "publish"]
    <2>1. calls'[c] = k
        BY <1>7 DEF Save, Proceed, CurrentInv, TypeOK
    <2>2. k \in Calling /\ k.step = "publish" /\ k.market = calls[c].market
        BY <1>1 DEF Calling
    <2> HIDE DEF k
    <2>3. AtStep(c, "publish")' /\ calls'[c].market = calls[c].market
        BY <2>1, <2>2 DEF AtStep, Busy, Idle
    <2>4. StillSaved
        BY <1>2, <2>1, <2>2 DEF StillSaved, AtStep
    <2>5. \A m \in Market : Announced(m) => Announced(m)'
        BY <1>7, <2>4, StillAnnounced DEF Save
    <2>6. \A m \in Market : market'[m] = market[m] \/ Announced(m)'
        BY <1>7, <2>3 DEF Save, Announced, CurrentInv, TypeOK, Listing
    <2> QED
        BY <1>3, <1>5, <1>7, <2>5, <2>6 DEF Save, CurrentInv, ListIsCurrent
<1>8. CASE Publish(c)
    <2> DEFINE e == [kind |-> IF calls[c].kind = "create" THEN "created" ELSE "updated",
                     market |-> calls[c].market]
    <2>1. e.market = calls[c].market /\ events' = events \cup {e}
        BY <1>8 DEF Publish
    <2> HIDE DEF e
    <2>2. ASSUME NEW m \in Market, Announced(m) PROVE Announced(m)'
        <3>1. CASE m = calls[c].market
            BY <2>1, <3>1 DEF Announced
        <3>2. CASE m # calls[c].market
            BY <1>2, <2>1, <2>2, <3>2 DEF Announced, AtStep, Busy
        <3> QED
            BY <3>1, <3>2
    <2> QED
        BY <1>3, <1>5, <1>8, <2>2 DEF Publish, CurrentInv, ListIsCurrent
<1> QED
    BY <1>4, <1>6, <1>7, <1>8

LEMMA CurrentAnswer ==
    ASSUME CurrentInv, TypeOK', NEW c \in Call,
           Succeed(c) \/ Created(c) \/ Fail(c) \/ LoseAnswer(c)
    PROVE  CurrentInv'
<1> USE DEF Fetching
<1>1. Busy(c) /\ calls[c] \in Calling
    BY CallShape DEF Succeed, Created, Fail, LoseAnswer, AtStep, CurrentInv
<1>2. /\ UNCHANGED <<market, made, events, shown>>
      /\ (fetch' \in {"fresh", "read"} /\ ~missed') => UNCHANGED <<fetch, got, missed>>
    BY DEF Succeed, Created, Fail, LoseAnswer, Invalidate, CurrentInv, TypeOK
<1>3. CASE Succeed(c) \/ Fail(c) \/ (Created(c) /\ page = "admin")
    <2>1. \A d \in Call \ {c} : calls'[d] = calls[d]
        BY <1>3 DEF Succeed, Fail, Created, CurrentInv, TypeOK
    <2>2. StillSaved /\ \A d \in Call : d > made' => calls'[d] = Idle
        BY <1>1, <1>2, <1>3, <2>1, OthersStay DEF Succeed, Fail, Created, AtStep
    <2> QED
        BY <1>2, <2>2, CurrentKept
<1>4. CASE Created(c) /\ page # "admin"
    <2> DEFINE cs == [calls EXCEPT ![c] = Idle]
    <2>1. calls' = Unmount(cs) /\ cs[c] = Idle
        BY <1>4 DEF Created, CurrentInv, TypeOK
    <2>2. cs \in [Call -> Calling \cup {Idle}] /\ \A d \in Call \ {c} : cs[d] = calls[d]
        BY DEF CurrentInv, TypeOK
    <2> HIDE DEF cs
    <2>3. \A d \in Call \ {c} :
              /\ calls[d] = Idle => calls'[d] = Idle
              /\ Busy(d) => /\ calls'[d].step = calls[d].step
                            /\ calls'[d].market = calls[d].market
        BY <2>1, <2>2, UnmountStays DEF CurrentInv
    <2>4. StillSaved
        BY <1>4, <2>3 DEF StillSaved, AtStep, Created
    <2>5. \A d \in Call : d > made' => calls'[d] = Idle
        BY <1>1, <1>2, <2>3 DEF CurrentInv, Busy
    <2> QED
        BY <1>2, <2>4, <2>5, CurrentKept
<1>5. CASE LoseAnswer(c)
    <2> DEFINE k == [calls[c] EXCEPT !.waits = FALSE, !.here = FALSE]
    <2>1. /\ \A d \in Call \ {c} : calls'[d] = calls[d]
          /\ Running(c) => calls'[c] = k
        BY <1>5 DEF LoseAnswer, CurrentInv, TypeOK
    <2>2. k.step = calls[c].step /\ k.market = calls[c].market
        BY <1>1 DEF Calling
    <2> HIDE DEF k
    <2>3. StillSaved
        BY <2>1, <2>2 DEF StillSaved, AtStep, Running
    <2>4. \A d \in Call : d > made' => calls'[d] = Idle
        BY <1>1, <1>2, <2>1 DEF CurrentInv, Busy
    <2> QED
        BY <1>2, <2>3, <2>4, CurrentKept
<1> QED
    BY <1>3, <1>4, <1>5

LEMMA CurrentNext == CurrentInv /\ TypeOK' /\ [Next]_vars => CurrentInv'
<1> USE DEF Fetching
<1>1. CurrentInv /\ UNCHANGED vars => CurrentInv'
    BY DEF vars, CurrentInv, TypeOK, ListIsCurrent, Announced, AtStep, Busy
<1>2. ASSUME CurrentInv, TypeOK', FetchFails \/ Refetch \/ DismissTimer \/ Load PROVE CurrentInv'
    <2>1. UNCHANGED <<market, made, calls, events>>
        BY <1>2 DEF FetchFails, Refetch, DismissTimer, Load, ReadList, ShowList
    <2>2. \A m \in Market : Announced(m) => Announced(m)'
        BY <2>1 DEF Announced, AtStep, Busy
    <2>3. CASE FetchFails \/ Refetch \/ DismissTimer
        BY <1>2, <2>1, <2>2, <2>3
        DEF FetchFails, Refetch, DismissTimer, CurrentInv, ListIsCurrent
    <2>4. CASE Load
        BY <1>2, <2>1, <2>2, <2>4 DEF Load, ReadList, ShowList, CurrentInv, ListIsCurrent
    <2> QED
        BY <1>2, <2>3, <2>4
<1>3. ASSUME CurrentInv, TypeOK', NEW e \in events, Arrive(e) \/ LoseEvent(e) PROVE CurrentInv'
    <2>1. UNCHANGED <<made, calls>> /\ ~(fetch' \in {"fresh", "read"} /\ ~missed')
        BY <1>3 DEF Arrive, LoseEvent, Invalidate, CurrentInv, TypeOK
    <2> QED
        BY <1>3, <2>1 DEF CurrentInv, ListIsCurrent
<1> QED
    BY <1>1, <1>2, <1>3, CurrentClicks, CurrentServe, CurrentAnswer DEF Next, Serve, Answer, Deliver

LEMMA CurrentInit == Init => CurrentInv
<1>1. ASSUME Init PROVE \A c \in Call : calls[c] = Idle
    BY <1>1 DEF Init
<1>2. Init => fetch = "none"
    BY DEF Init
<1> QED
    BY <1>1, <1>2, InitType DEF CurrentInv, ListIsCurrent

LEMMA CurrentHolds == Spec => []CurrentInv
    BY CurrentInit, PagesTypeCorrect, CurrentNext, PTL DEF Spec

\* A list that counts as fresh is behind only where a change is announced.
THEOREM ListStaysCurrent == Spec => []ListIsCurrent
<1>1. CurrentInv => ListIsCurrent
    BY DEF CurrentInv
<1> QED
    BY <1>1, CurrentHolds, PTL

-----------------------------------------------------------------------------
\* Only markets that exist are shown, and only such are bet on and updated.
Known ==
    /\ \A m \in Market : shown[m] # "ABSENT" \/ got[m] # "ABSENT" => market[m] # "ABSENT"
    /\ \A c \in Call : Busy(c) /\ calls[c].kind # "create" => market[calls[c].market] # "ABSENT"

Creating(c) == AtStep(c, "begin") /\ calls[c].kind = "create"

\* A market is created once, and by a save that meets no row.
Creators ==
    \A c \in Call : Creating(c) =>
        /\ market[calls[c].market] = "ABSENT"
        /\ \A d \in Call : Creating(d) /\ calls[d].market = calls[c].market => d = c

Savers == \A c \in Call : AtStep(c, "save") => calls[c].kind \in UpdateKind

\* As long as nothing has strayed one handler updates at a time, the mounted
\* page waits for it, and what it has checked holds until it saves.
OneUpdate ==
    ~strayed =>
        \A c \in Call : Updating(c) =>
            /\ Attended(c)
            /\ AtStep(c, "save") => market[calls[c].market] # "SETTLED"
            /\ \A d \in Call : Updating(d) => d = c

SettleInv == CurrentInv /\ Known /\ Creators /\ Savers /\ OneUpdate

\* What a step that neither begins a call nor saves may do to one.
Goes(c) ==
    /\ Busy(c)
    /\ calls'[c].kind = calls[c].kind /\ calls'[c].market = calls[c].market
    /\ \/ calls'[c].step = calls[c].step
       \/ calls'[c].step \in {"ok", "failed"}
       \/ /\ calls[c].step = "begin" /\ calls'[c].step = "save"
          /\ calls[c].kind \in UpdateKind /\ market[calls[c].market] # "SETTLED"
    /\ Updating(c) /\ ~strayed' => calls'[c].waits = calls[c].waits /\ calls'[c].here = calls[c].here

LEMMA SettleKept ==
    ASSUME SettleInv, TypeOK', CurrentInv', market' = market, strayed => strayed',
           \A c \in Call : Busy(c)' => Goes(c),
           \A m \in Market : shown'[m] \in {shown[m], got[m]}
                             /\ got'[m] \in {got[m], market[m], "ABSENT"}
    PROVE  SettleInv'
<1>1. Known'
    BY DEF SettleInv, Known, Goes
<1>2. \A c \in Call : Creating(c)' => Creating(c) /\ calls'[c].market = calls[c].market
    BY DEF Creating, AtStep, Goes, Busy
<1>3. Creators'
    BY <1>2 DEF SettleInv, Creators
<1>4. Savers'
    BY DEF SettleInv, Savers, AtStep, Goes
<1>5. \A c \in Call : Updating(c)' => Updating(c)
    BY DEF Updating, Running, Goes, Busy, Idle
<1>6. OneUpdate'
    <2>1. SUFFICES ASSUME ~strayed', NEW c \in Call, Updating(c)'
                   PROVE  /\ Attended(c)'
                          /\ AtStep(c, "save")' => market'[calls'[c].market] # "SETTLED"
                          /\ \A d \in Call : Updating(d)' => d = c
        BY DEF OneUpdate
    <2>2. ~strayed /\ Updating(c) /\ Busy(c)' /\ Goes(c)
        BY <1>5, <2>1 DEF Updating, Running
    <2>3. Attended(c)'
        BY <2>1, <2>2 DEF SettleInv, OneUpdate, Attended, Goes
    <2>4. AtStep(c, "save")' => market'[calls'[c].market] # "SETTLED"
        BY <2>1, <2>2 DEF SettleInv, OneUpdate, AtStep, Goes
    <2>5. \A d \in Call : Updating(d)' => d = c
        BY <1>5, <2>2 DEF SettleInv, OneUpdate
    <2> QED
        BY <2>3, <2>4, <2>5
<1> QED
    BY <1>1, <1>3, <1>4, <1>6 DEF SettleInv

LEMMA SettleSave ==
    ASSUME SettleInv, TypeOK', CurrentInv', NEW c \in Call, Save(c)
    PROVE  SettleInv'
<1> DEFINE k == [calls[c] EXCEPT !.step = "publish"]
           m == calls[c].market
<1>1. /\ Busy(c) /\ calls[c] \in Calling /\ m \in Market
      /\ calls[c].kind \in AdminKind
      /\ \A d \in Call : Busy(d) => calls[d].market \in Market
    BY CallShape DEF Save, AtStep, SettleInv, CurrentInv, Savers, Calling
<1>2. /\ calls'[c] = k
      /\ \A d \in Call \ {c} : calls'[d] = calls[d]
      /\ market'[m] \in MarketStatus
      /\ \A n \in Market \ {m} : market'[n] = market[n]
      /\ UNCHANGED <<got, shown, strayed>>
    BY <1>1 DEF Save, Proceed, Target, SettleInv, CurrentInv, TypeOK, Listing
<1>3. k.step = "publish" /\ k.kind = calls[c].kind /\ k.market = m
    BY <1>1 DEF Calling
<1>4. Updating(c) \/ Creating(c)
    BY <1>1 DEF Save, AtStep, Updating, Running, Creating, SettleInv, Savers
<1>5. Creating(c) => market'[m] = "OPEN"
    BY <1>1 DEF Creating, Save, Target, SettleInv, CurrentInv, TypeOK, Listing
<1> HIDE DEF k, m
<1>6. Known'
    BY <1>1, <1>2, <1>3 DEF SettleInv, Known, Busy, m
<1>7. ASSUME NEW d \in Call, Creating(d)'
      PROVE  d # c /\ Creating(d) /\ calls'[d] = calls[d] /\ calls[d].market # m
    <2>1. d # c
        BY <1>2, <1>3, <1>7 DEF Creating, AtStep
    <2>2. Creating(d) /\ calls'[d] = calls[d]
        BY <1>2, <1>7, <2>1 DEF Creating, AtStep, Busy
    <2>3. CASE Creating(c)
        BY <2>1, <2>2, <2>3 DEF SettleInv, Creators, m
    <2>4. CASE Updating(c)
        <3>1. market[m] # "ABSENT"
            BY <1>1, <2>4 DEF SettleInv, Known, Updating, m
        <3>2. market[calls[d].market] = "ABSENT"
            BY <2>2 DEF SettleInv, Creators
        <3> QED
            BY <2>1, <2>2, <3>1, <3>2
    <2> QED
        BY <1>4, <2>1, <2>2, <2>3, <2>4
<1>8. Creators'
    <2>1. SUFFICES ASSUME NEW d \in Call, Creating(d)'
                   PROVE  /\ market'[calls'[d].market] = "ABSENT"
                          /\ \A e \in Call :
                               Creating(e)' /\ calls'[e].market = calls'[d].market => e = d
        BY DEF Creators
    <2>2. Creating(d) /\ calls'[d] = calls[d] /\ calls[d].market # m /\ calls[d].market \in Market
        BY <1>1, <1>7, <2>1 DEF Creating, AtStep
    <2>3. market'[calls'[d].market] = "ABSENT"
        BY <1>2, <2>2 DEF SettleInv, Creators
    <2>4. ASSUME NEW e \in Call, Creating(e)', calls'[e].market = calls'[d].market PROVE e = d
        BY <1>7, <2>2, <2>4 DEF SettleInv, Creators
    <2> QED
        BY <2>3, <2>4
<1>9. Savers'
    BY <1>2, <1>3 DEF SettleInv, Savers, AtStep, Busy
<1>10. OneUpdate'
    <2>1. SUFFICES ASSUME ~strayed', NEW d \in Call, Updating(d)'
                   PROVE  /\ Attended(d)'
                          /\ AtStep(d, "save")' => market'[calls'[d].market] # "SETTLED"
                          /\ \A e \in Call : Updating(e)' => e = d
        BY DEF OneUpdate
    <2>2. \A e \in Call : Updating(e)' => Updating(e)
        <3>1. ASSUME NEW e \in Call, Updating(e)', e # c PROVE Updating(e)
            BY <1>2, <3>1 DEF Updating, Running, Busy
        <3>2. Updating(c)' => Updating(c)
            BY <1>1, <1>2, <1>3, <1>4 DEF Updating, Running, Creating, AtStep
        <3> QED
            BY <3>1, <3>2
    <2>3. /\ ~strayed /\ Updating(d)
          /\ \A e \in Call : Updating(e)' => e = d
        BY <1>2, <2>1, <2>2 DEF SettleInv, OneUpdate
    <2>4. Attended(d)'
        <3>1. Attended(d)
            BY <2>3 DEF SettleInv, OneUpdate
        <3>2. k.waits = calls[c].waits /\ k.here = calls[c].here
            BY <1>1 DEF Calling, k
        <3> QED
            BY <1>2, <2>1, <3>1, <3>2 DEF Attended, Updating, Running
    <2>5. AtStep(d, "save")' => market'[calls'[d].market] # "SETTLED"
        <3>1. SUFFICES ASSUME AtStep(d, "save")' PROVE market'[calls'[d].market] # "SETTLED"
            OBVIOUS
        <3>2. d # c /\ calls'[d] = calls[d]
            BY <1>2, <1>3, <3>1 DEF AtStep
        <3>3. Creating(c) /\ calls[d].market \in Market /\ market[calls[d].market] # "SETTLED"
            BY <1>1, <1>4, <2>3, <3>1, <3>2
            DEF SettleInv, OneUpdate, AtStep, Busy, Updating, Running
        <3> QED
            BY <1>2, <1>5, <3>2, <3>3
    <2> QED
        BY <2>3, <2>4, <2>5
<1> QED
    BY <1>6, <1>8, <1>9, <1>10 DEF SettleInv

LEMMA SettleBegin ==
    ASSUME SettleInv, CurrentInv', NEW kind \in AdminKind \cup {"bet"}, NEW m \in Market,
           NEW mine \in BOOLEAN, Begin(kind, m, mine), strayed => strayed',
           IF kind = "create" THEN Creatable(m) ELSE market[m] # "ABSENT",
           kind \in UpdateKind /\ ~strayed' => mine /\ ~Disabled
    PROVE  SettleInv'
<1> DEFINE k == [step |-> "begin", kind |-> kind, market |-> m, waits |-> mine, here |-> mine]
<1>0. made + 1 \in Call /\ made + 1 > made
    BY PagesAssumption DEF Begin, SettleInv, CurrentInv, TypeOK, Call
<1> PICK n \in Call : n = made + 1
    BY <1>0
<1>1. calls[n] = Idle
    BY <1>0 DEF SettleInv, CurrentInv
<1>2. /\ calls'[n] = k
      /\ \A d \in Call \ {n} : calls'[d] = calls[d]
      /\ UNCHANGED <<market, got, shown>>
    BY <1>1 DEF Begin, SettleInv, CurrentInv, TypeOK
<1>3. k.step = "begin" /\ k.kind = kind /\ k.market = m /\ k.waits = mine /\ k.here = mine
    OBVIOUS
<1> HIDE DEF k
<1>4. k # Idle
    BY <1>3 DEF Idle
<1>5. Known'
    BY <1>1, <1>2, <1>3 DEF SettleInv, Known, Busy
<1>6. Creators'
    <2>1. \A d \in Call \ {n} : Creating(d)' => Creating(d) /\ calls'[d] = calls[d]
        BY <1>2 DEF Creating, AtStep, Busy
    <2>2. CASE Creating(n)'
        <3>1. kind = "create" /\ Creatable(m)
            BY <1>2, <1>3, <2>2 DEF Creating
        <3>2. \A d \in Call \ {n} : Creating(d)' => calls'[d].market # m
            BY <2>1, <3>1 DEF Creatable, Creating, AtStep
        <3> QED
            BY <1>2, <1>3, <2>1, <3>1, <3>2 DEF SettleInv, Creators, Creatable
    <2>3. CASE ~Creating(n)'
        BY <1>2, <2>1, <2>3 DEF SettleInv, Creators
    <2> QED
        BY <2>2, <2>3
<1>7. Savers'
    BY <1>2, <1>3 DEF SettleInv, Savers, AtStep, Busy
<1>8. OneUpdate'
    <2>1. \A d \in Call \ {n} : /\ Updating(d)' = Updating(d)
                               /\ Attended(d)' = Attended(d)
                               /\ AtStep(d, "save")' = AtStep(d, "save")
        BY <1>2 DEF Updating, Running, Attended, AtStep, Busy
    <2>2. Attended(n)' = mine /\ ~AtStep(n, "save")' /\ (Updating(n)' => kind \in UpdateKind)
        BY <1>2, <1>3, <1>4 DEF Updating, Running, Attended, AtStep, Busy
    <2>3. CASE ~(kind \in UpdateKind)
        BY <1>2, <2>1, <2>2, <2>3 DEF SettleInv, OneUpdate
    <2>4. CASE kind \in UpdateKind
        <3>1. ASSUME ~strayed' PROVE mine /\ \A d \in Call : ~Updating(d)
            BY <2>4, <3>1 DEF SettleInv, OneUpdate, Disabled, Pending, Updating
        <3> QED
            BY <2>1, <2>2, <3>1 DEF OneUpdate
    <2> QED
        BY <2>3, <2>4
<1> QED
    BY <1>5, <1>6, <1>7, <1>8 DEF SettleInv

LEMMA SettleClicks == SettleInv /\ TypeOK' /\ CurrentInv' /\ Clicks => SettleInv'
<1>1. ASSUME SettleInv, TypeOK', CurrentInv', NEW p \in Page, Navigate(p) PROVE SettleInv'
    <2>1. \A c \in Call : calls[c] = Idle => calls'[c] = Idle
        BY <1>1, UnmountStays DEF Navigate, SettleInv, CurrentInv, TypeOK
    <2>2. \A c \in Call : Busy(c) => /\ calls'[c].step = calls[c].step
                                    /\ calls'[c].market = calls[c].market
                                    /\ calls'[c].kind = calls[c].kind
        BY <1>1, UnmountStays DEF Navigate, SettleInv, CurrentInv, TypeOK
    <2>3. \A c \in Call : ~strayed' => ~Updating(c)
        BY <1>1 DEF Navigate
    <2>4. \A c \in Call : Busy(c)' => Goes(c)
        BY <2>1, <2>2, <2>3 DEF Goes, Busy
    <2> QED
        BY <1>1, <2>4, SettleKept DEF Navigate
<1>2. ASSUME SettleInv, TypeOK', CurrentInv', NEW m, RefuseInput \/ AskResult(m) PROVE SettleInv'
    <2>1. \A c \in Call : Busy(c)' => Goes(c)
        BY <1>2 DEF Goes, Busy, RefuseInput, AskResult
    <2> QED
        BY <1>2, <2>1, SettleKept DEF RefuseInput, AskResult
<1>3. ASSUME SettleInv, TypeOK', CurrentInv', NEW m \in Market, PlaceBet(m) \/ Create(m)
      PROVE  SettleInv'
    <2>1. CASE PlaceBet(m)
        BY <1>3, <2>1, SettleBegin DEF PlaceBet
    <2>2. CASE Create(m)
        BY <1>3, <2>2, SettleBegin DEF Create
    <2> QED
        BY <1>3, <2>1, <2>2
<1>4. ASSUME SettleInv, TypeOK', CurrentInv', NEW m \in Market, NEW kind \in UpdateKind,
             Settle(m) \/ ChangeStatus(kind, m)
      PROVE  SettleInv'
    <2>1. shown[m] # "ABSENT" /\ ~Disabled /\ strayed' = strayed
        BY <1>4 DEF Settle, ChangeStatus, Offered
    <2>2. market[m] # "ABSENT"
        BY <1>4, <2>1 DEF SettleInv, Known
    <2> QED
        BY <1>4, <2>1, <2>2, SettleBegin DEF Settle, ChangeStatus
<1>5. ASSUME SettleInv, TypeOK', CurrentInv', NEW m \in Market, NEW kind \in AdminKind,
             OtherAdmin(kind, m)
      PROVE  SettleInv'
    BY <1>5, SettleBegin DEF OtherAdmin
<1> QED
    BY <1>1, <1>2, <1>3, <1>4, <1>5 DEF Clicks

LEMMA SettleServe ==
    ASSUME SettleInv, TypeOK', CurrentInv', NEW c \in Call,
           CheckStatus(c) \/ TakeBet(c) \/ Publish(c) \/ ServerError(c)
    PROVE  SettleInv'
<1> DEFINE k(s) == [calls[c] EXCEPT !.step = s]
<1>1. Busy(c) /\ calls[c] \in Calling
    BY CallShape DEF CheckStatus, TakeBet, Publish, ServerError, AtStep, Running, SettleInv, CurrentInv
<1>2. \A s : /\ k(s).step = s /\ k(s).kind = calls[c].kind /\ k(s).market = calls[c].market
            /\ k(s).waits = calls[c].waits /\ k(s).here = calls[c].here
    BY <1>1 DEF Calling
<1>3. /\ \A d \in Call \ {c} : calls'[d] = calls[d]
      /\ \/ calls'[c] \in {Idle, k("ok"), k("failed")}
         \/ /\ CheckStatus(c) /\ market[calls[c].market] # "SETTLED"
            /\ calls'[c] = k("save")
    BY DEF CheckStatus, TakeBet, Publish, ServerError, Proceed, Respond, SettleInv, CurrentInv, TypeOK
<1>4. UNCHANGED <<market, shown, got, strayed>>
    BY DEF CheckStatus, TakeBet, Publish, ServerError
<1> HIDE DEF k
<1>5. Busy(c)' => Goes(c)
    BY <1>1, <1>2, <1>3 DEF Goes, CheckStatus, AtStep, Busy
<1>6. \A d \in Call \ {c} : Busy(d)' => Goes(d)
    BY <1>3 DEF Goes, Busy
<1> QED
    BY <1>4, <1>5, <1>6, SettleKept

LEMMA SettleAnswer ==
    ASSUME SettleInv, TypeOK', CurrentInv', NEW c \in Call,
           Succeed(c) \/ Created(c) \/ Fail(c) \/ LoseAnswer(c)
    PROVE  SettleInv'
<1>1. Busy(c) /\ calls[c] \in Calling
    BY CallShape DEF Succeed, Created, Fail, LoseAnswer, AtStep, SettleInv, CurrentInv
<1>2. /\ UNCHANGED <<market, shown>> /\ (strayed => strayed')
      /\ \A m \in Market : got'[m] \in {got[m], "ABSENT"}
    <2>1. UNCHANGED <<market, shown>>
        BY DEF Succeed, Created, Fail, LoseAnswer
    <2>2. got' \in {got, Empty}
        BY DEF Succeed, Created, Fail, LoseAnswer, Invalidate
    <2>3. \/ strayed' = strayed
          \/ strayed' = (strayed \/ \E d \in Call : Updating(d))
          \/ strayed' = (strayed \/ Updating(c))
        BY DEF Succeed, Created, Fail, LoseAnswer
    <2>4. strayed => strayed'
        BY <2>3 DEF SettleInv, CurrentInv, TypeOK
    <2> QED
        BY <2>1, <2>2, <2>4 DEF Empty
<1>3. CASE Succeed(c) \/ Fail(c) \/ (Created(c) /\ page = "admin")
    <2>1. \A d \in Call \ {c} : calls'[d] = calls[d]
        BY <1>3 DEF Succeed, Fail, Created, SettleInv, CurrentInv, TypeOK
    <2>2. calls'[c] = Idle
        BY <1>3 DEF Succeed, Fail, Created, SettleInv, CurrentInv, TypeOK
    <2>3. \A d \in Call : Busy(d)' => Goes(d)
        BY <2>1, <2>2 DEF Goes, Busy
    <2> QED
        BY <1>2, <2>3, SettleKept
<1>4. CASE Created(c) /\ page # "admin"
    <2> DEFINE cs == [calls EXCEPT ![c] = Idle]
    <2>1. calls' = Unmount(cs) /\ cs[c] = Idle
        BY <1>4 DEF Created, SettleInv, CurrentInv, TypeOK
    <2>2. cs \in [Call -> Calling \cup {Idle}] /\ \A d \in Call \ {c} : cs[d] = calls[d]
        BY DEF SettleInv, CurrentInv, TypeOK
    <2> HIDE DEF cs
    <2>3. \A d \in Call \ {c} : calls[d] = Idle => calls'[d] = Idle
        BY <2>1, <2>2, UnmountStays DEF SettleInv, CurrentInv
    <2>4. \A d \in Call \ {c} : Busy(d) => /\ calls'[d].step = calls[d].step
                                           /\ calls'[d].market = calls[d].market
                                           /\ calls'[d].kind = calls[d].kind
        BY <2>1, <2>2, UnmountStays DEF SettleInv, CurrentInv
    <2>5. calls'[c] = Idle
        BY <2>1 DEF Unmount
    <2>6. \A d \in Call : ~strayed' => ~Updating(d)
        BY <1>4 DEF Created
    <2>7. \A d \in Call : Busy(d)' => Goes(d)
        BY <2>3, <2>4, <2>5, <2>6 DEF Goes, Busy
    <2> QED
        BY <1>2, <2>7, SettleKept
<1>5. CASE LoseAnswer(c)
    <2> DEFINE k == [calls[c] EXCEPT !.waits = FALSE, !.here = FALSE]
    <2>1. /\ \A d \in Call \ {c} : calls'[d] = calls[d]
          /\ calls'[c] \in {k, Idle}
          /\ ~strayed' => ~Updating(c)
        BY <1>5 DEF LoseAnswer, SettleInv, CurrentInv, TypeOK
    <2>2. k.step = calls[c].step /\ k.market = calls[c].market /\ k.kind = calls[c].kind
        BY <1>1 DEF Calling
    <2> HIDE DEF k
    <2>3. \A d \in Call : Busy(d)' => Goes(d)
        BY <1>1, <2>1, <2>2 DEF Goes, Busy
    <2> QED
        BY <1>2, <2>3, SettleKept
<1> QED
    BY <1>3, <1>4, <1>5

LEMMA SettleNext == SettleInv /\ TypeOK' /\ CurrentInv' /\ [Next]_vars => SettleInv'
<1>1. ASSUME SettleInv, TypeOK', CurrentInv', UNCHANGED <<market, calls, strayed>>,
             \A m \in Market : /\ shown'[m] \in {shown[m], got[m]}
                              /\ got'[m] \in {got[m], market[m], "ABSENT"}
      PROVE  SettleInv'
    <2>1. \A c \in Call : Busy(c)' => Goes(c)
        BY <1>1 DEF Goes, Busy
    <2> QED
        BY <1>1, <2>1, SettleKept
<1>2. SettleInv /\ TypeOK' /\ CurrentInv' /\ UNCHANGED vars => SettleInv'
    BY <1>1 DEF vars
<1>3. SettleInv /\ TypeOK' /\ CurrentInv' /\ (FetchFails \/ Refetch \/ DismissTimer \/ Load)
        => SettleInv'
    BY <1>1 DEF FetchFails, Refetch, DismissTimer, Load, ReadList, ShowList, Empty
<1>4. ASSUME SettleInv, TypeOK', CurrentInv', NEW e \in events, Arrive(e) \/ LoseEvent(e)
      PROVE  SettleInv'
    BY <1>1, <1>4 DEF Arrive, LoseEvent, Invalidate, Empty
<1> QED
    BY <1>2, <1>3, <1>4, SettleClicks, SettleServe, SettleSave, SettleAnswer
    DEF Next, Serve, Answer, Deliver

LEMMA SettleInit == Init => SettleInv
<1>1. ASSUME Init PROVE \A c \in Call : ~Busy(c)
    BY <1>1 DEF Init, Busy
<1>2. Init => \A m \in Market : shown[m] = "ABSENT" /\ got[m] = "ABSENT"
    BY DEF Init, Empty
<1> QED
    BY <1>1, <1>2, CurrentInit
    DEF SettleInv, Known, Creators, Creating, Savers, OneUpdate, Updating, Running, AtStep

LEMMA SettleStep == SettleInv /\ [Next]_vars =>
    \A m \in Market : market[m] = "SETTLED" /\ ~strayed => market'[m] = "SETTLED"
<1>1. ASSUME SettleInv, NEW c \in Call, Save(c), NEW m \in Market, market[m] = "SETTLED", ~strayed
      PROVE  market'[m] = "SETTLED"
    <2>1. Busy(c) /\ calls[c] \in Calling
        BY <1>1, CallShape DEF Save, AtStep, SettleInv, CurrentInv
    <2>2. ~Creating(c) \/ calls[c].market # m
        BY <1>1 DEF SettleInv, Creators
    <2>3. AtStep(c, "save") => Updating(c) /\ calls[c].market # m
        BY <1>1, <2>1 DEF SettleInv, Savers, OneUpdate, Updating, Running, AtStep
    <2>4. calls[c].market # m
        BY <1>1, <2>2, <2>3 DEF Save, Creating
    <2> QED
        BY <1>1, <2>4 DEF Save, SettleInv, CurrentInv, TypeOK, Listing
<1>2. [Next]_vars => market' = market \/ \E c \in Call : Save(c)
    <2>1. Clicks => market' = market
        BY DEF Clicks, Navigate, RefuseInput, AskResult, PlaceBet, Settle, Create, ChangeStatus,
               OtherAdmin, Begin
    <2>2. Answer \/ Deliver \/ Load => market' = market
        BY DEF Answer, Deliver, Load, Succeed, Created, Fail, Arrive, ReadList, ShowList
    <2>3. Serve => market' = market \/ \E c \in Call : Save(c)
        BY DEF Serve, CheckStatus, TakeBet, Publish
    <2> QED
        BY <2>1, <2>2, <2>3
        DEF Next, vars, ServerError, LoseAnswer, LoseEvent, FetchFails, Refetch, DismissTimer
<1> QED
    BY <1>1, <1>2

\* While one administrator uses one tab and loses no answer, nothing undoes a
\* settlement.
THEOREM SettlementStays == Spec => SettledStaysSettled
<1>1. SettleInv /\ [Next]_vars =>
        [\A m \in Market : (market[m] = "SETTLED" /\ ~strayed) => market'[m] = "SETTLED"]_vars
    BY SettleStep
<1> QED
    BY <1>1, PagesTypeCorrect, CurrentHolds, SettleInit, SettleNext, PTL
    DEF Spec, SettledStaysSettled

-----------------------------------------------------------------------------
\* c is a bet that the mounted page waits for, about the market whose button
\* it has disabled.
BetFor(c) == Attended(c) /\ calls[c].kind = "bet" /\ calls[c].market = placing

DisabledForACall == placing # NoMarket => \E c \in Call : BetFor(c)

LEMMA ButtonKept ==
    ASSUME DisabledForACall, placing' \in {placing, NoMarket},
           \A c \in Call : BetFor(c) /\ placing' = placing /\ placing # NoMarket =>
               BetFor(c)'
    PROVE  DisabledForACall'
    BY DEF DisabledForACall

\* A new call takes a slot of its own.
LEMMA BeginAdds ==
    ASSUME CurrentInv, NEW kind \in AdminKind \cup {"bet"}, NEW m \in Market, NEW mine \in BOOLEAN,
           Begin(kind, m, mine)
    PROVE  \E n \in Call :
               /\ calls[n] = Idle
               /\ \A c \in Call \ {n} : calls'[c] = calls[c]
               /\ calls'[n] = [step |-> "begin", kind |-> kind, market |-> m,
                               waits |-> mine, here |-> mine]
<1>1. made + 1 \in Call /\ made + 1 > made
    BY PagesAssumption DEF Begin, CurrentInv, TypeOK, Call
<1>2. PICK n \in Call : n = made + 1
    BY <1>1
<1>3. calls[n] = Idle
    BY <1>1, <1>2 DEF CurrentInv
<1> QED
    BY <1>2, <1>3 DEF Begin, CurrentInv, TypeOK

LEMMA ButtonClicks == ASSUME CurrentInv, DisabledForACall, Clicks PROVE DisabledForACall'
<1>1. ASSUME NEW p \in Page, Navigate(p) PROVE DisabledForACall'
    BY <1>1 DEF Navigate, Forget, DisabledForACall
<1>2. ASSUME UNCHANGED <<calls, placing>> PROVE DisabledForACall'
    BY <1>2, ButtonKept DEF BetFor, Attended, Busy
<1>3. ASSUME NEW kind \in AdminKind, NEW m \in Market, NEW mine \in BOOLEAN,
             Begin(kind, m, mine), UNCHANGED placing
      PROVE  DisabledForACall'
    <2>1. PICK n \in Call : calls[n] = Idle /\ \A c \in Call \ {n} : calls'[c] = calls[c]
        BY <1>3, BeginAdds
    <2>2. \A c \in Call : BetFor(c) => BetFor(c)'
        BY <1>3, <2>1 DEF BetFor, Attended, Busy
    <2> QED
        BY <1>3, <2>2, ButtonKept
<1>4. ASSUME NEW m \in Market, PlaceBet(m) PROVE DisabledForACall'
    <2> DEFINE k == [step |-> "begin", kind |-> "bet", market |-> m,
                     waits |-> TRUE, here |-> TRUE]
    <2>1. PICK n \in Call : calls'[n] = k
        BY <1>4, BeginAdds DEF PlaceBet
    <2>2. k # Idle /\ k.kind = "bet" /\ k.market = m /\ k.waits /\ k.here
        <3>1. k.step # "idle"
            OBVIOUS
        <3> QED
            BY <3>1 DEF Idle
    <2> HIDE DEF k
    <2>3. placing' = m
        BY <1>4 DEF PlaceBet
    <2> QED
        BY <2>1, <2>2, <2>3 DEF DisabledForACall, BetFor, Attended, Busy
<1> QED
    BY <1>1, <1>2, <1>3, <1>4
    DEF Clicks, RefuseInput, AskResult, Settle, Create, ChangeStatus, OtherAdmin

\* A handler keeps who waits for it, as long as somebody does.
LEMMA ButtonServe ==
    ASSUME CurrentInv, DisabledForACall, NEW c \in Call,
           CheckStatus(c) \/ TakeBet(c) \/ Save(c) \/ Publish(c) \/ ServerError(c)
    PROVE  DisabledForACall'
<1> DEFINE k(s) == [calls[c] EXCEPT !.step = s]
<1> DEFINE steps == {"save", "publish", "ok", "failed"}
<1>1. Busy(c) /\ calls[c] \in Calling
    BY CallShape DEF CheckStatus, TakeBet, Save, Publish, ServerError, AtStep, Running, CurrentInv
<1>2. \A s \in steps :
          /\ k(s) # Idle /\ k(s).kind = calls[c].kind /\ k(s).market = calls[c].market
          /\ k(s).waits = calls[c].waits /\ k(s).here = calls[c].here
    <2>1. \A s \in steps :
              /\ k(s).step = s /\ k(s).kind = calls[c].kind /\ k(s).market = calls[c].market
              /\ k(s).waits = calls[c].waits /\ k(s).here = calls[c].here
        BY <1>1 DEF Calling
    <2> QED
        BY <2>1 DEF Idle
<1>3. /\ \A d \in Call \ {c} : calls'[d] = calls[d]
      /\ \/ calls'[c] \in {k(s) : s \in steps}
         \/ ~calls[c].waits
      /\ UNCHANGED placing
    BY DEF CheckStatus, TakeBet, Save, Publish, ServerError, Proceed, Respond, CurrentInv, TypeOK
<1> HIDE DEF k, steps
<1>4. \A d \in Call : BetFor(d) => BetFor(d)'
    BY <1>2, <1>3 DEF BetFor, Attended, Busy
<1> QED
    BY <1>3, <1>4, ButtonKept

\* The answer of a bet that the page waits for enables the button again.
LEMMA ButtonAnswer ==
    ASSUME CurrentInv, DisabledForACall, NEW c \in Call,
           Succeed(c) \/ Created(c) \/ Fail(c) \/ LoseAnswer(c)
    PROVE  DisabledForACall'
<1>1. CASE Created(c) /\ page # "admin"
    BY <1>1 DEF Created, Forget, DisabledForACall
<1>2. CASE Created(c) /\ page = "admin"
    <2>1. /\ UNCHANGED placing /\ calls[c].kind = "create"
          /\ \A d \in Call \ {c} : calls'[d] = calls[d]
        BY <1>2 DEF Created, CurrentInv, TypeOK
    <2>2. \A d \in Call : BetFor(d) => BetFor(d)'
        BY <2>1 DEF BetFor, Attended, Busy
    <2> QED
        BY <2>1, <2>2, ButtonKept
<1>3. CASE Succeed(c) \/ Fail(c) \/ LoseAnswer(c)
    <2>1. /\ Release(c)
          /\ \A d \in Call \ {c} : calls'[d] = calls[d]
        BY <1>3 DEF Succeed, Fail, LoseAnswer, CurrentInv, TypeOK
    <2>2. \A d \in Call : BetFor(d) /\ placing' = placing /\ placing # NoMarket => BetFor(d)'
        BY <2>1 DEF BetFor, Attended, Busy, Release
    <2> QED
        BY <2>1, <2>2, ButtonKept DEF Release
<1> QED
    BY <1>1, <1>2, <1>3

LEMMA ButtonNext == CurrentInv /\ DisabledForACall /\ [Next]_vars => DisabledForACall'
<1> SUFFICES ASSUME CurrentInv, DisabledForACall, [Next]_vars
             PROVE  DisabledForACall'
    OBVIOUS
<1>1. ASSUME UNCHANGED <<calls, placing>> PROVE DisabledForACall'
    BY <1>1, ButtonKept DEF BetFor, Attended, Busy
<1>2. CASE UNCHANGED vars
    BY <1>1, <1>2 DEF vars
<1>3. CASE Load \/ FetchFails \/ Refetch \/ DismissTimer
    BY <1>1, <1>3 DEF Load, ReadList, ShowList, FetchFails, Refetch, DismissTimer
<1>4. CASE \E e \in events : Arrive(e) \/ LoseEvent(e)
    BY <1>1, <1>4 DEF Arrive, LoseEvent
<1> QED
    BY <1>2, <1>3, <1>4, ButtonClicks, ButtonServe, ButtonAnswer DEF Next, Serve, Answer, Deliver

\* A button of the markets page is disabled only while a bet is under way that
\* the page waits for and that is about the button's market: the end of that
\* call, however it comes, enables it.  The one slot that all bets of the page
\* share never outlives the bet it stands for, whichever answer comes first
\* and whichever page is opened meanwhile.  This is what ButtonsComeBack rests
\* on besides the fairness of the handlers and their answers.
THEOREM ButtonsWaitForCalls == Spec => []DisabledForACall
<1>1. Init => DisabledForACall
    BY DEF Init, DisabledForACall
<1> QED
    BY <1>1, ButtonNext, CurrentHolds, PTL DEF Spec
=============================================================================
