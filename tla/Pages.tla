------------------------------- MODULE Pages -------------------------------
(***************************************************************************)
(* The pages on which markets are bet on and administered, in one tab: the *)
(* buttons and what disables them, the calls they make, the handlers of    *)
(* MarketService that serve them, the list of markets in the query cache   *)
(* with the events that keep it up to date, and the toasts.  placeBet is   *)
(* one step here (BetFlow), and so is the way of an event from the broker  *)
(* to the tab (Realtime).                                                  *)
(***************************************************************************)
EXTENDS Naturals, FiniteSets

CONSTANTS
    Market,
    NoMarket,
    MaxCalls,       \* bound on the calls, of this tab and of other administrators
    MaxToasts,      \* bound on the toasts in the list
    Faults          \* which of "answer", "error" and "socket" may happen

ASSUME PagesAssumption ==
    /\ NoMarket \notin Market
    /\ MaxCalls \in Nat
    /\ MaxToasts \in Nat \ {0}

VARIABLES
    market,     \* market[m]: status of m's row
    calls,      \* calls[c]: the c-th call and the handler that serves it
    made,       \* calls so far
    events,     \* MARKET_CREATED and MARKET_UPDATED on their way to the tab
    page,       \* the page that is mounted
    placing,    \* markets page: the market whose button is disabled
    confirm,    \* admin page: the market whose result is asked for
    fetch,      \* how far the query for the admin page's list has come
    got,        \* what it has read
    loaded,     \* there is a list in the cache
    shown,      \* the list in the cache
    missed,     \* a change since the last read has not led to another one
    strayed,    \* two handlers of MarketService may have overlapped
    toasts      \* toasts in the list

server == <<market, made>>
local == <<page, placing, confirm>>
list == <<fetch, got, loaded, shown, missed>>
vars == <<server, calls, events, local, list, strayed, toasts>>

MarketStatus == {"OPEN", "SUSPENDED", "SETTLED"}
Listing == [Market -> MarketStatus \cup {"ABSENT"}]
Empty == [m \in Market |-> "ABSENT"]

Page == {"markets", "admin", "new"}
UpdateKind == {"suspend", "reopen", "settle"}
AdminKind == UpdateKind \cup {"create"}

\* What a handler leaves in the row.
Target(kind) ==
    CASE kind = "suspend" -> "SUSPENDED"
      [] kind = "settle"  -> "SETTLED"
      [] OTHER            -> "OPEN"

\* A handler's next step; its answer is "ok" or "failed".  The tab "waits" for
\* it, and the page that asked may still be "here".
Call == 1 .. MaxCalls
Idle == [step |-> "idle"]
Calling == [step : {"begin", "save", "publish", "ok", "failed"},
            kind : AdminKind \cup {"bet"}, market : Market,
            waits : BOOLEAN, here : BOOLEAN]
Event == [kind : {"created", "updated"}, market : Market]

TypeOK ==
    /\ market \in Listing
    /\ calls \in [Call -> Calling \cup {Idle}]
    /\ made \in Nat
    /\ events \subseteq Event
    /\ page \in Page
    /\ placing \in Market \cup {NoMarket}
    /\ confirm \in Market \cup {NoMarket}
    /\ placing # NoMarket => page = "markets"
    /\ confirm # NoMarket => page = "admin"
    /\ fetch \in {"none", "sent", "read", "fresh", "stale", "failed"}
    /\ got \in Listing /\ shown \in Listing
    /\ loaded \in BOOLEAN /\ missed \in BOOLEAN /\ strayed \in BOOLEAN
    /\ toasts \in Nat

Init ==
    /\ market \in Listing
    /\ calls = [c \in Call |-> Idle]
    /\ made = 0
    /\ events = {}
    /\ page \in Page \ {"admin"}
    /\ placing = NoMarket /\ confirm = NoMarket
    /\ fetch = "none" /\ got = Empty
    /\ loaded = FALSE /\ shown = Empty /\ missed = FALSE
    /\ strayed = FALSE
    /\ toasts = 0

-----------------------------------------------------------------------------
(* Toasts.                                                                 *)

\* toast.success, error and info.
AddToast == toasts < MaxToasts /\ toasts' = toasts + 1

\* Mutant of Dismiss: no new timer is set when a toast is removed.
DismissSingle == toasts = 1 /\ toasts' = 0

\* The one timer, set anew by each change of the list, removes the newest.
Dismiss == toasts > 0 /\ toasts' = toasts - 1

DismissTimer == Dismiss /\ UNCHANGED <<server, calls, events, local, list, strayed>>

-----------------------------------------------------------------------------
(* The list of markets: useQuery, and invalidateQueries.                   *)

Fetching == fetch \in {"sent", "read"}

\* Mutant of Invalidate: it joins the query under way, whose answer then stands.
InvalidateJoining ==
    /\ fetch' = (CASE Fetching -> fetch
                   [] ~Fetching /\ page = "admin" -> "sent"
                   [] OTHER -> IF fetch = "fresh" THEN "stale" ELSE fetch)
    /\ UNCHANGED <<got, missed>>

\* A query that a page uses starts anew, unless its first answer is still to
\* come: that answer then stands, as does what a query without a page has
\* under way.
Invalidate ==
    IF page = "admin" /\ (loaded \/ ~Fetching)
    THEN fetch' = "sent" /\ got' = Empty /\ UNCHANGED missed
    ELSE /\ fetch' = (IF fetch = "fresh" THEN "stale" ELSE fetch)
         /\ missed' = (missed \/ Fetching)
         /\ UNCHANGED got

ReadList ==
    /\ fetch = "sent"
    /\ fetch' = "read" /\ got' = market /\ missed' = FALSE
    /\ UNCHANGED <<server, calls, events, local, loaded, shown, strayed, toasts>>

ShowList ==
    /\ fetch = "read"
    /\ fetch' = "fresh" /\ shown' = got /\ got' = Empty /\ loaded' = TRUE
    /\ UNCHANGED <<server, calls, events, local, missed, strayed, toasts>>

FetchFails ==
    /\ "answer" \in Faults
    /\ Fetching
    /\ fetch' = "failed" /\ got' = Empty
    /\ UNCHANGED <<server, calls, events, local, loaded, shown, missed, strayed, toasts>>

\* The window gets the focus after the staleTime, or the network is back.
Refetch ==
    /\ page = "admin" /\ ~Fetching
    /\ fetch' = "sent"
    /\ UNCHANGED <<server, calls, events, local, got, loaded, shown, missed, strayed, toasts>>

\* market:updated or market:created arrives; the latter is announced.
Arrive(e) ==
    /\ e \in events
    /\ events' = events \ {e}
    /\ IF e.kind = "created" THEN AddToast ELSE UNCHANGED toasts
    /\ Invalidate
    /\ UNCHANGED <<server, calls, local, loaded, shown, strayed>>

\* The tab's socket is not connected when the event is pushed.
LoseEvent(e) ==
    /\ "socket" \in Faults
    /\ e \in events
    /\ events' = events \ {e}
    /\ missed' = TRUE
    /\ UNCHANGED <<server, calls, local, fetch, got, loaded, shown, strayed, toasts>>

-----------------------------------------------------------------------------
(* Pages.                                                                  *)

Busy(c) == calls[c] # Idle
AtStep(c, step) == Busy(c) /\ calls[c].step = step
Running(c) == Busy(c) /\ calls[c].step \notin {"ok", "failed"}
Updating(c) == Running(c) /\ calls[c].kind \in UpdateKind
Attended(c) == Busy(c) /\ calls[c].waits /\ calls[c].here

\* isPending of the mutations that the mounted page has made.
Pending(kinds) == \E c \in Call : Attended(c) /\ calls[c].kind \in kinds

\* Mutant of Mount: the query is given an empty list to begin with.
MountInitialData(p) ==
    fetch' = IF p = "admin" /\ fetch \in {"stale", "failed"} THEN "sent" ELSE fetch

\* A page is mounted; a list that is not fresh is fetched.
Mount(p) ==
    fetch' = IF p = "admin" /\ ~Fetching /\ fetch # "fresh" THEN "sent" ELSE fetch

\* Mutant of Forget: a bet's state survives the page.
ForgetConfirm == UNCHANGED placing /\ confirm' = NoMarket

\* The state of the page that is left is gone, its calls are not.
Forget == placing' = NoMarket /\ confirm' = NoMarket

Unmount(cs) == [c \in Call |-> IF cs[c] = Idle THEN Idle ELSE [cs[c] EXCEPT !.here = FALSE]]

Navigate(p) ==
    /\ p # page
    /\ page' = p
    /\ Forget
    /\ calls' = Unmount(calls)
    /\ strayed' = (strayed \/ \E c \in Call : Updating(c))
    /\ Mount(p)
    /\ UNCHANGED <<server, events, got, loaded, shown, missed, toasts>>

\* A call begins, of this tab or of another administrator.
Begin(kind, m, mine) ==
    /\ made < MaxCalls /\ made' = made + 1
    /\ calls' = [calls EXCEPT ![made + 1] =
           [step |-> "begin", kind |-> kind, market |-> m, waits |-> mine, here |-> mine]]
    /\ UNCHANGED <<market, events, list, toasts>>

\* A market that is to be created is one that nobody else is creating.
Creatable(m) ==
    market[m] = "ABSENT" /\ \A c \in Call : Busy(c) => calls[c].market # m

\* handlePlace: the button of a market that the page shows as open.  Its list
\* is a query of its own, so the market itself may be in any state by now.
PlaceBet(m) ==
    /\ page = "markets"
    /\ market[m] # "ABSENT"
    /\ placing # m
    /\ placing' = m
    /\ Begin("bet", m, TRUE)
    /\ UNCHANGED <<page, confirm, strayed>>

\* Mutant of Disabled: the settlement's mutation is forgotten.
DisabledByAction == Pending({"suspend", "reopen"})

Disabled == Pending(UpdateKind)

\* nonSettleActions: the buttons of a row besides Settle.
Offered(status) ==
    CASE status = "OPEN"      -> {"suspend"}
      [] status = "SUSPENDED" -> {"reopen"}
      [] OTHER                -> {}

ChangeStatus(kind, m) ==
    /\ page = "admin" /\ ~Disabled
    /\ kind \in Offered(shown[m])
    /\ Begin(kind, m, TRUE)
    /\ UNCHANGED <<local, strayed>>

\* Settle opens the question for a result, whose buttons settle or cancel.
AskResult(m) ==
    /\ page = "admin" /\ ~Disabled
    /\ shown[m] \in {"OPEN", "SUSPENDED"} \/ confirm = m
    /\ confirm' = IF confirm = m THEN NoMarket ELSE m
    /\ UNCHANGED <<server, calls, events, page, placing, list, strayed, toasts>>

Settle(m) ==
    /\ page = "admin" /\ ~Disabled
    /\ confirm = m /\ shown[m] # "ABSENT"
    /\ Begin("settle", m, TRUE)
    /\ UNCHANGED <<local, strayed>>

Create(m) ==
    /\ page = "new" /\ ~Pending({"create"})
    /\ Creatable(m)
    /\ Begin("create", m, TRUE)
    /\ UNCHANGED <<local, strayed>>

\* A stake or odds that the page itself refuses; with an empty list of toasts,
\* so that answers, which wait for room in it, are not put off for ever.
RefuseInput ==
    /\ page \in {"markets", "new"}
    /\ toasts = 0
    /\ AddToast
    /\ UNCHANGED <<server, calls, events, local, list, strayed>>

OtherAdmin(kind, m) ==
    /\ IF kind = "create" THEN Creatable(m) ELSE market[m] # "ABSENT"
    /\ Begin(kind, m, FALSE)
    /\ strayed' = (strayed \/ kind \in UpdateKind)
    /\ UNCHANGED local

-----------------------------------------------------------------------------
(* The handlers.                                                           *)

Proceed(c, step) == calls' = [calls EXCEPT ![c].step = step]

\* The handler ends; its answer is for the tab, if that still waits.
Respond(c, step) ==
    calls' = [calls EXCEPT ![c] = IF @.waits THEN [@ EXCEPT !.step = step] ELSE Idle]

\* updateStatus and settle read the market and refuse a settled one.
CheckStatus(c) ==
    /\ AtStep(c, "begin")
    /\ calls[c].kind \in UpdateKind
    /\ IF market[calls[c].market] = "SETTLED" THEN Respond(c, "failed") ELSE Proceed(c, "save")
    /\ UNCHANGED <<server, events, local, list, strayed, toasts>>

\* placeBet takes a bet on an open market, or refuses it for another reason.
TakeBet(c) ==
    /\ AtStep(c, "begin")
    /\ calls[c].kind = "bet"
    /\ \/ (market[calls[c].market] = "OPEN" /\ Respond(c, "ok"))
       \/ Respond(c, "failed")
    /\ UNCHANGED <<server, events, local, list, strayed, toasts>>

Save(c) ==
    /\ AtStep(c, "save") \/ (AtStep(c, "begin") /\ calls[c].kind = "create")
    /\ market' = [market EXCEPT ![calls[c].market] = Target(calls[c].kind)]
    /\ Proceed(c, "publish")
    /\ UNCHANGED <<made, events, local, list, strayed, toasts>>

Publish(c) ==
    /\ AtStep(c, "publish")
    /\ events' = events \cup
           {[kind |-> IF calls[c].kind = "create" THEN "created" ELSE "updated",
             market |-> calls[c].market]}
    /\ Respond(c, "ok")
    /\ UNCHANGED <<server, local, list, strayed, toasts>>

\* An await rejects.  After the save the change is there and nobody hears of it.
ServerError(c) ==
    /\ "error" \in Faults
    /\ Running(c)
    /\ missed' = (missed \/ AtStep(c, "publish"))
    /\ Respond(c, "failed")
    /\ UNCHANGED <<server, events, local, fetch, got, loaded, shown, strayed, toasts>>

-----------------------------------------------------------------------------
(* The answers: onSuccess and onError of the mutations.                    *)

\* Mutant of Release: a bet that failed leaves its button disabled.
ReleaseSome(c) ==
    /\ UNCHANGED placing
    /\ confirm' = IF calls[c].here /\ calls[c].kind = "settle" THEN NoMarket ELSE confirm

\* What the page that asked resets, if it is still mounted.
Release(c) ==
    /\ placing' = IF calls[c].here /\ calls[c].kind = "bet" THEN NoMarket ELSE placing
    /\ confirm' = IF calls[c].here /\ calls[c].kind = "settle" THEN NoMarket ELSE confirm

Succeed(c) ==
    /\ AtStep(c, "ok") /\ calls[c].waits /\ calls[c].kind # "create"
    /\ calls' = [calls EXCEPT ![c] = Idle]
    /\ AddToast
    /\ Release(c)
    /\ IF calls[c].kind = "bet" THEN UNCHANGED list ELSE Invalidate /\ UNCHANGED <<loaded, shown>>
    /\ UNCHANGED <<server, events, page, strayed>>

\* After a creation the router goes to the list, wherever the user is by then.
Created(c) ==
    /\ AtStep(c, "ok") /\ calls[c].waits /\ calls[c].kind = "create"
    /\ AddToast
    /\ IF page = "admin"
       THEN /\ calls' = [calls EXCEPT ![c] = Idle]
            /\ Invalidate
            /\ UNCHANGED <<page, placing, confirm, strayed>>
       ELSE /\ calls' = Unmount([calls EXCEPT ![c] = Idle])
            /\ page' = "admin" /\ Forget
            /\ strayed' = (strayed \/ \E d \in Call : Updating(d))
            /\ fetch' = (IF Fetching THEN fetch ELSE "sent")
            /\ missed' = (missed \/ Fetching)
            /\ UNCHANGED got
    /\ UNCHANGED <<server, events, loaded, shown>>

Fail(c) ==
    /\ AtStep(c, "failed") /\ calls[c].waits
    /\ calls' = [calls EXCEPT ![c] = Idle]
    /\ AddToast
    /\ Release(c)
    /\ UNCHANGED <<server, events, page, list, strayed>>

\* The connection or the gateway's patience ends: the page reports a failure
\* while the handler runs on.
LoseAnswer(c) ==
    /\ "answer" \in Faults
    /\ Busy(c) /\ calls[c].waits
    /\ calls' = [calls EXCEPT ![c] =
           IF Running(c) THEN [@ EXCEPT !.waits = FALSE, !.here = FALSE] ELSE Idle]
    /\ strayed' = (strayed \/ Updating(c))
    /\ AddToast
    /\ Release(c)
    /\ UNCHANGED <<server, events, page, list>>

-----------------------------------------------------------------------------
Clicks ==
    \/ \E p \in Page : Navigate(p)
    \/ RefuseInput
    \/ \E m \in Market :
           \/ PlaceBet(m) \/ AskResult(m) \/ Settle(m) \/ Create(m)
           \/ \E kind \in {"suspend", "reopen"} : ChangeStatus(kind, m)
           \/ \E kind \in AdminKind : OtherAdmin(kind, m)

Serve == \E c \in Call : CheckStatus(c) \/ TakeBet(c) \/ Save(c) \/ Publish(c)
Answer == \E c \in Call : Succeed(c) \/ Created(c) \/ Fail(c)
Deliver == \E e \in events : Arrive(e)
Load == ReadList \/ ShowList

Next ==
    \/ Clicks
    \/ Serve \/ Answer \/ Deliver \/ Load
    \/ \E c \in Call : ServerError(c) \/ LoseAnswer(c)
    \/ \E e \in events : LoseEvent(e)
    \/ FetchFails \/ Refetch
    \/ DismissTimer

Fairness ==
    /\ WF_vars(Serve \/ Answer)
    /\ WF_vars(Deliver)
    /\ WF_vars(Load)
    /\ WF_vars(DismissTimer)

Spec == Init /\ [][Next]_vars
FairSpec == Spec /\ Fairness

-----------------------------------------------------------------------------
(* Properties *)

\* A change that the tab will still hear of.
Announced(m) ==
    \/ \E e \in events : e.market = m
    \/ \E c \in Call : AtStep(c, "publish") /\ calls[c].market = m

\* RealtimeGateway.ts:140, "Every user on the /markets page will receive this and
\* refetch": a list that counts as fresh shows each market as it is, or the
\* tab is still to hear of the change, or one of the known gaps has swallowed
\* it (missed: the event was lost or never published, or came while an answer
\* that it could not cancel was on its way).
ListIsCurrent ==
    (fetch = "fresh" /\ ~missed) =>
        \A m \in Market : shown[m] # market[m] => Announced(m)

\* updateStatus and settle check and save in two steps; what keeps a settled
\* market settled is that the page disables all its buttons while one of its
\* two mutations is pending.  As long as no other administrator is at work, no
\* answer is lost and no page is left under way, nothing undoes a settlement.
SettledStaysSettled ==
    [][\A m \in Market :
           (market[m] = "SETTLED" /\ ~strayed) => market'[m] = "SETTLED"]_vars

\* An administrator who stays on the page sees the markets as they are in the
\* end, however events, answers and queries interleave.
ListCatchesUp ==
    <>[](page = "admin" /\ ~missed /\ fetch # "failed") => <>[](shown = market)

\* Every button that calls have disabled is enabled again when they are over,
\* however they end, and whichever page is mounted by then.
ButtonsComeBack == []<>(placing = NoMarket /\ ~Pending(AdminKind))

\* UiSlice.ts:26, "Each toast auto-removes itself after a timeout", as far as
\* the one timer allows: when no more toasts come, the list empties.
ToastsGo == <>[][toasts' < toasts]_toasts => []<>(toasts = 0)
=============================================================================
