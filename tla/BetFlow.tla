------------------------------ MODULE BetFlow -------------------------------
(***************************************************************************)
(* A bet from the request to the payout: BettingService.placeBet, the      *)
(* bet_placement queue, SettlementWorker, and MarketService with settle.   *)
(* Every await in the code is a step boundary here.  The wallet posts      *)
(* atomically (Ledger, implemented by Wallet.tla); the idempotency lookup  *)
(* in front of a posting is a step of its own, as in WalletService.        *)
(***************************************************************************)
EXTENDS Ledger

CONSTANTS
    Bet,            \* bets by clientMutationId: at most one row each
    Market,
    Slip,           \* Slip[b]: the user, market and stake a request for b names
    OddsInt,        \* OddsInt[m]: decimal odds x 100, fixed at creation
    DepositCents,   \* amounts users deposit
    Request,        \* concurrent placeBet handlers
    Worker,         \* SettlementWorker handlers, alive or left by a lost channel
    Admin,          \* concurrent market administration calls
    NoBet,
    Faults          \* which of "crash", "error" and "reconnect" may happen

ASSUME BetAssumption == Bet \subseteq Ref /\ NoBet \notin Bet
ASSUME SlipAssumption ==
    Slip \in [Bet -> [user : User, market : Market, stake : Amount]]
ASSUME OddsAssumption == OddsInt \in [Market -> {n \in Nat : n >= 101}]
ASSUME DepositAssumption == DepositCents \subseteq Amount

VARIABLES
    bets,           \* bets[b]: status of b's row
    market,         \* market[m]: status of m's row
    cached,         \* bets with a live idempotency key in Redis
    queue,          \* bets with a message in bet_placement
    dead,           \* bets with a message in bet_placement_dead_letter
    notes,          \* the BET_SETTLED notifications published so far (those
                    \* about markets are read by no step and left out)
    req, worker, admin

money == <<balance, ledger>>
broker == <<queue, dead>>
handlers == <<req, worker, admin>>
vars == <<money, bets, market, cached, broker, notes, handlers>>

BetStatus == {"PENDING", "ACCEPTED", "SETTLED", "VOID", "CANCELLED"}
MarketStatus == {"OPEN", "SUSPENDED", "SETTLED"}
MarketResult == {"WIN", "LOSS"}

\* Mutant of ALLOWED_TRANSITIONS: a PENDING bet can only be withdrawn.
NO_ACCEPTANCE ==
    [s \in BetStatus |-> IF s \in {"PENDING", "ACCEPTED"}
                         THEN {"VOID", "CANCELLED"} ELSE {}]

ALLOWED_TRANSITIONS ==
    [s \in BetStatus |->
        CASE s = "PENDING"  -> {"ACCEPTED", "VOID", "CANCELLED"}
          [] s = "ACCEPTED" -> {"SETTLED", "VOID", "CANCELLED"}
          [] OTHER          -> {}]

TERMINAL_STATES == {"SETTLED", "VOID", "CANCELLED"}

\* floor(stakeCents * oddsInt / 100)
Payout(b) == (Slip[b].stake * OddsInt[Slip[b].market]) \div 100

BetNote == [bet : Bet, result : MarketResult]

Idle == [pc |-> "idle"]
PlaceStep == {"get", "lookup", "market", "debit", "post", "insert", "cache",
              "publish", "confirm"}
Placing == [pc : PlaceStep, bet : Bet]
Accepting == [pc : {"read", "update", "terminal", "ack", "nack"},
              bet : Bet, live : BOOLEAN]
Administering ==
    [pc : {"save", "find", "loop", "credit", "post", "close", "notify", "announce"},
     market : Market,
     arg : {"CREATED", "OPEN", "SUSPENDED"} \cup MarketResult,
     todo : SUBSET Bet, bet : Bet \cup {NoBet}]

\* A call has a bet in hand exactly while it settles one, and its argument is
\* what its step will use it for.
AdminSteps ==
    \A a \in Admin : admin[a] # Idle =>
        /\ admin[a].pc \in {"credit", "post", "close", "notify"} => admin[a].bet \in Bet
        /\ admin[a].pc \in {"find", "loop", "credit", "post", "close", "notify"} =>
               admin[a].arg \in MarketResult
        /\ admin[a].pc = "save" => admin[a].arg \in {"OPEN", "SUSPENDED"}

TypeOK ==
    /\ LedgerTypeOK
    /\ bets \in [Bet -> BetStatus \cup {"ABSENT"}]
    /\ market \in [Market -> MarketStatus \cup {"ABSENT"}]
    /\ cached \subseteq Bet
    /\ queue \subseteq Bet
    /\ dead \subseteq Bet
    /\ notes \subseteq BetNote
    /\ req \in [Request -> Placing \cup {Idle}]
    /\ worker \in [Worker -> Accepting \cup {Idle}]
    /\ admin \in [Admin -> Administering \cup {Idle}]
    /\ AdminSteps

Init ==
    /\ LedgerInit
    /\ bets = [b \in Bet |-> "ABSENT"]
    /\ market = [m \in Market |-> "ABSENT"]
    /\ cached = {} /\ queue = {} /\ dead = {} /\ notes = {}
    /\ req = [q \in Request |-> Idle]
    /\ worker = [w \in Worker |-> Idle]
    /\ admin = [a \in Admin |-> Idle]

-----------------------------------------------------------------------------
(* The wallet's postings for a bet: lookup and posting are separate steps. *)

PostDebit(b) == PostFrom(Slip[b].user, balance[Slip[b].user],
                         "DEBIT", Slip[b].stake, b)
\* Mutant of CanDebit: the balance is not compared with the stake.
CanDebitAnyway(b) == balance[Slip[b].user] >= 0

CanDebit(b) == CanPost(balance[Slip[b].user], "DEBIT", Slip[b].stake)

PostCredit(b) == PostFrom(Slip[b].user, balance[Slip[b].user],
                          "CREDIT", Payout(b), b)
CanCredit(b) == CanPost(balance[Slip[b].user], "CREDIT", Payout(b))

\* A deposit, whole: its own interleavings are Wallet.tla's.
Deposit(u, cents, ref) ==
    /\ \A type \in TransactionType : ~Posted(u, type, ref)
    /\ CanPost(balance[u], "DEPOSIT", cents)
    /\ PostFrom(u, balance[u], "DEPOSIT", cents, ref)
    /\ UNCHANGED <<bets, market, cached, broker, notes, handlers>>

-----------------------------------------------------------------------------
(* BettingService.placeBet                                                 *)

Placed(q, pc) == req[q] # Idle /\ req[q].pc = pc
Proceed(q, pc) == req' = [req EXCEPT ![q].pc = pc]
Return(q) == req' = [req EXCEPT ![q] = Idle]

\* A request arrives, first or repeated.  Requests for a bet in Unique do not
\* overlap: the client waits for the answer before it repeats one.
Receive(q, b) ==
    /\ req[q] = Idle
    /\ b \in Unique => \A p \in Request : req[p] # Idle => req[p].bet # b
    /\ req' = [req EXCEPT ![q] = [pc |-> "get", bet |-> b]]
    /\ UNCHANGED <<money, bets, market, cached, broker, notes, worker, admin>>

\* A cached id is answered with its row: bets rows are never deleted.
CacheGet(q) ==
    /\ Placed(q, "get")
    /\ IF req[q].bet \in cached /\ bets[req[q].bet] # "ABSENT"
       THEN Return(q)
       ELSE Proceed(q, "lookup")
    /\ UNCHANGED <<money, bets, market, cached, broker, notes, worker, admin>>

LookupBet(q) ==
    /\ Placed(q, "lookup")
    /\ IF bets[req[q].bet] # "ABSENT" THEN Return(q) ELSE Proceed(q, "market")
    /\ UNCHANGED <<money, bets, market, cached, broker, notes, worker, admin>>

AssertMarketOpen(q) ==
    /\ Placed(q, "market")
    /\ IF market[Slip[req[q].bet].market] = "OPEN"
       THEN Proceed(q, "debit")
       ELSE Return(q)
    /\ UNCHANGED <<money, bets, market, cached, broker, notes, worker, admin>>

\* Mutant of DebitFind: no lookup before the posting.
DebitFindNothing(q) ==
    /\ Placed(q, "debit")
    /\ Proceed(q, "post")
    /\ UNCHANGED <<money, bets, market, cached, broker, notes, worker, admin>>

\* WalletService.debit: a stake already taken is not taken again ...
DebitFind(q) ==
    /\ Placed(q, "debit")
    /\ IF Posted(Slip[req[q].bet].user, "DEBIT", req[q].bet)
       THEN Proceed(q, "insert")
       ELSE Proceed(q, "post")
    /\ UNCHANGED <<money, bets, market, cached, broker, notes, worker, admin>>

\* Mutant of DebitPost: a refusal is not awaited.
DebitPostAndForget(q) ==
    /\ Placed(q, "post")
    /\ IF CanDebit(req[q].bet) THEN PostDebit(req[q].bet) ELSE UNCHANGED money
    /\ Proceed(q, "insert")
    /\ UNCHANGED <<bets, market, cached, broker, notes, worker, admin>>

\* ... otherwise it is posted, or refused for want of balance (422).
DebitPost(q) ==
    /\ Placed(q, "post")
    /\ IF CanDebit(req[q].bet)
       THEN PostDebit(req[q].bet) /\ Proceed(q, "insert")
       ELSE Return(q) /\ UNCHANGED money
    /\ UNCHANGED <<bets, market, cached, broker, notes, worker, admin>>

\* Mutant of InsertBet: a refused insert is tried again for ever.
InsertBetAgain(q) ==
    /\ Placed(q, "insert")
    /\ bets[req[q].bet] = "ABSENT" /\ Payout(req[q].bet) \in Cents
    /\ bets' = [bets EXCEPT ![req[q].bet] = "PENDING"]
    /\ Proceed(q, "cache")
    /\ UNCHANGED <<money, market, cached, broker, notes, worker, admin>>

\* The unique index on referenceId refuses a second row, and the integer
\* column a payout it cannot hold; either way the request fails here.
InsertBet(q) ==
    /\ Placed(q, "insert")
    /\ IF bets[req[q].bet] = "ABSENT" /\ Payout(req[q].bet) \in Cents
       THEN /\ bets' = [bets EXCEPT ![req[q].bet] = "PENDING"]
            /\ Proceed(q, "cache")
       ELSE Return(q) /\ UNCHANGED bets
    /\ UNCHANGED <<money, market, cached, broker, notes, worker, admin>>

\* Mutant of CacheSet: the answer is given before the publication.
CacheSetAndReturn(q) ==
    /\ Placed(q, "cache")
    /\ cached' = cached \cup {req[q].bet}
    /\ Return(q)
    /\ UNCHANGED <<money, bets, market, broker, notes, worker, admin>>

CacheSet(q) ==
    /\ Placed(q, "cache")
    /\ cached' = cached \cup {req[q].bet}
    /\ Proceed(q, "publish")
    /\ UNCHANGED <<money, bets, market, broker, notes, worker, admin>>

Publish(q) ==
    /\ Placed(q, "publish")
    /\ queue' = queue \cup {req[q].bet}
    /\ Proceed(q, "confirm")
    /\ UNCHANGED <<money, bets, market, cached, dead, notes, worker, admin>>

Confirm(q) ==
    /\ Placed(q, "confirm")
    /\ Return(q)
    /\ UNCHANGED <<money, bets, market, cached, broker, notes, worker, admin>>

\* The channel wrapper sends what was not confirmed again on a new channel.
Republish(q) ==
    /\ "reconnect" \in Faults
    /\ Placed(q, "confirm")
    /\ queue' = queue \cup {req[q].bet}
    /\ UNCHANGED <<money, bets, market, cached, dead, notes, handlers>>

\* An await rejects (database, Redis or broker error): the request fails.
RequestError(q) ==
    /\ "error" \in Faults
    /\ req[q] # Idle
    /\ Return(q)
    /\ UNCHANGED <<money, bets, market, cached, broker, notes, worker, admin>>

\* The key's 60 seconds pass, or Redis evicts it.
ExpireKey(b) ==
    /\ b \in cached
    /\ cached' = cached \ {b}
    /\ UNCHANGED <<money, bets, market, broker, notes, handlers>>

-----------------------------------------------------------------------------
(* SettlementWorker.handleMessage                                          *)

Working(w, pc) == worker[w] # Idle /\ worker[w].pc = pc
Continue(w, pc) == worker' = [worker EXCEPT ![w].pc = pc]
Holds(w) == worker[w] # Idle /\ worker[w].live

\* prefetch(1): the channel has at most one message that is not acknowledged.
Deliver(w, b) ==
    /\ worker[w] = Idle
    /\ \A v \in Worker : ~Holds(v)
    /\ b \in queue
    /\ queue' = queue \ {b}
    /\ worker' = [worker EXCEPT ![w] = [pc |-> "read", bet |-> b, live |-> TRUE]]
    /\ UNCHANGED <<money, bets, market, cached, dead, notes, req, admin>>

\* Mutant of ReadStatus: the update after the check is missing.
ReadStatusOnly(w) ==
    /\ Working(w, "read")
    /\ Continue(w, "ack")
    /\ UNCHANGED <<money, bets, market, cached, broker, notes, req, admin>>

\* Mutant of ReadStatus: the row is read from the replica, which may lag.
ReadStatusReplica(w) ==
    /\ Working(w, "read")
    /\ \E seen \in {"ABSENT", bets[worker[w].bet]} :
           Continue(w, IF seen # "ABSENT" /\ "ACCEPTED" \in ALLOWED_TRANSITIONS[seen]
                       THEN "update" ELSE "terminal")
    /\ UNCHANGED <<money, bets, market, cached, broker, notes, req, admin>>

\* transitionStatus reads the row and checks the transition ...
ReadStatus(w) ==
    /\ Working(w, "read")
    /\ IF /\ bets[worker[w].bet] # "ABSENT"
          /\ "ACCEPTED" \in ALLOWED_TRANSITIONS[bets[worker[w].bet]]
       THEN Continue(w, "update")
       ELSE Continue(w, "terminal")
    /\ UNCHANGED <<money, bets, market, cached, broker, notes, req, admin>>

\* ... and then updates by id, whatever the status has become.
UpdateStatus(w) ==
    /\ Working(w, "update")
    /\ bets' = [bets EXCEPT ![worker[w].bet] = "ACCEPTED"]
    /\ Continue(w, "ack")
    /\ UNCHANGED <<money, market, cached, broker, notes, req, admin>>

\* After a refused or failed transition: isTerminalState decides.
CheckTerminal(w) ==
    /\ Working(w, "terminal")
    /\ Continue(w, IF bets[worker[w].bet] \in TERMINAL_STATES
                   THEN "ack" ELSE "nack")
    /\ UNCHANGED <<money, bets, market, cached, broker, notes, req, admin>>

\* A database error in transitionStatus leads to isTerminalState, one in
\* isTerminalState to the outer catch.
WorkerError(w) ==
    /\ "error" \in Faults
    /\ worker[w] # Idle
    /\ worker[w].pc \in {"read", "update", "terminal"}
    /\ Continue(w, IF Working(w, "terminal") THEN "nack" ELSE "terminal")
    /\ UNCHANGED <<money, bets, market, cached, broker, notes, req, admin>>

Answer(w) ==
    /\ Holds(w)
    /\ worker[w].pc \in {"ack", "nack"}
    /\ dead' = IF Working(w, "nack") THEN dead \cup {worker[w].bet} ELSE dead
    /\ worker' = [worker EXCEPT ![w] = Idle]
    /\ UNCHANGED <<money, bets, market, cached, queue, notes, req, admin>>

\* The consumer channel is lost: the broker requeues the message while the
\* handler that has it runs on.
LoseChannel(w) ==
    /\ "reconnect" \in Faults
    /\ Holds(w)
    /\ queue' = queue \cup {worker[w].bet}
    /\ worker' = [worker EXCEPT ![w].live = FALSE]
    /\ UNCHANGED <<money, bets, market, cached, dead, notes, req, admin>>

-----------------------------------------------------------------------------
(* MarketService                                                           *)

Managing(a, pc) == admin[a] # Idle /\ admin[a].pc = pc
MoveOn(a, pc) == admin' = [admin EXCEPT ![a].pc = pc]
Finish(a) == admin' = [admin EXCEPT ![a] = Idle]
Begin(a, pc, m, arg) ==
    /\ admin[a] = Idle
    /\ admin' = [admin EXCEPT ![a] =
           [pc |-> pc, market |-> m, arg |-> arg, todo |-> {}, bet |-> NoBet]]

CreateMarket(a, m) ==
    /\ market[m] = "ABSENT"
    /\ market' = [market EXCEPT ![m] = "OPEN"]
    /\ Begin(a, "announce", m, "CREATED")
    /\ UNCHANGED <<money, bets, cached, broker, notes, req, worker>>

\* Mutant of StartUpdate: a settled market is not refused.
StartAnyUpdate(a, m, status) ==
    /\ market[m] # "ABSENT"
    /\ Begin(a, "save", m, status)
    /\ UNCHANGED <<money, bets, market, cached, broker, notes, req, worker>>

\* updateStatus (suspend, reopen) and settle begin by reading the market; an
\* unknown or settled one is refused.
StartUpdate(a, m, status) ==
    /\ market[m] \notin {"ABSENT", "SETTLED"}
    /\ Begin(a, "save", m, status)
    /\ UNCHANGED <<money, bets, market, cached, broker, notes, req, worker>>

\* save() compares with the row as it is now, so it writes the status even
\* when the row has changed since it was read.
SaveStatus(a) ==
    /\ Managing(a, "save")
    /\ market' = [market EXCEPT ![admin[a].market] = admin[a].arg]
    /\ MoveOn(a, "announce")
    /\ UNCHANGED <<money, bets, cached, broker, notes, req, worker>>

StartSettle(a, m, result) ==
    /\ market[m] \notin {"ABSENT", "SETTLED"}
    /\ Begin(a, "find", m, result)
    /\ UNCHANGED <<money, bets, market, cached, broker, notes, req, worker>>

\* Mutant of LiveBets: every bet that is not closed.
OpenBets(m) == {b \in Bet : Slip[b].market = m /\ bets[b] \in {"PENDING", "ACCEPTED"}}

LiveBets(m) == {b \in Bet : Slip[b].market = m /\ bets[b] = "ACCEPTED"}

FindAccepted(a) ==
    /\ Managing(a, "find")
    /\ admin' = [admin EXCEPT ![a].pc = "loop",
                             ![a].todo = LiveBets(admin[a].market)]
    /\ UNCHANGED <<money, bets, market, cached, broker, notes, req, worker>>

\* Mutant of PickBet: the bet is not taken off the list.
PickBetAgain(a, b) ==
    /\ Managing(a, "loop")
    /\ b \in admin[a].todo
    /\ admin' = [admin EXCEPT
           ![a].pc = IF admin[a].arg = "WIN" THEN "credit" ELSE "close", ![a].bet = b]
    /\ UNCHANGED <<money, bets, market, cached, broker, notes, req, worker>>

\* Mutant of PickBet: a LOSS pays and a WIN does not.
PickBetSwapped(a, b) ==
    /\ Managing(a, "loop")
    /\ b \in admin[a].todo
    /\ admin' = [admin EXCEPT
           ![a].pc = IF admin[a].arg = "WIN" THEN "close" ELSE "credit",
           ![a].todo = @ \ {b}, ![a].bet = b]
    /\ UNCHANGED <<money, bets, market, cached, broker, notes, req, worker>>

PickBet(a, b) ==
    /\ Managing(a, "loop")
    /\ b \in admin[a].todo
    /\ admin' = [admin EXCEPT
           ![a].pc = IF admin[a].arg = "WIN" THEN "credit" ELSE "close",
           ![a].todo = @ \ {b}, ![a].bet = b]
    /\ UNCHANGED <<money, bets, market, cached, broker, notes, req, worker>>

BackToLoop(a) == admin' = [admin EXCEPT ![a].pc = "loop", ![a].bet = NoBet]

\* Mutant of CreditFind: no lookup before the posting.
CreditFindNothing(a) ==
    /\ Managing(a, "credit")
    /\ MoveOn(a, "post")
    /\ UNCHANGED <<money, bets, market, cached, broker, notes, req, worker>>

\* WalletService.credit: a payout already made is not made again ...
CreditFind(a) ==
    /\ Managing(a, "credit")
    /\ MoveOn(a, IF Posted(Slip[admin[a].bet].user, "CREDIT", admin[a].bet)
                 THEN "close" ELSE "post")
    /\ UNCHANGED <<money, bets, market, cached, broker, notes, req, worker>>

\* Mutant of CreditPost: a failed credit does not skip the bet.
CreditPostAndForget(a) ==
    /\ Managing(a, "post")
    /\ IF CanCredit(admin[a].bet) THEN PostCredit(admin[a].bet) ELSE UNCHANGED money
    /\ MoveOn(a, "close")
    /\ UNCHANGED <<bets, market, cached, broker, notes, req, worker>>

\* ... otherwise it is posted; a balance the column cannot hold is an error
\* that skips the bet.
CreditPost(a) ==
    /\ Managing(a, "post")
    /\ IF CanCredit(admin[a].bet)
       THEN PostCredit(admin[a].bet) /\ MoveOn(a, "close")
       ELSE BackToLoop(a) /\ UNCHANGED money
    /\ UNCHANGED <<bets, market, cached, broker, notes, req, worker>>

CloseBet(a) ==
    /\ Managing(a, "close")
    /\ bets' = [bets EXCEPT ![admin[a].bet] = "SETTLED"]
    /\ MoveOn(a, "notify")
    /\ UNCHANGED <<money, market, cached, broker, notes, req, worker>>

NotifySettled(a) ==
    /\ Managing(a, "notify")
    /\ notes' = notes \cup {[bet |-> admin[a].bet, result |-> admin[a].arg]}
    /\ BackToLoop(a)
    /\ UNCHANGED <<money, bets, market, cached, broker, req, worker>>

\* The catch in the loop: the bet is skipped, the others are processed.
BetError(a) ==
    /\ "error" \in Faults
    /\ admin[a] # Idle
    /\ admin[a].pc \in {"credit", "post", "close", "notify"}
    /\ BackToLoop(a)
    /\ UNCHANGED <<money, bets, market, cached, broker, notes, req, worker>>

\* After the loop, whatever became of its bets.
MarkSettled(a) ==
    /\ Managing(a, "loop")
    /\ admin[a].todo = {}
    /\ market' = [market EXCEPT ![admin[a].market] = "SETTLED"]
    /\ MoveOn(a, "announce")
    /\ UNCHANGED <<money, bets, cached, broker, notes, req, worker>>

\* MARKET_CREATED or MARKET_UPDATED is published and the call returns.
Announce(a) ==
    /\ Managing(a, "announce")
    /\ Finish(a)
    /\ UNCHANGED <<money, bets, market, cached, broker, notes, req, worker>>

\* An error outside the loop's try fails the whole call.
AdminError(a) ==
    /\ "error" \in Faults
    /\ admin[a] # Idle
    /\ admin[a].pc \in {"save", "find", "loop", "announce"}
    /\ Finish(a)
    /\ UNCHANGED <<money, bets, market, cached, broker, notes, req, worker>>

-----------------------------------------------------------------------------
\* The API process starts again: handlers are gone, and the broker requeues
\* the message that was not acknowledged.
Restart ==
    /\ req' = [q \in Request |-> Idle]
    /\ worker' = [w \in Worker |-> Idle]
    /\ admin' = [a \in Admin |-> Idle]
    /\ queue' = queue \cup {b \in Bet : \E w \in Worker :
                                Holds(w) /\ worker[w].bet = b}
    /\ UNCHANGED <<money, bets, market, cached, dead, notes>>

Crash == "crash" \in Faults /\ Restart

\* Answering on a lost channel throws in the try, in its catch and in the
\* consumer's catch: an unhandled rejection, which ends the process.
AnswerOnLostChannel(w) ==
    /\ worker[w] # Idle
    /\ ~worker[w].live
    /\ worker[w].pc \in {"ack", "nack"}
    /\ Restart

-----------------------------------------------------------------------------
\* What each handler does when nothing fails.
PlaceBet(q) ==
    \/ CacheGet(q) \/ LookupBet(q) \/ AssertMarketOpen(q) \/ DebitFind(q)
    \/ DebitPost(q) \/ InsertBet(q) \/ CacheSet(q) \/ Publish(q) \/ Confirm(q)

HandleMessage(w) ==
    \/ \E b \in Bet : Deliver(w, b)
    \/ ReadStatus(w) \/ UpdateStatus(w) \/ CheckTerminal(w) \/ Answer(w)

Administer(a) ==
    \/ SaveStatus(a) \/ FindAccepted(a) \/ \E b \in Bet : PickBet(a, b)
    \/ CreditFind(a) \/ CreditPost(a) \/ CloseBet(a) \/ NotifySettled(a)
    \/ MarkSettled(a) \/ Announce(a)

\* What clients and administrators ask for, and what Redis forgets.
Environment ==
    \/ \E u \in User, cents \in DepositCents, ref \in Ref \ Bet :
           Deposit(u, cents, ref)
    \/ \E q \in Request, b \in Bet : Receive(q, b)
    \/ \E b \in Bet : ExpireKey(b)
    \/ \E a \in Admin, m \in Market :
           \/ CreateMarket(a, m)
           \/ \E status \in {"OPEN", "SUSPENDED"} : StartUpdate(a, m, status)
           \/ \E result \in MarketResult : StartSettle(a, m, result)

Failure ==
    \/ \E q \in Request : RequestError(q) \/ Republish(q)
    \/ \E w \in Worker :
           WorkerError(w) \/ LoseChannel(w) \/ AnswerOnLostChannel(w)
    \/ \E a \in Admin : BetError(a) \/ AdminError(a)
    \/ Crash

Next ==
    \/ \E q \in Request : PlaceBet(q)
    \/ \E w \in Worker : HandleMessage(w)
    \/ \E a \in Admin : Administer(a)
    \/ Environment
    \/ Failure

\* A handler that is not stopped by a fault takes its next step; the worker's
\* next step, when it is idle, is the delivery of a queued message.
Fairness ==
    /\ \A q \in Request : WF_vars(PlaceBet(q))
    /\ \A w \in Worker : WF_vars(HandleMessage(w))
    /\ \A a \in Admin : WF_vars(Administer(a))

Spec == Init /\ [][Next]_vars
FairSpec == Spec /\ Fairness

-----------------------------------------------------------------------------
(* Properties *)

\* The rows of b's user that post the stake (DEBIT) or payout (CREDIT) of b.
Entries(b, type) ==
    {i \in DOMAIN ledger[Slip[b].user] :
        ledger[Slip[b].user][i].type = type /\ ledger[Slip[b].user][i].ref = b}

\* The bets whose requests do not overlap.
UniqueBet == Unique \cap Bet

\* No bet is on the books without its own stake having been taken, whatever
\* fails or overlaps: placeBet debits before it inserts, and a retry that
\* skips the debit does so because the debit is there.
FundedBets ==
    \A b \in Bet : bets[b] # "ABSENT" =>
        \E i \in Entries(b, "DEBIT") :
            ledger[Slip[b].user][i].amount = Slip[b].stake

\* A user who is told that a bet was won has been credited exactly its
\* payout: settle credits before it closes and notifies, and a failed credit
\* skips both.
WinNotificationPaid ==
    \A b \in Bet : [bet |-> b, result |-> "WIN"] \in notes =>
        \E i \in Entries(b, "CREDIT") :
            ledger[Slip[b].user][i].amount = Payout(b)

\* Money is only ever credited for a bet that the worker has accepted, even
\* when handlers of a lost channel, repeated messages and several
\* settlements are under way.
PayoutsFollowAcceptance ==
    \A b \in Bet : Entries(b, "CREDIT") # {} => bets[b] \in {"ACCEPTED", "SETTLED"}

\* Retries of a request, after any failure but without overlap, take the
\* stake once (the lookups of placeBet and debit).
ChargedAtMostOnce ==
    \A b \in UniqueBet : \A i, j \in Entries(b, "DEBIT") : i = j

\* Settlements that are repeated after a crash or an error pay a bet once
\* (the lookup of credit) when settlements of one market do not overlap.
PaidAtMostOnce ==
    \A b \in Bet : \A i, j \in Entries(b, "CREDIT") : i = j

\* A settled market stays settled (MarketEntity.ts: "SETTLED is terminal").
SettledMarketIsFinal ==
    [][\A m \in Market : market[m] = "SETTLED" => market'[m] = "SETTLED"]_vars

\* The bets of the running system go through the abstract lifecycle.
HasEntry(type) == [b \in Bet |-> Posted(Slip[b].user, type, b)]
Lifecycle == INSTANCE BetLifecycle WITH
    stage   <- bets,
    charged <- HasEntry("DEBIT"),
    paid    <- HasEntry("CREDIT")

\* Charged, recorded, accepted, paid only while accepted, closed: no step of
\* any handler skips, reorders or undoes a stage, even where requests for one
\* bet overlap.
ImplementsLifecycle == Lifecycle!Spec

\* While nothing fails, a PENDING bet always has its message under way: it
\* is about to be published, is queued, or is in the worker's hands.
PendingIsOnItsWay ==
    \A b \in Bet : bets[b] = "PENDING" =>
        \/ b \in queue
        \/ \E q \in Request : /\ req[q] # Idle
                               /\ req[q].bet = b
                               /\ req[q].pc \in {"cache", "publish"}
        \/ \E w \in Worker : worker[w] # Idle /\ worker[w].bet = b

\* While nothing fails, no message is dead-lettered.
NothingDeadLettered == dead = {}

\* While the database answers, what is dead-lettered needs no repair: its bet
\* was accepted before, by an earlier delivery of the message.
DeadLettersAreAccepted == \A b \in dead : bets[b] \in {"ACCEPTED", "SETTLED"}

\* While nothing fails, a bet announced as lost has not been paid.
LossPaysNothing ==
    \A b \in Bet : [bet |-> b, result |-> "LOSS"] \in notes => Entries(b, "CREDIT") = {}

\* While nothing fails, every recorded bet is accepted in the end.
PendingIsAccepted ==
    \A b \in Bet : bets[b] = "PENDING" ~> bets[b] \in {"ACCEPTED", "SETTLED"}

\* While nothing fails, a settlement that has begun settles its market.
SettlementEnds ==
    \A a \in Admin, m \in Market :
        (admin[a] # Idle /\ admin[a].market = m /\ admin[a].arg \in MarketResult)
            ~> market[m] = "SETTLED"

\* While nothing fails, every request is answered.
PlacementEnds == \A q \in Request : req[q] # Idle ~> req[q] = Idle

-----------------------------------------------------------------------------
(* What comments and documents say and the code does not do. *)

\* README.md:90, "Network retries and double-taps return the original cached
\* response without re-processing": no request takes a stake again.
DoubleTapChargesOnce ==
    \A b \in Bet : \A i, j \in Entries(b, "DEBIT") : i = j

\* MarketTypes.ts:9, "All ACCEPTED bets on this market are paid out at their
\* stored payoutCents" and "settled": none stays ACCEPTED on a settled market.
SettledMarketHasNoLiveBets ==
    \A m \in Market : market[m] = "SETTLED" => LiveBets(m) = {}
=============================================================================
