--------------------------- MODULE BetMoneyProofs ---------------------------
(* What BetFlow does to the money of a bet, for every set of bets, markets *)
(* and handlers and whatever fails: the stake is taken before the bet is   *)
(* recorded and at most once where requests do not overlap, and the payout *)
(* follows acceptance and precedes its notification; the audit trail       *)
(* explains the balance.  While settlements of one market do not overlap:  *)
(* one payout, the stages of a bet, a final settlement, the abstract       *)
(* ledger.  While nothing fails: a bet's way to its acceptance, and no     *)
(* lost bet that is paid.  While the database answers: what a dead letter  *)
(* is about.  And how many steps a handler can take.                       *)
EXTENDS BetFlowProofs, FiniteSetTheorems

Charged(b) == Posted(Slip[b].user, "DEBIT", b)
Paid(b) == Posted(Slip[b].user, "CREDIT", b)
Taken(b) == bets[b] \in {"ACCEPTED", "SETTLED"}

\* The rows of a bet carry the stake and the payout of its slip.
RowsExact ==
    \A b \in Bet :
        /\ \A i \in Entries(b, "DEBIT") : ledger[Slip[b].user][i].amount = Slip[b].stake
        /\ \A i \in Entries(b, "CREDIT") : ledger[Slip[b].user][i].amount = Payout(b)

\* How a bet's row, its ledger rows and its notifications go together.
Booked ==
    \A b \in Bet :
        /\ bets[b] # "ABSENT" => Charged(b)
        /\ Paid(b) => Taken(b)
        /\ [bet |-> b, result |-> "WIN"] \in notes => Paid(b)

\* What a handler may rely on at the step it is about to take.
ReqKnows ==
    \A q \in Request :
        (req[q] # Idle /\ req[q].pc = "insert") => Charged(req[q].bet)
WorkerKnows ==
    \A w \in Worker :
        (worker[w] # Idle /\ worker[w].pc = "update") => bets[worker[w].bet] # "ABSENT"
AdminKnows ==
    \A a \in Admin : admin[a] # Idle =>
        /\ \A b \in admin[a].todo : Taken(b)
        /\ admin[a].pc \in {"credit", "post", "close", "notify"} => Taken(admin[a].bet)
        /\ admin[a].pc \in {"close", "notify"} /\ admin[a].arg = "WIN" => Paid(admin[a].bet)

MoneyInv == RowsExact /\ Booked /\ ReqKnows /\ WorkerKnows /\ AdminKnows

LEMMA MoneyInit == Init => MoneyInv
<1> SUFFICES ASSUME Init PROVE MoneyInv
    OBVIOUS
<1>1. \A u \in User : ledger[u] = << >>
    BY DEF Init, LedgerInit
<1>2. DOMAIN << >> = {}
    OBVIOUS
<1>3. \A b \in Bet, type \in TransactionType :
          Entries(b, type) = {} /\ ~Posted(Slip[b].user, type, b)
    BY <1>1, <1>2, SlipType DEF Entries, Posted
<1> QED
    BY <1>3 DEF Init, MoneyInv, RowsExact, Booked, ReqKnows, WorkerKnows, AdminKnows,
                Charged, Paid, TransactionType

\* MoneyInv is what the two invariants of the runs rest on.
LEMMA MoneyImplies == MoneyInv => FundedBets /\ WinNotificationPaid /\ PayoutsFollowAcceptance
<1> SUFFICES ASSUME MoneyInv
             PROVE  FundedBets /\ WinNotificationPaid /\ PayoutsFollowAcceptance
    OBVIOUS
<1>1. \A b \in Bet : /\ Charged(b) <=> Entries(b, "DEBIT") # {}
                     /\ Paid(b) <=> Entries(b, "CREDIT") # {}
    BY DEF Charged, Paid, Posted, Entries
<1>2. FundedBets
    BY <1>1 DEF MoneyInv, RowsExact, Booked, FundedBets
<1>3. WinNotificationPaid
    BY <1>1 DEF MoneyInv, RowsExact, Booked, WinNotificationPaid
<1>4. PayoutsFollowAcceptance
    BY <1>1 DEF MoneyInv, Booked, PayoutsFollowAcceptance, Taken
<1> QED
    BY <1>2, <1>3, <1>4

-----------------------------------------------------------------------------
(* Which actions write what.                                               *)

\* The ledger is written by a debit, a credit and a deposit.
LEMMA LedgerSteps ==
    ASSUME [Next]_vars
    PROVE  \/ UNCHANGED money
           \/ \E q \in Request : DebitPost(q)
           \/ \E a \in Admin : CreditPost(a)
           \/ \E u \in User, cents \in DepositCents, ref \in Ref \ Bet :
                  Deposit(u, cents, ref)
<1>1. ASSUME NEW q \in Request, PlaceBet(q) PROVE UNCHANGED money \/ DebitPost(q)
    BY <1>1 DEF PlaceBet, CacheGet, LookupBet, AssertMarketOpen, DebitFind,
                InsertBet, CacheSet, Publish, Confirm
<1>2. ASSUME NEW w \in Worker, HandleMessage(w) PROVE UNCHANGED money
    BY <1>2 DEF HandleMessage, Deliver, ReadStatus, UpdateStatus, CheckTerminal, Answer
<1>3. ASSUME NEW a \in Admin, Administer(a) PROVE UNCHANGED money \/ CreditPost(a)
    BY <1>3 DEF Administer, SaveStatus, FindAccepted, PickBet, CreditFind, CloseBet,
                NotifySettled, MarkSettled, Announce
<1>4. ASSUME Environment
      PROVE  UNCHANGED money \/ \E u \in User, cents \in DepositCents, ref \in Ref \ Bet :
                 Deposit(u, cents, ref)
    BY <1>4 DEF Environment, Receive, ExpireKey, CreateMarket, StartUpdate, StartSettle
<1>5. ASSUME Failure PROVE UNCHANGED money
    BY <1>5 DEF Failure, RequestError, Republish, WorkerError, LoseChannel, BetError,
                AdminError, Crash, AnswerOnLostChannel, Restart
<1> QED
    BY <1>1, <1>2, <1>3, <1>4, <1>5 DEF Next, vars

\* A bet's row is written by three updates.
LEMMA BetSteps ==
    ASSUME [Next]_vars
    PROVE  \/ UNCHANGED bets
           \/ \E q \in Request : InsertBet(q)
           \/ \E w \in Worker : UpdateStatus(w)
           \/ \E a \in Admin : CloseBet(a)
<1>1. ASSUME NEW q \in Request, PlaceBet(q) PROVE UNCHANGED bets \/ InsertBet(q)
    BY <1>1 DEF PlaceBet, CacheGet, LookupBet, AssertMarketOpen, DebitFind,
                DebitPost, CacheSet, Publish, Confirm
<1>2. ASSUME NEW w \in Worker, HandleMessage(w) PROVE UNCHANGED bets \/ UpdateStatus(w)
    BY <1>2 DEF HandleMessage, Deliver, ReadStatus, CheckTerminal, Answer
<1>3. ASSUME NEW a \in Admin, Administer(a) PROVE UNCHANGED bets \/ CloseBet(a)
    BY <1>3 DEF Administer, SaveStatus, FindAccepted, PickBet, CreditFind, CreditPost,
                NotifySettled, MarkSettled, Announce
<1>4. ASSUME Environment PROVE UNCHANGED bets
    BY <1>4 DEF Environment, Deposit, Receive, ExpireKey, CreateMarket, StartUpdate,
                StartSettle
<1>5. ASSUME Failure PROVE UNCHANGED bets
    BY <1>5 DEF Failure, RequestError, Republish, WorkerError, LoseChannel, BetError,
                AdminError, Crash, AnswerOnLostChannel, Restart
<1> QED
    BY <1>1, <1>2, <1>3, <1>4, <1>5 DEF Next, vars

\* A bet is announced as settled by one step of settle.
LEMMA NoteSteps ==
    ASSUME [Next]_vars
    PROVE  UNCHANGED notes \/ \E a \in Admin : NotifySettled(a)
<1>1. ASSUME NEW q \in Request, PlaceBet(q) PROVE UNCHANGED notes
    BY <1>1 DEF PlaceBet, CacheGet, LookupBet, AssertMarketOpen, DebitFind,
                DebitPost, InsertBet, CacheSet, Publish, Confirm
<1>2. ASSUME NEW w \in Worker, HandleMessage(w) PROVE UNCHANGED notes
    BY <1>2 DEF HandleMessage, Deliver, ReadStatus, UpdateStatus, CheckTerminal, Answer
<1>3. ASSUME NEW a \in Admin, Administer(a) PROVE UNCHANGED notes \/ NotifySettled(a)
    BY <1>3 DEF Administer, SaveStatus, FindAccepted, PickBet, CreditFind, CreditPost,
                CloseBet, MarkSettled, Announce
<1>4. ASSUME Environment PROVE UNCHANGED notes
    BY <1>4 DEF Environment, Deposit, Receive, ExpireKey, CreateMarket, StartUpdate,
                StartSettle
<1>5. ASSUME Failure PROVE UNCHANGED notes
    BY <1>5 DEF Failure, RequestError, Republish, WorkerError, LoseChannel, BetError,
                AdminError, Crash, AnswerOnLostChannel, Restart
<1> QED
    BY <1>1, <1>2, <1>3, <1>4, <1>5 DEF Next, vars

\* What can happen to the handlers of one kind.
LEMMA ReqSteps ==
    ASSUME [Next]_vars
    PROVE  \/ UNCHANGED req \/ Restart
           \/ \E q \in Request : \/ PlaceBet(q) \/ Return(q)
                                 \/ \E b \in Bet : Receive(q, b)
<1>1. ASSUME NEW w \in Worker, HandleMessage(w) PROVE UNCHANGED req
    BY <1>1 DEF HandleMessage, Deliver, ReadStatus, UpdateStatus, CheckTerminal, Answer
<1>2. ASSUME NEW a \in Admin, Administer(a) PROVE UNCHANGED req
    BY <1>2 DEF Administer, SaveStatus, FindAccepted, PickBet, CreditFind, CreditPost,
                CloseBet, NotifySettled, MarkSettled, Announce
<1>3. ASSUME Environment
      PROVE  UNCHANGED req \/ \E q \in Request, b \in Bet : Receive(q, b)
    BY <1>3 DEF Environment, Deposit, ExpireKey, CreateMarket, StartUpdate,
                StartSettle, handlers
<1>4. ASSUME Failure
      PROVE  UNCHANGED req \/ Restart \/ \E q \in Request : Return(q)
    BY <1>4 DEF Failure, RequestError, Republish, WorkerError, LoseChannel, BetError,
                AdminError, Crash, AnswerOnLostChannel, handlers
<1> QED
    BY <1>1, <1>2, <1>3, <1>4 DEF Next, vars, handlers

LEMMA WorkerSteps ==
    ASSUME [Next]_vars
    PROVE  \/ UNCHANGED worker \/ Restart
           \/ \E w \in Worker : HandleMessage(w) \/ WorkerError(w) \/ LoseChannel(w)
<1>1. ASSUME NEW q \in Request, PlaceBet(q) PROVE UNCHANGED worker
    BY <1>1 DEF PlaceBet, CacheGet, LookupBet, AssertMarketOpen, DebitFind,
                DebitPost, InsertBet, CacheSet, Publish, Confirm
<1>2. ASSUME NEW a \in Admin, Administer(a) PROVE UNCHANGED worker
    BY <1>2 DEF Administer, SaveStatus, FindAccepted, PickBet, CreditFind, CreditPost,
                CloseBet, NotifySettled, MarkSettled, Announce
<1>3. ASSUME Environment PROVE UNCHANGED worker
    BY <1>3 DEF Environment, Deposit, Receive, ExpireKey, CreateMarket, StartUpdate,
                StartSettle, handlers
<1>4. ASSUME Failure
      PROVE  \/ UNCHANGED worker \/ Restart
             \/ \E w \in Worker : WorkerError(w) \/ LoseChannel(w)
    BY <1>4 DEF Failure, RequestError, Republish, BetError, AdminError, Crash,
                AnswerOnLostChannel, handlers
<1> QED
    BY <1>1, <1>2, <1>3, <1>4 DEF Next, vars, handlers

LEMMA AdminStepsOfNext ==
    ASSUME [Next]_vars
    PROVE  \/ UNCHANGED admin \/ Restart
           \/ \E a \in Admin :
                  \/ Administer(a) \/ Finish(a) \/ (BackToLoop(a) /\ admin[a] # Idle)
                  \/ \E m \in Market, pc \in {"save", "find", "announce"} :
                     \E arg \in {"CREATED", "OPEN", "SUSPENDED"} \cup MarketResult :
                         Begin(a, pc, m, arg)
<1>1. ASSUME NEW q \in Request, PlaceBet(q) PROVE UNCHANGED admin
    BY <1>1 DEF PlaceBet, CacheGet, LookupBet, AssertMarketOpen, DebitFind,
                DebitPost, InsertBet, CacheSet, Publish, Confirm
<1>2. ASSUME NEW w \in Worker, HandleMessage(w) PROVE UNCHANGED admin
    BY <1>2 DEF HandleMessage, Deliver, ReadStatus, UpdateStatus, CheckTerminal, Answer
<1>3. ASSUME Environment
      PROVE  UNCHANGED admin \/ \E a \in Admin, m \in Market :
                 \E pc \in {"save", "find", "announce"} :
                 \E arg \in {"CREATED", "OPEN", "SUSPENDED"} \cup MarketResult :
                     Begin(a, pc, m, arg)
    <2>1. ASSUME NEW a \in Admin, NEW m \in Market, CreateMarket(a, m)
          PROVE  Begin(a, "announce", m, "CREATED")
        BY <2>1 DEF CreateMarket
    <2>2. ASSUME NEW a \in Admin, NEW m \in Market, NEW status \in {"OPEN", "SUSPENDED"},
                 StartUpdate(a, m, status)
          PROVE  Begin(a, "save", m, status)
        BY <2>2 DEF StartUpdate
    <2>3. ASSUME NEW a \in Admin, NEW m \in Market, NEW result \in MarketResult,
                 StartSettle(a, m, result)
          PROVE  Begin(a, "find", m, result)
        BY <2>3 DEF StartSettle
    <2>4. CASE \/ \E u \in User, cents \in DepositCents, ref \in Ref \ Bet :
                      Deposit(u, cents, ref)
               \/ \E q \in Request, b \in Bet : Receive(q, b)
               \/ \E b \in Bet : ExpireKey(b)
        BY <2>4 DEF Deposit, Receive, ExpireKey, handlers
    <2>5. CASE \E a \in Admin, m \in Market :
                   \/ CreateMarket(a, m)
                   \/ \E status \in {"OPEN", "SUSPENDED"} : StartUpdate(a, m, status)
                   \/ \E result \in MarketResult : StartSettle(a, m, result)
        <3> DEFINE Args == {"CREATED", "OPEN", "SUSPENDED"} \cup MarketResult
        <3>1. PICK a \in Admin, m \in Market :
                   \/ CreateMarket(a, m)
                   \/ \E status \in {"OPEN", "SUSPENDED"} : StartUpdate(a, m, status)
                   \/ \E result \in MarketResult : StartSettle(a, m, result)
            BY <2>5
        <3>2. \E pc \in {"save", "find", "announce"}, arg \in Args : Begin(a, pc, m, arg)
            <4>1. "CREATED" \in Args /\ {"OPEN", "SUSPENDED"} \subseteq Args
                  /\ MarketResult \subseteq Args
                OBVIOUS
            <4> HIDE DEF Args
            <4> QED
                BY <2>1, <2>2, <2>3, <3>1, <4>1
        <3> QED
            BY <3>2
    <2> QED
        BY <1>3, <2>4, <2>5 DEF Environment
<1>4. ASSUME Failure
      PROVE  \/ UNCHANGED admin \/ Restart
             \/ \E a \in Admin : Finish(a) \/ (BackToLoop(a) /\ admin[a] # Idle)
    BY <1>4 DEF Failure, RequestError, Republish, WorkerError, LoseChannel, BetError,
                AdminError, Crash, AnswerOnLostChannel, handlers
<1> QED
    BY <1>1, <1>2, <1>3, <1>4 DEF Next, vars, handlers

-----------------------------------------------------------------------------
(* Every step keeps the invariant.                                         *)

\* What is charged, paid, recorded or taken stays so.
Grows ==
    \A b \in Bet :
        /\ Charged(b) => Charged(b)'
        /\ Paid(b) => Paid(b)'
        /\ Taken(b) => Taken(b)'
        /\ bets[b] # "ABSENT" => bets'[b] # "ABSENT"

\* A posting adds a row; if the row is exact, all rows still are.
LEMMA PostGrows ==
    ASSUME LedgerTypeOK, RowsExact,
           NEW u \in User, NEW cents \in Cents, NEW type \in TransactionType,
           NEW amount \in Amount, NEW ref \in Ref,
           CanPost(cents, type, amount), PostFrom(u, cents, type, amount, ref),
           \A b \in Bet : (u = Slip[b].user /\ ref = b) =>
               /\ type = "DEBIT" => amount = Slip[b].stake
               /\ type = "CREDIT" => amount = Payout(b)
    PROVE  /\ RowsExact'
           /\ \A v \in User : \A t, r : Posted(v, t, r) => Posted(v, t, r)'
           /\ \A v \in User : \A t, r : Posted(v, t, r)' =>
                  (Posted(v, t, r) \/ (v = u /\ t = type /\ r = ref))
<1> DEFINE n == Len(ledger[u])
<1>1. /\ ledger'[u] \in Seq(Row) /\ Len(ledger'[u]) = n + 1
      /\ \A i \in 1 .. n : ledger'[u][i] = ledger[u][i]
      /\ ledger'[u][n + 1].type = type /\ ledger'[u][n + 1].ref = ref
      /\ ledger'[u][n + 1].amount = amount
      /\ \A v \in User \ {u} : ledger'[v] = ledger[v]
      /\ \A v \in User : \A t, r : Posted(v, t, r)' =>
                  (Posted(v, t, r) \/ (v = u /\ t = type /\ r = ref))
    BY PostedAfter
<1>2. /\ n \in Nat /\ DOMAIN ledger[u] = 1 .. n
      /\ DOMAIN ledger'[u] = 1 .. n + 1
    BY <1>1 DEF LedgerTypeOK
<1>3. ASSUME NEW v \in User, NEW t, NEW r, Posted(v, t, r) PROVE Posted(v, t, r)'
    <2>1. PICK i \in DOMAIN ledger[v] : ledger[v][i].type = t /\ ledger[v][i].ref = r
        BY <1>3 DEF Posted
    <2>2. i \in DOMAIN ledger'[v] /\ ledger'[v][i] = ledger[v][i]
        BY <1>1, <1>2, <2>1
    <2> QED
        BY <2>1, <2>2 DEF Posted
<1>4. ASSUME NEW b \in Bet, NEW t \in {"DEBIT", "CREDIT"},
             NEW i \in DOMAIN ledger'[Slip[b].user],
             ledger'[Slip[b].user][i].type = t, ledger'[Slip[b].user][i].ref = b
      PROVE  ledger'[Slip[b].user][i].amount =
                 (IF t = "DEBIT" THEN Slip[b].stake ELSE Payout(b))
    <2>0. \A j \in DOMAIN ledger[Slip[b].user] :
              (ledger[Slip[b].user][j].type = t /\ ledger[Slip[b].user][j].ref = b) =>
                  ledger[Slip[b].user][j].amount =
                      (IF t = "DEBIT" THEN Slip[b].stake ELSE Payout(b))
        BY DEF RowsExact, Entries
    <2>1. Slip[b].user \in User
        BY SlipType
    <2>2. CASE Slip[b].user # u
        BY <1>1, <1>4, <2>0, <2>1, <2>2
    <2>3. CASE Slip[b].user = u /\ i \in 1 .. n
        BY <1>1, <1>2, <1>4, <2>0, <2>3
    <2>4. CASE Slip[b].user = u /\ i = n + 1
        BY <1>1, <1>4, <2>4
    <2> QED
        BY <1>2, <2>2, <2>3, <2>4
<1>5. RowsExact'
    BY <1>4 DEF RowsExact, Entries
<1> QED
    BY <1>1, <1>3, <1>5

LEMMA RowsStayExact ==
    ASSUME TypeOK, MoneyInv, [Next]_vars
    PROVE  /\ RowsExact'
           /\ \A b \in Bet : Charged(b) => Charged(b)'
           /\ \A b \in Bet : Paid(b) => Paid(b)'
           /\ \A b \in Bet : Charged(b)' =>
                  Charged(b) \/ \E q \in Request : DebitPost(q) /\ CanDebit(b) /\ req[q].bet = b
           /\ \A b \in Bet : Paid(b)' =>
                  Paid(b) \/ \E a \in Admin : CreditPost(a) /\ CanCredit(b) /\ admin[a].bet = b
<1>0. LedgerTypeOK /\ DataType /\ ReqType /\ AdminType /\ AdminSteps /\ RowsExact
    BY TypeParts DEF MoneyInv
<1>1. \A b \in Bet : Slip[b].user \in User /\ balance[Slip[b].user] \in Cents
                     /\ Slip[b].stake \in Amount /\ b \in Ref
    BY <1>0, SlipType DEF LedgerTypeOK
<1>2. CASE UNCHANGED money
    BY <1>0, <1>2 DEF money, RowsExact, Entries, Charged, Paid, Posted
<1>3. ASSUME NEW q \in Request, DebitPost(q), ~ UNCHANGED money
      PROVE  /\ RowsExact'
             /\ \A b \in Bet : (Charged(b) => Charged(b)') /\ (Paid(b) => Paid(b)')
             /\ \A b \in Bet : Charged(b)' =>
                    Charged(b) \/ (DebitPost(q) /\ CanDebit(b) /\ req[q].bet = b)
             /\ \A b \in Bet : Paid(b)' => Paid(b)
    <2>1. req[q].bet \in Bet /\ CanDebit(req[q].bet) /\ PostDebit(req[q].bet)
        BY <1>0, <1>3, PlacedType DEF DebitPost, Placed
    <2>2. "DEBIT" \in TransactionType /\ "DEBIT" # "CREDIT"
        BY DEF TransactionType
    <2>3. /\ RowsExact'
          /\ \A v \in User : \A t, r : Posted(v, t, r) => Posted(v, t, r)'
          /\ \A v \in User : \A t, r : Posted(v, t, r)' =>
                 (Posted(v, t, r) \/ (t = "DEBIT" /\ r = req[q].bet))
        BY <1>0, <1>1, <2>1, <2>2, PostGrows DEF CanDebit, PostDebit
    <2> QED
        BY <1>1, <1>3, <2>1, <2>2, <2>3 DEF Charged, Paid
<1>4. ASSUME NEW a \in Admin, CreditPost(a), ~ UNCHANGED money
      PROVE  /\ RowsExact'
             /\ \A b \in Bet : (Charged(b) => Charged(b)') /\ (Paid(b) => Paid(b)')
             /\ \A b \in Bet : Charged(b)' => Charged(b)
             /\ \A b \in Bet : Paid(b)' =>
                    Paid(b) \/ (CreditPost(a) /\ CanCredit(b) /\ admin[a].bet = b)
    <2>1. admin[a].bet \in Bet /\ CanCredit(admin[a].bet) /\ PostCredit(admin[a].bet)
        BY <1>0, <1>4 DEF CreditPost, Managing, AdminSteps
    <2>2. "CREDIT" \in TransactionType /\ "DEBIT" # "CREDIT"
        BY DEF TransactionType
    <2>3. Payout(admin[a].bet) \in Amount
        BY <1>1, <2>1, PayoutPositive, MaxCentsAssumption
           DEF CanCredit, CanPost, NewBalance, Cents, Amount
    <2>4. /\ RowsExact'
          /\ \A v \in User : \A t, r : Posted(v, t, r) => Posted(v, t, r)'
          /\ \A v \in User : \A t, r : Posted(v, t, r)' =>
                 (Posted(v, t, r) \/ (t = "CREDIT" /\ r = admin[a].bet))
        BY <1>0, <1>1, <2>1, <2>2, <2>3, PostGrows DEF CanCredit, PostCredit
    <2> QED
        BY <1>1, <1>4, <2>1, <2>2, <2>4 DEF Charged, Paid
<1>5. ASSUME NEW u \in User, NEW cents \in DepositCents, NEW ref \in Ref \ Bet,
             Deposit(u, cents, ref)
      PROVE  /\ RowsExact'
             /\ \A b \in Bet : Charged(b)' <=> Charged(b)
             /\ \A b \in Bet : Paid(b)' <=> Paid(b)
    <2>1. /\ "DEPOSIT" \in TransactionType /\ "DEPOSIT" # "DEBIT" /\ "DEPOSIT" # "CREDIT"
          /\ cents \in Amount /\ balance[u] \in Cents
        BY <1>0, DepositAssumption DEF TransactionType, LedgerTypeOK
    <2>2. /\ RowsExact'
          /\ \A v \in User : \A t, r : Posted(v, t, r) => Posted(v, t, r)'
          /\ \A v \in User : \A t, r : Posted(v, t, r)' =>
                 (Posted(v, t, r) \/ t = "DEPOSIT")
        BY <1>0, <1>5, <2>1, PostGrows DEF Deposit
    <2> QED
        BY <1>1, <2>1, <2>2 DEF Charged, Paid
<1> QED
    BY <1>2, <1>3, <1>4, <1>5, LedgerSteps

\* A posting posts.
LEMMA DebitCharges ==
    ASSUME LedgerTypeOK, NEW b \in Bet, CanDebit(b), PostDebit(b)
    PROVE  Charged(b)'
<1> DEFINE u == Slip[b].user
           n == Len(ledger[u])
<1>1. /\ u \in User /\ balance[u] \in Cents /\ Slip[b].stake \in Amount /\ b \in Ref
      /\ "DEBIT" \in TransactionType
    BY SlipType DEF LedgerTypeOK, TransactionType
<1>2. /\ CanPost(balance[u], "DEBIT", Slip[b].stake)
      /\ PostFrom(u, balance[u], "DEBIT", Slip[b].stake, b)
    BY DEF CanDebit, PostDebit
<1> HIDE DEF u
<1>3. /\ ledger'[u] \in Seq(Row) /\ Len(ledger'[u]) = n + 1
      /\ ledger'[u][n + 1].type = "DEBIT" /\ ledger'[u][n + 1].ref = b
    BY <1>1, <1>2, PostedAfter
<1>4. n + 1 \in DOMAIN ledger'[u]
    BY <1>1, <1>3 DEF LedgerTypeOK
<1> QED
    BY <1>3, <1>4 DEF Charged, Posted, u

LEMMA CreditPays ==
    ASSUME LedgerTypeOK, NEW b \in Bet, CanCredit(b), PostCredit(b)
    PROVE  Paid(b)'
<1> DEFINE u == Slip[b].user
           n == Len(ledger[u])
<1>1. u \in User /\ balance[u] \in Cents /\ b \in Ref /\ "CREDIT" \in TransactionType
    BY SlipType DEF LedgerTypeOK, TransactionType
<1>2. Payout(b) \in Amount
    BY <1>1, PayoutPositive, MaxCentsAssumption
       DEF CanCredit, CanPost, NewBalance, Cents, Amount
<1>3. /\ ledger'[u] \in Seq(Row) /\ Len(ledger'[u]) = n + 1
      /\ ledger'[u][n + 1].type = "CREDIT" /\ ledger'[u][n + 1].ref = b
    BY <1>1, <1>2, PostedAfter DEF CanCredit, PostCredit
<1>4. n + 1 \in DOMAIN ledger'[u]
    BY <1>1, <1>3 DEF LedgerTypeOK
<1> QED
    BY <1>3, <1>4 DEF Paid, Posted

LEMMA StepGrows == ASSUME TypeOK, MoneyInv, [Next]_vars PROVE Grows
<1>0. ReqType /\ WorkerType /\ AdminType /\ AdminSteps /\ DataType
      /\ WorkerKnows /\ AdminKnows
    BY TypeParts DEF MoneyInv
<1>1. \A b \in Bet : /\ bets[b] # "ABSENT" => bets'[b] # "ABSENT"
                     /\ Taken(b) => Taken(b)'
    <2>1. CASE UNCHANGED bets
        BY <2>1 DEF Taken
    <2>2. ASSUME NEW q \in Request, InsertBet(q)
          PROVE  \A b \in Bet : bets'[b] = bets[b] \/ (bets[b] = "ABSENT" /\ bets'[b] = "PENDING")
        BY <1>0, <2>2 DEF InsertBet, DataType
    <2>3. ASSUME NEW w \in Worker, UpdateStatus(w)
          PROVE  \A b \in Bet : bets'[b] = bets[b] \/ bets'[b] = "ACCEPTED"
        BY <1>0, <2>3 DEF UpdateStatus, DataType
    <2>4. ASSUME NEW a \in Admin, CloseBet(a)
          PROVE  \A b \in Bet : bets'[b] = bets[b] \/ bets'[b] = "SETTLED"
        BY <1>0, <2>4 DEF CloseBet, DataType
    <2> QED
        BY <2>1, <2>2, <2>3, <2>4, BetSteps DEF Taken
<1> QED
    BY <1>1, RowsStayExact DEF Grows

LEMMA BookedStays == ASSUME TypeOK, MoneyInv, [Next]_vars PROVE Booked'
<1>0. /\ ReqType /\ WorkerType /\ AdminType /\ AdminSteps /\ DataType
      /\ Booked /\ ReqKnows /\ WorkerKnows /\ AdminKnows
    BY TypeParts DEF MoneyInv
<1>1. Grows
    BY StepGrows
<1>2. ASSUME NEW b \in Bet, bets'[b] # "ABSENT" PROVE Charged(b)'
    <2>1. CASE bets[b] # "ABSENT"
        BY <1>0, <1>1, <2>1 DEF Booked, Grows
    <2>2. CASE bets[b] = "ABSENT"
        <3>1. ASSUME NEW q \in Request, InsertBet(q) PROVE Charged(b)
            <4>1. req[q].bet = b
                BY <1>0, <1>2, <2>2, <3>1 DEF InsertBet, DataType
            <4> QED
                BY <1>0, <3>1, <4>1 DEF InsertBet, Placed, ReqKnows
        <3>2. ASSUME NEW w \in Worker, UpdateStatus(w) PROVE FALSE
            <4>1. worker[w].bet = b
                BY <1>0, <1>2, <2>2, <3>2 DEF UpdateStatus, DataType
            <4> QED
                BY <1>0, <2>2, <3>2, <4>1 DEF UpdateStatus, Working, WorkerKnows
        <3>3. ASSUME NEW a \in Admin, CloseBet(a) PROVE FALSE
            <4>1. admin[a].bet = b
                BY <1>0, <1>2, <2>2, <3>3 DEF CloseBet, DataType
            <4> QED
                BY <1>0, <2>2, <3>3, <4>1 DEF CloseBet, Managing, AdminKnows, Taken
        <3> QED
            BY <1>1, <1>2, <2>2, <3>1, <3>2, <3>3, BetSteps DEF Grows
    <2> QED
        BY <2>1, <2>2
<1>3. ASSUME NEW b \in Bet, Paid(b)' PROVE Taken(b)'
    <2>1. CASE Paid(b)
        BY <1>0, <1>1, <2>1 DEF Booked, Grows
    <2>2. ASSUME NEW a \in Admin, CreditPost(a), admin[a].bet = b PROVE Taken(b)
        BY <1>0, <2>2 DEF CreditPost, Managing, AdminKnows
    <2> QED
        BY <1>1, <1>3, <2>1, <2>2, RowsStayExact DEF Grows
<1>4. ASSUME NEW b \in Bet, [bet |-> b, result |-> "WIN"] \in notes' PROVE Paid(b)'
    <2>1. CASE [bet |-> b, result |-> "WIN"] \in notes
        BY <1>0, <1>1, <2>1 DEF Booked, Grows
    <2>2. CASE [bet |-> b, result |-> "WIN"] \notin notes
        <3>1. PICK a \in Admin : NotifySettled(a)
            BY <1>4, <2>2, NoteSteps
        <3>2. admin[a].bet = b /\ admin[a].arg = "WIN"
            BY <1>4, <2>2, <3>1 DEF NotifySettled
        <3>3. Paid(b)
            BY <1>0, <3>1, <3>2 DEF NotifySettled, Managing, AdminKnows
        <3> QED
            BY <1>1, <3>3 DEF Grows
    <2> QED
        BY <2>1, <2>2
<1> QED
    BY <1>2, <1>3, <1>4 DEF Booked

LEMMA ReqKnowsStays == ASSUME TypeOK, MoneyInv, [Next]_vars PROVE ReqKnows'
<1>0. ReqType /\ ReqKnows /\ LedgerTypeOK
    BY TypeParts DEF MoneyInv
<1>1. Grows
    BY StepGrows
<1> SUFFICES ASSUME NEW p \in Request, req'[p] # Idle, req'[p].pc = "insert",
                    NEW c, c = req'[p].bet
             PROVE  Charged(c)'
    BY DEF ReqKnows
<1>2. CASE req'[p] = req[p]
    <2>1. Charged(c) /\ c \in Bet
        BY <1>0, <1>2, PlacedType DEF ReqKnows
    <2> QED
        BY <1>1, <2>1 DEF Grows
<1>3. CASE req'[p] # req[p]
    <2>1. ~Restart
        BY DEF Restart
    <2>2. PICK q \in Request : PlaceBet(q) \/ Return(q) \/ \E b \in Bet : Receive(q, b)
        BY <1>3, <2>1, ReqSteps
    <2>3. ~Return(q)
        BY <1>0, <1>3 DEF Return, ReqType
    <2>4. \A b \in Bet : ~Receive(q, b)
        BY <1>0, <1>3 DEF Receive, ReqType
    <2>5. PlaceBet(q) /\ req[q] # Idle /\ req[q].bet \in Bet
        BY <1>0, <2>2, <2>3, <2>4, PlacedType
           DEF PlaceBet, CacheGet, LookupBet, AssertMarketOpen, DebitFind, DebitPost,
               InsertBet, CacheSet, Publish, Confirm, Placed
    <2>6. \E pc \in PlaceStep : Proceed(q, pc)
        BY <2>3, <2>5 DEF PlaceBet, CacheGet, LookupBet, AssertMarketOpen, DebitFind,
               DebitPost, InsertBet, CacheSet, Publish, Confirm, PlaceStep
    <2>7. p = q /\ req'[q].bet = req[q].bet /\ req[q].bet = c /\ c \in Bet
        BY <1>0, <1>3, <2>5, <2>6, PlacedType DEF Proceed, ReqType, Placing
    <2>8. DebitFind(q) \/ DebitPost(q)
        BY <1>0, <2>3, <2>5, <2>6, <2>7, PlacedType
           DEF PlaceBet, CacheGet, LookupBet, AssertMarketOpen, InsertBet, CacheSet,
               Publish, Confirm, Proceed, ReqType, Placing
    <2>9. CASE DebitFind(q)
        <3>1. Charged(c)
            BY <1>0, <2>5, <2>7, <2>9, PlacedType
               DEF DebitFind, Charged, Proceed, ReqType, Placing
        <3> QED
            BY <1>1, <2>7, <3>1 DEF Grows
    <2>10. CASE DebitPost(q)
        <3>1. CanDebit(c) /\ PostDebit(c)
            BY <2>3, <2>7, <2>10 DEF DebitPost
        <3> QED
            BY <1>0, <2>7, <3>1, DebitCharges
    <2> QED
        BY <2>8, <2>9, <2>10
<1> QED
    BY <1>2, <1>3

LEMMA WorkerKnowsStays == ASSUME TypeOK, MoneyInv, [Next]_vars PROVE WorkerKnows'
<1>0. WorkerType /\ WorkerKnows
    BY TypeParts DEF MoneyInv
<1>1. Grows
    BY StepGrows
<1> SUFFICES ASSUME NEW v \in Worker, worker'[v] # Idle, worker'[v].pc = "update",
                    NEW b, b = worker'[v].bet
             PROVE  bets'[b] # "ABSENT"
    BY DEF WorkerKnows
<1>2. CASE worker[v] # Idle /\ worker[v].pc = "update" /\ worker[v].bet = b
    BY <1>0, <1>1, <1>2, WorkingType DEF WorkerKnows, Grows
<1>3. CASE ~(worker[v] # Idle /\ worker[v].pc = "update" /\ worker[v].bet = b)
    <2>1. PICK w \in Worker : HandleMessage(w) \/ WorkerError(w) \/ LoseChannel(w)
        BY <1>3, WorkerSteps DEF Restart
    <2>2. w = v
        BY <1>0, <1>3, <2>1
           DEF HandleMessage, Deliver, ReadStatus, UpdateStatus, CheckTerminal, Answer,
               WorkerError, LoseChannel, Continue, WorkerType
    <2>3. /\ ~LoseChannel(w) /\ ~Answer(w) /\ ~WorkerError(w) /\ ~UpdateStatus(w)
          /\ ~CheckTerminal(w) /\ \A c \in Bet : ~Deliver(w, c)
        <3>1. ~Answer(w) /\ \A c \in Bet : ~Deliver(w, c)
            BY <1>0, <2>2 DEF Answer, Deliver, WorkerType
        <3>2. ~LoseChannel(w)
            BY <1>0, <1>3, <2>2, WorkingType DEF LoseChannel, Holds, WorkerType, Accepting
        <3>3. ~WorkerError(w) /\ ~UpdateStatus(w) /\ ~CheckTerminal(w)
            BY <1>0, <2>2, WorkingType
               DEF WorkerError, UpdateStatus, CheckTerminal, Continue, Working,
                   WorkerType, Accepting
        <3> QED
            BY <3>1, <3>2, <3>3
    <2>4. ReadStatus(w)
        BY <2>1, <2>3 DEF HandleMessage
    <2>5. worker[w] # Idle /\ worker[w].bet = b
        BY <1>0, <2>2, <2>4, WorkingType DEF ReadStatus, Working, Continue, WorkerType, Accepting
    <2>6. bets[b] # "ABSENT"
        BY <1>0, <2>2, <2>4, <2>5, WorkingType
           DEF ReadStatus, Working, Continue, WorkerType, Accepting
    <2> QED
        BY <1>0, <1>1, <2>5, <2>6, WorkingType DEF Grows
<1> QED
    BY <1>2, <1>3

\* A call of the administration that its last step leaves as it was, or moves
\* within the bet it has in hand, still knows what it knew.
KnowsOf(call) ==
    call # Idle =>
        /\ \A b \in call.todo : Taken(b)
        /\ call.pc \in {"credit", "post", "close", "notify"} => Taken(call.bet)
        /\ call.pc \in {"close", "notify"} /\ call.arg = "WIN" => Paid(call.bet)

LEMMA AdminKnowsStays == ASSUME TypeOK, MoneyInv, [Next]_vars PROVE AdminKnows'
<1>0. /\ LedgerTypeOK /\ DataType /\ AdminType /\ AdminSteps /\ AdminKnows
    BY TypeParts DEF MoneyInv
<1>1. Grows
    BY StepGrows
<1> SUFFICES ASSUME NEW o \in Admin, NEW call, call = admin'[o] PROVE KnowsOf(call)'
    BY DEF AdminKnows, KnowsOf
<1>2. CASE call = admin[o]
    <2>1. KnowsOf(call)
        BY <1>0, <1>2 DEF AdminKnows, KnowsOf
    <2>2. call # Idle =>
              /\ call.todo \subseteq Bet
              /\ call.pc \in {"credit", "post", "close", "notify"} => call.bet \in Bet
        BY <1>0, <1>2, ManagingType DEF AdminSteps
    <2> QED
        BY <1>1, <2>1, <2>2 DEF KnowsOf, Grows
<1>3. ASSUME NEW a \in Admin, a = o, admin[a] # Idle, BackToLoop(a) PROVE KnowsOf(call)'
    <2>1. call.pc = "loop" /\ call.todo = admin[a].todo
        BY <1>0, <1>3, ManagingType DEF BackToLoop, AdminType, Administering
    <2>2. \A b \in admin[a].todo : Taken(b) /\ b \in Bet
        BY <1>0, <1>3, ManagingType DEF AdminKnows
    <2> QED
        BY <1>1, <2>1, <2>2 DEF KnowsOf, Grows
<1>4. ASSUME NEW a \in Admin, a = o, Finish(a) PROVE KnowsOf(call)'
    BY <1>0, <1>4 DEF Finish, AdminType, KnowsOf
<1>5. ASSUME NEW a \in Admin, a = o, NEW m, NEW arg,
             NEW pc \in {"save", "find", "announce"}, Begin(a, pc, m, arg)
      PROVE  KnowsOf(call)'
    BY <1>0, <1>5 DEF Begin, AdminType, KnowsOf
<1>6. ASSUME NEW a \in Admin, a = o, MoveOn(a, "announce"), admin[a] # Idle
      PROVE  KnowsOf(call)'
    <2>1. call.pc = "announce" /\ call.todo = admin[a].todo
        BY <1>0, <1>6, ManagingType DEF MoveOn, AdminType, Administering
    <2>2. \A b \in admin[a].todo : Taken(b) /\ b \in Bet
        BY <1>0, <1>6, ManagingType DEF AdminKnows
    <2> QED
        BY <1>1, <2>1, <2>2 DEF KnowsOf, Grows
<1>7. ASSUME NEW a \in Admin, a = o, Administer(a) PROVE KnowsOf(call)'
    <2> USE DEF Managing
    <2>0. /\ admin[a] # Idle
          /\ admin[a].pc \in {"credit", "post", "close", "notify"} =>
                 Taken(admin[a].bet) /\ admin[a].bet \in Bet
          /\ admin[a].pc \in {"close", "notify"} /\ admin[a].arg = "WIN" => Paid(admin[a].bet)
          /\ \A b \in admin[a].todo : Taken(b) /\ b \in Bet
          /\ admin[a] \in Administering
        <3>1. admin[a] # Idle
            BY <1>7 DEF Administer, SaveStatus, FindAccepted, PickBet, CreditFind,
                        CreditPost, CloseBet, NotifySettled, MarkSettled, Announce
        <3> QED
            BY <1>0, <3>1, ManagingType DEF AdminKnows, AdminSteps
    <2>1. CASE SaveStatus(a) \/ MarkSettled(a)
        BY <1>6, <1>7, <2>0, <2>1 DEF SaveStatus, MarkSettled
    <2>2. CASE Announce(a)
        BY <1>4, <1>7, <2>2 DEF Announce
    <2>3. CASE FindAccepted(a)
        <3>1. call.pc = "loop" /\ call.todo = LiveBets(admin[a].market)
            BY <1>0, <1>7, <2>0, <2>3 DEF FindAccepted, AdminType, Administering
        <3>2. \A b \in LiveBets(admin[a].market) : b \in Bet /\ Taken(b)
            BY DEF LiveBets, Taken
        <3> QED
            BY <1>1, <3>1, <3>2 DEF KnowsOf, Grows
    <2>4. CASE \E b \in Bet : PickBet(a, b)
        <3>1. PICK b \in Bet : PickBet(a, b)
            BY <2>4
        <3>2. /\ call.pc = IF admin[a].arg = "WIN" THEN "credit" ELSE "close"
              /\ call.todo = admin[a].todo \ {b} /\ call.bet = b
              /\ call.arg = admin[a].arg
            BY <1>0, <1>7, <2>0, <3>1 DEF PickBet, AdminType, Administering
        <3>3. Taken(b)
            BY <2>0, <3>1 DEF PickBet
        <3> QED
            BY <1>1, <2>0, <3>2, <3>3 DEF KnowsOf, Grows
    <2>5. CASE CreditFind(a)
        <3>1. PICK b \in Bet : b = admin[a].bet
            BY <2>0, <2>5 DEF CreditFind
        <3>2. \/ call.pc = "post"
              \/ call.pc = "close" /\ Paid(b)
            BY <1>0, <1>7, <2>0, <2>5, <3>1
               DEF CreditFind, MoveOn, AdminType, Administering, Paid
        <3>3. call.todo = admin[a].todo /\ call.bet = b
            BY <1>0, <1>7, <2>0, <2>5, <3>1
               DEF CreditFind, MoveOn, AdminType, Administering
        <3>4. Taken(b)
            BY <2>0, <2>5, <3>1 DEF CreditFind
        <3> QED
            BY <1>1, <2>0, <3>2, <3>3, <3>4 DEF KnowsOf, Grows
    <2>6. CASE CreditPost(a)
        <3>1. CASE CanCredit(admin[a].bet)
            <4>1. PICK b \in Bet : b = admin[a].bet
                BY <2>0, <2>6 DEF CreditPost
            <4>2. CanCredit(b) /\ PostCredit(b) /\ MoveOn(a, "close")
                BY <2>6, <3>1, <4>1 DEF CreditPost
            <4>3. Paid(b)'
                BY <1>0, <4>2, CreditPays
            <4>4. call.pc = "close" /\ call.todo = admin[a].todo /\ call.bet = b
                BY <1>0, <1>7, <2>0, <4>1, <4>2 DEF MoveOn, AdminType, Administering
            <4>5. Taken(b)
                BY <2>0, <2>6, <4>1 DEF CreditPost
            <4> QED
                BY <1>1, <2>0, <4>3, <4>4, <4>5 DEF KnowsOf, Grows
        <3>2. CASE ~CanCredit(admin[a].bet)
            BY <1>3, <1>7, <2>0, <2>6, <3>2 DEF CreditPost
        <3> QED
            BY <3>1, <3>2
    <2>7. CASE CloseBet(a)
        <3>1. PICK b \in Bet : b = admin[a].bet
            BY <2>0, <2>7 DEF CloseBet
        <3>2. /\ call.pc = "notify" /\ call.todo = admin[a].todo
              /\ call.bet = b /\ call.arg = admin[a].arg
            BY <1>0, <1>7, <2>0, <2>7, <3>1 DEF CloseBet, MoveOn, AdminType, Administering
        <3> QED
            BY <1>1, <2>0, <2>7, <3>1, <3>2 DEF CloseBet, KnowsOf, Grows
    <2>8. CASE NotifySettled(a)
        BY <1>3, <1>7, <2>0, <2>8 DEF NotifySettled
    <2> QED
        BY <1>7, <2>1, <2>2, <2>3, <2>4, <2>5, <2>6, <2>7, <2>8 DEF Administer
<1>8. CASE Restart
    BY <1>8 DEF Restart, KnowsOf
<1>9. CASE call # admin[o] /\ ~Restart
    <2>1. PICK a \in Admin :
              \/ Administer(a) \/ Finish(a) \/ (BackToLoop(a) /\ admin[a] # Idle)
              \/ \E m \in Market, pc \in {"save", "find", "announce"} :
                 \E arg \in {"CREATED", "OPEN", "SUSPENDED"} \cup MarketResult :
                     Begin(a, pc, m, arg)
        BY <1>9, AdminStepsOfNext
    <2>2. a = o
        BY <1>0, <1>9, <2>1
           DEF Administer, SaveStatus, FindAccepted, PickBet, CreditFind, CreditPost,
               CloseBet, NotifySettled, MarkSettled, Announce, MoveOn, Finish,
               BackToLoop, Begin, AdminType
    <2> QED
        BY <1>3, <1>4, <1>5, <1>7, <2>1, <2>2
<1> QED
    BY <1>2, <1>8, <1>9

\* No bet is on the books without its own stake having been taken, no user is
\* told of a win that was not credited in full, and no payout precedes
\* acceptance: for any number of handlers, whatever overlaps or fails.
LEMMA MoneyIsRight == Spec => []MoneyInv
<1>1. TypeOK /\ MoneyInv /\ [Next]_vars => MoneyInv'
    BY RowsStayExact, BookedStays, ReqKnowsStays, WorkerKnowsStays, AdminKnowsStays
       DEF MoneyInv
<1> QED
    BY <1>1, MoneyInit, FlowTypeCorrect, PTL DEF Spec

\* placeBet takes the stake before it records the bet, also on a retry.
THEOREM FlowFundedBets == Spec => []FundedBets
    BY MoneyIsRight, MoneyImplies, PTL

\* A BET_SETTLED notification of a win follows the credit of the whole payout.
THEOREM FlowWinNotificationPaid == Spec => []WinNotificationPaid
    BY MoneyIsRight, MoneyImplies, PTL

\* Only a bet that the worker has accepted is ever paid, and it stays accepted
\* or settled from then on.
THEOREM FlowPayoutsFollowAcceptance == Spec => []PayoutsFollowAcceptance
    BY MoneyIsRight, MoneyImplies, PTL

-----------------------------------------------------------------------------
(* Once only.                                                              *)

OnceIn(v, t, r) ==
    \A i, j \in DOMAIN ledger[v] :
        (/\ ledger[v][i].type = t /\ ledger[v][i].ref = r
         /\ ledger[v][j].type = t /\ ledger[v][j].ref = r) => i = j

\* A posting repeats nothing unless it is posted already.
LEMMA PostKeepsOnce ==
    ASSUME LedgerTypeOK,
           NEW u \in User, NEW cents \in Cents, NEW type \in TransactionType,
           NEW amount \in Amount, NEW ref \in Ref,
           CanPost(cents, type, amount), PostFrom(u, cents, type, amount, ref),
           NEW v \in User, NEW t, NEW r, OnceIn(v, t, r),
           (v = u /\ t = type /\ r = ref) => ~Posted(v, t, r)
    PROVE  OnceIn(v, t, r)'
<1> DEFINE n == Len(ledger[u])
<1>1. /\ ledger'[u] \in Seq(Row) /\ Len(ledger'[u]) = n + 1
      /\ \A i \in 1 .. n : ledger'[u][i] = ledger[u][i]
      /\ ledger'[u][n + 1].type = type /\ ledger'[u][n + 1].ref = ref
      /\ \A w \in User \ {u} : ledger'[w] = ledger[w]
    BY PostedAfter
<1>2. n \in Nat /\ DOMAIN ledger[u] = 1 .. n /\ DOMAIN ledger'[u] = 1 .. n + 1
    BY <1>1 DEF LedgerTypeOK
<1>3. CASE v # u
    BY <1>1, <1>3 DEF OnceIn
<1>4. CASE v = u /\ t = type /\ r = ref
    <2>1. \A i \in 1 .. n : ~(ledger'[u][i].type = t /\ ledger'[u][i].ref = r)
        BY <1>1, <1>2, <1>4 DEF Posted
    <2> QED
        BY <1>2, <1>4, <2>1 DEF OnceIn
<1>5. CASE v = u /\ ~(t = type /\ r = ref)
    <2>1. \A i \in 1 .. n + 1 : (ledger'[u][i].type = t /\ ledger'[u][i].ref = r) => i \in 1 .. n
        BY <1>1, <1>2, <1>5
    <2>2. ASSUME NEW i \in 1 .. n + 1, NEW j \in 1 .. n + 1,
                 ledger'[u][i].type = t, ledger'[u][i].ref = r,
                 ledger'[u][j].type = t, ledger'[u][j].ref = r
          PROVE  i = j
        <3>1. i \in 1 .. n /\ j \in 1 .. n
            BY <2>1, <2>2
        <3>2. ledger'[u][i] = ledger[u][i] /\ ledger'[u][j] = ledger[u][j]
            BY <1>1, <3>1
        <3> QED
            BY <1>2, <1>5, <2>2, <3>1, <3>2 DEF OnceIn
    <2> QED
        BY <1>2, <1>5, <2>2 DEF OnceIn
<1> QED
    BY <1>3, <1>4, <1>5

\* Requests for a bet in Unique are alone, one that is about to post the stake
\* has found no posting, and there is at most one.
Alone ==
    \A p, q \in Request :
        (/\ req[p] # Idle /\ req[q] # Idle
         /\ req[p].bet = req[q].bet /\ req[p].bet \in Unique) => p = q
PostsFresh ==
    \A q \in Request :
        (req[q] # Idle /\ req[q].pc = "post" /\ req[q].bet \in Unique) =>
            ~Charged(req[q].bet)
ChargedOnce == \A b \in UniqueBet : OnceIn(Slip[b].user, "DEBIT", b)
ChargeInv == Alone /\ PostsFresh /\ ChargedOnce

LEMMA ChargeInit == Init => ChargeInv
<1> SUFFICES ASSUME Init PROVE ChargeInv
    OBVIOUS
<1>1. \A u \in User : ledger[u] = << >>
    BY DEF Init, LedgerInit
<1>2. DOMAIN << >> = {}
    OBVIOUS
<1>3. ChargedOnce
    BY <1>1, <1>2, SlipType DEF ChargedOnce, OnceIn, UniqueBet
<1> QED
    BY <1>3 DEF Init, ChargeInv, Alone, PostsFresh

\* How a request's step changes it.
LEMMA ReqEffect ==
    ASSUME TypeOK, [Next]_vars
    PROVE  \/ UNCHANGED req
           \/ \A q \in Request : req'[q] = Idle
           \/ \E q \in Request :
                  /\ \A p \in Request \ {q} : req'[p] = req[p]
                  /\ \/ req'[q] = Idle
                     \/ /\ req[q] # Idle /\ PlaceBet(q)
                        /\ req'[q].bet = req[q].bet
                        /\ req'[q].pc = "post" =>
                               ~Posted(Slip[req[q].bet].user, "DEBIT", req[q].bet)
                               /\ DebitFind(q)
                     \/ \E b \in Bet : Receive(q, b) /\ req'[q].bet = b /\ req'[q].pc = "get"
<1>0. ReqType
    BY TypeParts
<1>1. CASE Restart
    BY <1>1 DEF Restart
<1>2. ASSUME NEW q \in Request, Return(q)
      PROVE  req'[q] = Idle /\ \A p \in Request \ {q} : req'[p] = req[p]
    BY <1>0, <1>2 DEF Return, ReqType
<1>3. ASSUME NEW q \in Request, NEW b \in Bet, Receive(q, b)
      PROVE  /\ \A p \in Request \ {q} : req'[p] = req[p]
             /\ req'[q].bet = b /\ req'[q].pc = "get"
    BY <1>0, <1>3 DEF Receive, ReqType
<1>4. ASSUME NEW q \in Request, PlaceBet(q), ~Return(q)
      PROVE  /\ \A p \in Request \ {q} : req'[p] = req[p]
             /\ req[q] # Idle /\ req'[q].bet = req[q].bet
             /\ req'[q].pc = "post" =>
                    ~Posted(Slip[req[q].bet].user, "DEBIT", req[q].bet) /\ DebitFind(q)
    <2>1. PICK pc \in PlaceStep :
              /\ Proceed(q, pc) /\ req[q] # Idle
              /\ pc = "post" => DebitFind(q)
        BY <1>4 DEF PlaceBet, CacheGet, LookupBet, AssertMarketOpen, DebitFind,
               DebitPost, InsertBet, CacheSet, Publish, Confirm, PlaceStep, Placed
    <2>2. /\ req'[q].pc = pc /\ req'[q].bet = req[q].bet
          /\ \A p \in Request \ {q} : req'[p] = req[p]
        BY <1>0, <2>1, PlacedType DEF Proceed, ReqType, Placing
    <2>3. pc = "post" => ~Posted(Slip[req[q].bet].user, "DEBIT", req[q].bet)
        BY <1>0, <2>1, <2>2, PlacedType DEF DebitFind, Proceed, ReqType, Placing
    <2> QED
        BY <2>1, <2>2, <2>3
<1> QED
    BY <1>1, <1>2, <1>3, <1>4, ReqSteps

LEMMA AloneStays == ASSUME TypeOK, Alone, [Next]_vars PROVE Alone'
<1> SUFFICES ASSUME NEW p \in Request, NEW r \in Request,
                    req'[p] # Idle, req'[r] # Idle,
                    req'[p].bet = req'[r].bet, req'[p].bet \in Unique
             PROVE  p = r
    BY DEF Alone
<1>1. CASE UNCHANGED req
    BY <1>1 DEF Alone
<1>2. CASE ~UNCHANGED req
    <2>1. PICK q \in Request :
              /\ \A o \in Request \ {q} : req'[o] = req[o]
              /\ \/ req'[q] = Idle
                 \/ req[q] # Idle /\ req'[q].bet = req[q].bet
                 \/ \E b \in Bet : Receive(q, b) /\ req'[q].bet = b
        BY <1>2, ReqEffect
    <2>2. CASE req[q] # Idle /\ req'[q].bet = req[q].bet
        BY <2>1, <2>2 DEF Alone
    <2>3. CASE \E b \in Bet : Receive(q, b) /\ req'[q].bet = b
        BY <2>1, <2>3 DEF Receive, Alone
    <2>4. CASE req'[q] = Idle
        BY <2>1, <2>4 DEF Alone
    <2> QED
        BY <2>1, <2>2, <2>3, <2>4
<1> QED
    BY <1>1, <1>2

LEMMA PostsFreshStays ==
    ASSUME TypeOK, MoneyInv, Alone, PostsFresh, [Next]_vars
    PROVE  PostsFresh'
<1>0. ReqType
    BY TypeParts
<1> SUFFICES ASSUME NEW p \in Request, req'[p] # Idle, req'[p].pc = "post",
                    NEW b, b = req'[p].bet, b \in Unique
             PROVE  ~Charged(b)'
    BY DEF PostsFresh
<1>1. CASE UNCHANGED req
    <2>1. b \in Bet /\ ~Charged(b)
        BY <1>0, <1>1, PlacedType DEF PostsFresh
    <2>2. \A q \in Request : ~DebitPost(q)
        BY <1>0, <1>1, PlacedType DEF DebitPost, Placed, Proceed, Return, ReqType, Placing, Idle
    <2> QED
        BY <2>1, <2>2, RowsStayExact
<1>2. CASE ~UNCHANGED req
    <2>1. PICK q \in Request :
              /\ \A o \in Request \ {q} : req'[o] = req[o]
              /\ \/ req'[q] = Idle
                 \/ /\ req[q] # Idle /\ PlaceBet(q)
                    /\ req'[q].bet = req[q].bet
                    /\ req'[q].pc = "post" =>
                           ~Posted(Slip[req[q].bet].user, "DEBIT", req[q].bet)
                           /\ DebitFind(q)
                 \/ \E c \in Bet : Receive(q, c) /\ req'[q].bet = c /\ req'[q].pc = "get"
        BY <1>2, ReqEffect
    <2>2. CASE p = q
        <3>1. DebitFind(q) /\ b = req[q].bet /\ b \in Bet /\ ~Charged(b)
            BY <1>0, <2>1, <2>2, PlacedType DEF Charged
        <3>2. UNCHANGED money
            BY <3>1 DEF DebitFind
        <3> QED
            BY <3>1, <3>2 DEF Charged, Posted, money
    <2>3. CASE p # q
        <3>1. req'[p] = req[p] /\ b \in Bet /\ ~Charged(b)
            BY <1>0, <2>1, <2>3, PlacedType DEF PostsFresh
        <3>2. \A o \in Request : DebitPost(o) => req[o].bet # b
            <4> SUFFICES ASSUME NEW o \in Request, DebitPost(o), req[o].bet = b PROVE FALSE
                OBVIOUS
            <4>1. req[o] # Idle /\ req[o].pc = "post" /\ req'[o] # req[o]
                BY <1>0, PlacedType
                   DEF DebitPost, Placed, Proceed, Return, ReqType, Placing, Idle
            <4>2. o = q
                BY <2>1, <4>1
            <4> QED
                BY <2>3, <3>1, <4>1, <4>2 DEF Alone
        <3> QED
            BY <3>1, <3>2, RowsStayExact
    <2> QED
        BY <2>2, <2>3
<1> QED
    BY <1>1, <1>2

LEMMA ChargedOnceStays ==
    ASSUME TypeOK, PostsFresh, ChargedOnce, [Next]_vars
    PROVE  ChargedOnce'
<1>0. LedgerTypeOK /\ ReqType /\ AdminType /\ AdminSteps
    BY TypeParts
<1> SUFFICES ASSUME NEW b \in UniqueBet PROVE OnceIn(Slip[b].user, "DEBIT", b)'
    BY DEF ChargedOnce
<1> DEFINE v == Slip[b].user
<1>1. b \in Bet /\ b \in Unique /\ v \in User /\ OnceIn(v, "DEBIT", b)
    BY SlipType DEF UniqueBet, ChargedOnce
<1>2. \A c \in Bet : /\ Slip[c].user \in User /\ balance[Slip[c].user] \in Cents
                     /\ Slip[c].stake \in Amount /\ c \in Ref
    BY <1>0, SlipType DEF LedgerTypeOK
<1>3. /\ "DEBIT" \in TransactionType /\ "CREDIT" \in TransactionType
      /\ "DEPOSIT" \in TransactionType
    BY DEF TransactionType
<1>4. CASE UNCHANGED money
    BY <1>1, <1>4 DEF money, OnceIn
<1>5. ASSUME NEW q \in Request, DebitPost(q), ~UNCHANGED money
      PROVE  OnceIn(v, "DEBIT", b)'
    <2>1. PICK c \in Bet : c = req[q].bet
        BY <1>0, <1>5, PlacedType DEF DebitPost, Placed
    <2>2. CanDebit(c) /\ PostDebit(c) /\ (c \in Unique => ~Charged(c))
        BY <1>5, <2>1 DEF DebitPost, Placed, PostsFresh
    <2>3. (v = Slip[c].user /\ b = c) => ~Posted(v, "DEBIT", b)
        BY <1>1, <2>2 DEF Charged
    <2> QED
        BY <1>0, <1>1, <1>2, <1>3, <2>2, <2>3, PostKeepsOnce DEF CanDebit, PostDebit
<1>6. ASSUME NEW a \in Admin, CreditPost(a), ~UNCHANGED money
      PROVE  OnceIn(v, "DEBIT", b)'
    <2>1. PICK c \in Bet : c = admin[a].bet
        BY <1>0, <1>6 DEF CreditPost, Managing, AdminSteps
    <2>2. CanCredit(c) /\ PostCredit(c)
        BY <1>6, <2>1 DEF CreditPost
    <2>3. Payout(c) \in Amount
        BY <1>2, <2>2, PayoutPositive, MaxCentsAssumption
           DEF CanCredit, CanPost, NewBalance, Cents, Amount
    <2> QED
        BY <1>0, <1>1, <1>2, <1>3, <2>2, <2>3, PostKeepsOnce DEF CanCredit, PostCredit
<1>7. ASSUME NEW u \in User, NEW cents \in DepositCents, NEW ref \in Ref \ Bet,
             Deposit(u, cents, ref)
      PROVE  OnceIn(v, "DEBIT", b)'
    <2>1. cents \in Amount /\ balance[u] \in Cents
        BY <1>0, DepositAssumption DEF LedgerTypeOK
    <2> QED
        BY <1>0, <1>1, <1>3, <1>7, <2>1, PostKeepsOnce DEF Deposit
<1> QED
    BY <1>4, <1>5, <1>6, <1>7, LedgerSteps

LEMMA ChargeImplies == ChargedOnce => ChargedAtMostOnce
    BY DEF ChargedOnce, OnceIn, ChargedAtMostOnce, Entries, UniqueBet

LEMMA ChargeIsRight == Spec => []ChargeInv
<1>1. TypeOK /\ MoneyInv /\ ChargeInv /\ [Next]_vars => ChargeInv'
    BY AloneStays, PostsFreshStays, ChargedOnceStays DEF ChargeInv
<1> QED
    BY <1>1, ChargeInit, MoneyIsRight, FlowTypeCorrect, PTL DEF Spec

\* A request that is repeated after an answer, an error or a crash takes the
\* stake once.
THEOREM FlowChargedAtMostOnce == Spec => []ChargedAtMostOnce
<1>1. ChargeInv => ChargedAtMostOnce
    BY ChargeImplies DEF ChargeInv
<1> QED
    BY <1>1, ChargeIsRight, PTL

-----------------------------------------------------------------------------
(* The payout: whoever settles, as long as no two calls settle one market. *)

Settling(a) == admin[a] # Idle /\ admin[a].arg \in MarketResult

\* No two calls settle the same market at the same time ...
SettlementsApart ==
    \A a, c \in Admin :
        (Settling(a) /\ Settling(c) /\ admin[a].market = admin[c].market) => a = c

\* ... and none saves a status of a market that is being settled.
SavesApart ==
    \A a, c \in Admin :
        (Managing(a, "save") /\ Settling(c)) => admin[a].market # admin[c].market

\* The bets a call has still to settle, and the one it is settling.
Handling == {"credit", "post", "close", "notify"}
InHands(a, b) ==
    /\ admin[a] # Idle
    /\ b \in admin[a].todo \/ (admin[a].pc \in Handling /\ admin[a].bet = b)

\* A call settles bets of its own market only.
OwnBets ==
    \A a \in Admin, b \in Bet :
        InHands(a, b) => Settling(a) /\ admin[a].market = Slip[b].market

LEMMA OneHand ==
    ASSUME SettlementsApart, OwnBets, NEW b \in Bet, NEW a \in Admin, NEW c \in Admin,
           InHands(a, b), InHands(c, b)
    PROVE  a = c
    BY DEF SettlementsApart, OwnBets

\* A settlement that is about to post a payout has found no posting.
PaysFresh ==
    \A a \in Admin :
        (admin[a] # Idle /\ admin[a].pc = "post") => ~Paid(admin[a].bet)
PaidOnce == \A b \in Bet : OnceIn(Slip[b].user, "CREDIT", b)
PayInv == PaysFresh /\ PaidOnce

LEMMA PayInit == Init => PayInv
<1> SUFFICES ASSUME Init PROVE PayInv
    OBVIOUS
<1>1. \A u \in User : ledger[u] = << >>
    BY DEF Init, LedgerInit
<1>2. DOMAIN << >> = {}
    OBVIOUS
<1>3. PaidOnce
    BY <1>1, <1>2, SlipType DEF PaidOnce, OnceIn
<1> QED
    BY <1>3 DEF Init, PayInv, PaysFresh

\* How a call becomes another.
LEMMA AdminEffect ==
    ASSUME TypeOK, [Next]_vars, NEW o \in Admin, admin'[o] # admin[o], admin'[o] # Idle
    PROVE  \/ Administer(o) /\ admin[o] # Idle /\ admin[o] \in Administering
           \/ /\ BackToLoop(o) /\ admin[o] # Idle
              /\ admin'[o].pc = "loop" /\ admin'[o].todo = admin[o].todo
           \/ admin'[o].pc \in {"save", "find", "announce"} /\ admin'[o].todo = {}
<1>0. AdminType
    BY TypeParts
<1>1. ~Restart
    BY DEF Restart
<1>2. PICK a \in Admin :
          \/ Administer(a) \/ Finish(a) \/ (BackToLoop(a) /\ admin[a] # Idle)
          \/ \E m \in Market, pc \in {"save", "find", "announce"} :
             \E arg \in {"CREATED", "OPEN", "SUSPENDED"} \cup MarketResult :
                 Begin(a, pc, m, arg)
    BY <1>1, AdminStepsOfNext
<1>3. a = o
    BY <1>0, <1>2
       DEF Administer, SaveStatus, FindAccepted, PickBet, CreditFind, CreditPost,
           CloseBet, NotifySettled, MarkSettled, Announce, MoveOn, Finish,
           BackToLoop, Begin, AdminType
<1>4. ~Finish(o)
    BY <1>0 DEF Finish, AdminType
<1>5. ASSUME BackToLoop(o), admin[o] # Idle
      PROVE  admin'[o].pc = "loop" /\ admin'[o].todo = admin[o].todo
    BY <1>0, <1>5, ManagingType DEF BackToLoop, AdminType, Administering
<1>6. ASSUME NEW m, NEW arg, NEW pc \in {"save", "find", "announce"}, Begin(o, pc, m, arg)
      PROVE  admin'[o].pc \in {"save", "find", "announce"} /\ admin'[o].todo = {}
    BY <1>0, <1>6 DEF Begin, AdminType
<1>7. ASSUME Administer(o) PROVE admin[o] # Idle /\ admin[o] \in Administering
    <2>1. admin[o] # Idle
        BY <1>7 DEF Administer, SaveStatus, FindAccepted, PickBet, CreditFind,
                    CreditPost, CloseBet, NotifySettled, MarkSettled, Announce, Managing
    <2> QED
        BY <1>0, <2>1, ManagingType
<1> QED
    BY <1>2, <1>3, <1>4, <1>5, <1>6, <1>7

\* What a step of a settlement makes of it.
LEMMA AdministerEffect ==
    ASSUME AdminType, NEW o \in Admin, Administer(o), admin[o] \in Administering,
           admin'[o] # Idle
    PROVE  \/ CreditFind(o) /\ admin'[o].pc \in {"post", "close"}
           \/ CreditPost(o) /\ CanCredit(admin[o].bet) /\ PostCredit(admin[o].bet)
                            /\ admin'[o].pc = "close"
           \/ CloseBet(o) /\ admin'[o].pc = "notify"
           \/ FindAccepted(o) /\ admin'[o].pc = "loop"
           \/ \E b \in Bet : PickBet(o, b) /\ admin'[o].pc \in {"credit", "close"}
           \/ UNCHANGED bets /\ admin'[o].pc \in {"announce", "loop"}
                             /\ admin'[o].todo = admin[o].todo
<1>1. ASSUME NEW pc, MoveOn(o, pc)
      PROVE  admin'[o].pc = pc /\ admin'[o].todo = admin[o].todo
    BY <1>1 DEF MoveOn, AdminType, Administering
<1>2. ASSUME BackToLoop(o)
      PROVE  admin'[o].pc = "loop" /\ admin'[o].todo = admin[o].todo
    BY <1>2 DEF BackToLoop, AdminType, Administering
<1>3. CASE SaveStatus(o) \/ MarkSettled(o)
    BY <1>1, <1>3 DEF SaveStatus, MarkSettled
<1>4. CASE FindAccepted(o)
    BY <1>4 DEF FindAccepted, AdminType, Administering
<1>5. ASSUME NEW b \in Bet, PickBet(o, b) PROVE admin'[o].pc \in {"credit", "close"}
    <2>1. admin'[o].pc = IF admin[o].arg = "WIN" THEN "credit" ELSE "close"
        BY <1>5 DEF PickBet, AdminType, Administering
    <2> QED
        BY <2>1
<1>6. CASE CreditFind(o)
    BY <1>1, <1>6 DEF CreditFind
<1>7. CASE CreditPost(o)
    BY <1>1, <1>2, <1>7 DEF CreditPost
<1>8. CASE CloseBet(o)
    BY <1>1, <1>8 DEF CloseBet
<1>9. CASE NotifySettled(o)
    BY <1>2, <1>9 DEF NotifySettled
<1>10. ~Announce(o)
    BY DEF Announce, Finish, AdminType
<1> QED
    BY <1>3, <1>4, <1>5, <1>6, <1>7, <1>8, <1>9, <1>10 DEF Administer

\* A call gets to the posting only from the lookup that has found nothing.
LEMMA PostComesFromFind ==
    ASSUME TypeOK, [Next]_vars, NEW o \in Admin,
           admin'[o] # admin[o], admin'[o] # Idle, admin'[o].pc = "post"
    PROVE  CreditFind(o) /\ admin'[o].bet = admin[o].bet /\ ~Paid(admin[o].bet)
<1>0. AdminType
    BY TypeParts
<1>1. Administer(o) /\ admin[o] # Idle /\ admin[o] \in Administering
    BY AdminEffect
<1>2. CreditFind(o)
    BY <1>0, <1>1, AdministerEffect
<1> QED
    BY <1>0, <1>1, <1>2 DEF CreditFind, MoveOn, AdminType, Administering, Paid

\* A call keeps its market and its result, and the bets it has in hand come
\* from the list of its market's live bets.
LEMMA HandsCome ==
    ASSUME TypeOK, [Next]_vars, NEW o \in Admin, NEW b \in Bet,
           admin'[o] # admin[o], InHands(o, b)'
    PROVE  /\ admin[o] # Idle /\ admin'[o].market = admin[o].market
           /\ admin'[o].arg = admin[o].arg
           /\ \/ InHands(o, b)
              \/ admin[o].arg \in MarketResult /\ Slip[b].market = admin[o].market
<1>0. AdminType /\ AdminSteps
    BY TypeParts
<1>1. /\ admin'[o] # Idle
      /\ b \in admin'[o].todo \/ (admin'[o].pc \in Handling /\ admin'[o].bet = b)
    BY DEF InHands
<1>2. CASE BackToLoop(o) /\ admin[o] # Idle
    <2>1. admin[o] \in Administering
        BY <1>0, <1>2, ManagingType
    <2>2. admin'[o] = [admin[o] EXCEPT !.pc = "loop", !.bet = NoBet]
        BY <1>0, <1>2 DEF BackToLoop, AdminType
    <2> QED
        BY <1>1, <1>2, <2>1, <2>2 DEF InHands, Administering, Handling
<1>3. ASSUME NEW pc, MoveOn(o, pc), admin[o] # Idle, admin[o] \in Administering,
             pc \in Handling => admin[o].pc \in Handling
      PROVE  /\ admin'[o].market = admin[o].market /\ admin'[o].arg = admin[o].arg
             /\ InHands(o, b)
    <2>1. admin'[o] = [admin[o] EXCEPT !.pc = pc]
        BY <1>0, <1>3 DEF MoveOn, AdminType
    <2> QED
        BY <1>1, <1>3, <2>1 DEF InHands, Administering
<1>4. CASE Administer(o) /\ admin[o] # Idle /\ admin[o] \in Administering
    <2>1. CASE CreditFind(o) \/ CreditPost(o) \/ CloseBet(o)
        <3>1. CASE BackToLoop(o)
            BY <1>2, <1>4, <3>1
        <3>2. CASE ~BackToLoop(o)
            BY <1>3, <1>4, <2>1, <3>2 DEF CreditFind, CreditPost, CloseBet, Managing, Handling
        <3> QED
            BY <3>1, <3>2
    <2>2. CASE FindAccepted(o)
        <3>1. admin'[o] = [admin[o] EXCEPT !.pc = "loop",
                                           !.todo = LiveBets(admin[o].market)]
            BY <1>0, <2>2 DEF FindAccepted, AdminType
        <3>2. b \in LiveBets(admin[o].market)
            BY <1>1, <1>4, <3>1 DEF Administering, Handling
        <3>3. admin[o].arg \in MarketResult
            BY <1>0, <2>2 DEF FindAccepted, Managing, AdminSteps
        <3> QED
            BY <1>4, <3>1, <3>2, <3>3 DEF LiveBets, Administering
    <2>3. ASSUME NEW c \in Bet, PickBet(o, c)
          PROVE  /\ admin'[o].market = admin[o].market /\ admin'[o].arg = admin[o].arg
                 /\ InHands(o, b)
        <3>1. PICK pc : admin'[o] = [admin[o] EXCEPT !.pc = pc, !.todo = @ \ {c}, !.bet = c]
            BY <1>0, <2>3 DEF PickBet, AdminType
        <3>2. c \in admin[o].todo
            BY <2>3 DEF PickBet
        <3> QED
            BY <1>1, <1>4, <3>1, <3>2 DEF InHands, Administering
    <2>4. CASE SaveStatus(o) \/ MarkSettled(o)
        BY <1>3, <1>4, <2>4 DEF SaveStatus, MarkSettled, Handling
    <2>5. CASE NotifySettled(o)
        BY <1>2, <1>4, <2>5 DEF NotifySettled
    <2>6. ~Announce(o)
        BY <1>0, <1>1 DEF Announce, Finish, AdminType
    <2> QED
        BY <1>4, <2>1, <2>2, <2>3, <2>4, <2>5, <2>6 DEF Administer
<1>5. CASE admin'[o].pc \in {"save", "find", "announce"} /\ admin'[o].todo = {}
    BY <1>1, <1>5 DEF Handling
<1> QED
    BY <1>1, <1>2, <1>4, <1>5, AdminEffect

LEMMA OwnBetsStays == ASSUME TypeOK, OwnBets, [Next]_vars PROVE OwnBets'
<1> SUFFICES ASSUME NEW o \in Admin, NEW b \in Bet, InHands(o, b)'
             PROVE  (Settling(o) /\ admin[o].market = Slip[b].market)'
    BY DEF OwnBets
<1>1. CASE admin'[o] = admin[o]
    BY <1>1 DEF OwnBets, InHands, Settling
<1>2. CASE admin'[o] # admin[o]
    BY <1>2, HandsCome DEF OwnBets, InHands, Settling
<1> QED
    BY <1>1, <1>2

LEMMA FlowOwnBets == Spec => []OwnBets
<1>1. Init => OwnBets
    BY DEF Init, OwnBets, InHands
<1>2. TypeOK /\ OwnBets /\ [Next]_vars => OwnBets'
    BY OwnBetsStays
<1> QED
    BY <1>1, <1>2, FlowTypeCorrect, PTL DEF Spec

LEMMA PaysFreshStays ==
    ASSUME SettlementsApart, OwnBets, TypeOK, MoneyInv, PaysFresh, [Next]_vars
    PROVE  PaysFresh'
<1>0. AdminType /\ AdminSteps
    BY TypeParts
<1> SUFFICES ASSUME NEW o \in Admin, admin'[o] # Idle, admin'[o].pc = "post",
                    NEW b, b = admin'[o].bet
             PROVE  ~Paid(b)'
    BY DEF PaysFresh
<1>1. CASE admin'[o] = admin[o]
    <2>1. b \in Bet /\ ~Paid(b)
        BY <1>0, <1>1 DEF PaysFresh, AdminSteps
    <2>2. \A a \in Admin : CreditPost(a) => admin[a].bet # b
        <3> SUFFICES ASSUME NEW a \in Admin, CreditPost(a), admin[a].bet = b PROVE FALSE
            OBVIOUS
        <3>1. InHands(a, b) /\ InHands(o, b)
            BY <1>1 DEF CreditPost, Managing, InHands, Handling
        <3>2. a = o
            BY <2>1, <3>1, OneHand
        <3> QED
            BY <1>0, <1>1, <3>2, ManagingType
               DEF CreditPost, Managing, MoveOn, BackToLoop, AdminType, Administering
    <2> QED
        BY <2>1, <2>2, RowsStayExact
<1>2. CASE admin'[o] # admin[o]
    <2>1. CreditFind(o) /\ b = admin[o].bet /\ ~Paid(b)
        BY <1>2, PostComesFromFind
    <2>2. UNCHANGED money
        BY <2>1 DEF CreditFind
    <2> QED
        BY <2>1, <2>2 DEF Paid, Posted, money
<1> QED
    BY <1>1, <1>2

LEMMA PaidOnceStays ==
    ASSUME TypeOK, PaysFresh, PaidOnce, [Next]_vars
    PROVE  PaidOnce'
<1>0. LedgerTypeOK /\ ReqType /\ AdminType /\ AdminSteps
    BY TypeParts
<1> SUFFICES ASSUME NEW b \in Bet PROVE OnceIn(Slip[b].user, "CREDIT", b)'
    BY DEF PaidOnce
<1> DEFINE v == Slip[b].user
<1>1. v \in User /\ OnceIn(v, "CREDIT", b)
    BY SlipType DEF PaidOnce
<1>2. \A c \in Bet : /\ Slip[c].user \in User /\ balance[Slip[c].user] \in Cents
                     /\ Slip[c].stake \in Amount /\ c \in Ref
    BY <1>0, SlipType DEF LedgerTypeOK
<1>3. /\ "DEBIT" \in TransactionType /\ "CREDIT" \in TransactionType
      /\ "DEPOSIT" \in TransactionType
    BY DEF TransactionType
<1>4. CASE UNCHANGED money
    BY <1>1, <1>4 DEF money, OnceIn
<1>5. ASSUME NEW q \in Request, DebitPost(q), ~UNCHANGED money
      PROVE  OnceIn(v, "CREDIT", b)'
    <2>1. PICK c \in Bet : c = req[q].bet
        BY <1>0, <1>5, PlacedType DEF DebitPost, Placed
    <2>2. CanDebit(c) /\ PostDebit(c)
        BY <1>5, <2>1 DEF DebitPost, Placed
    <2> QED
        BY <1>0, <1>1, <1>2, <1>3, <2>2, PostKeepsOnce DEF CanDebit, PostDebit
<1>6. ASSUME NEW a \in Admin, CreditPost(a), ~UNCHANGED money
      PROVE  OnceIn(v, "CREDIT", b)'
    <2>1. PICK c \in Bet : c = admin[a].bet
        BY <1>0, <1>6 DEF CreditPost, Managing, AdminSteps
    <2>2. CanCredit(c) /\ PostCredit(c) /\ ~Paid(c)
        BY <1>6, <2>1 DEF CreditPost, Managing, PaysFresh
    <2>3. Payout(c) \in Amount
        BY <1>2, <2>2, PayoutPositive, MaxCentsAssumption
           DEF CanCredit, CanPost, NewBalance, Cents, Amount
    <2>4. (v = Slip[c].user /\ b = c) => ~Posted(v, "CREDIT", b)
        BY <2>2 DEF Paid
    <2> QED
        BY <1>0, <1>1, <1>2, <1>3, <2>2, <2>3, <2>4, PostKeepsOnce DEF CanCredit, PostCredit
<1>7. ASSUME NEW u \in User, NEW cents \in DepositCents, NEW ref \in Ref \ Bet,
             Deposit(u, cents, ref)
      PROVE  OnceIn(v, "CREDIT", b)'
    <2>1. cents \in Amount /\ balance[u] \in Cents
        BY <1>0, DepositAssumption DEF LedgerTypeOK
    <2> QED
        BY <1>0, <1>1, <1>3, <1>7, <2>1, PostKeepsOnce DEF Deposit
<1> QED
    BY <1>4, <1>5, <1>6, <1>7, LedgerSteps

LEMMA PayIsRight == Spec /\ []SettlementsApart => []PayInv
<1>1. SettlementsApart /\ OwnBets /\ TypeOK /\ MoneyInv /\ PayInv /\ [Next]_vars => PayInv'
    BY PaysFreshStays, PaidOnceStays DEF PayInv
<1> QED
    BY <1>1, PayInit, FlowOwnBets, MoneyIsRight, FlowTypeCorrect, PTL DEF Spec

\* A settlement that is repeated after an error or a crash credits a bet
\* once, while any number of calls settle other markets.
THEOREM FlowPaidAtMostOnce == Spec /\ []SettlementsApart => []PaidAtMostOnce
<1>1. PayInv => PaidAtMostOnce
    BY DEF PayInv, PaidOnce, OnceIn, PaidAtMostOnce, Entries
<1> QED
    BY <1>1, PayIsRight, PTL

OneAdministrator == \A a, c \in Admin : a = c

\* One administrator at a time, as the runs have it, keeps the calls apart:
\* neither two settlements nor a settlement and a saved status overlap.
THEOREM OneAdministratorIsApart ==
    OneAdministrator => (Spec => [](SettlementsApart /\ SavesApart))
<1> SUFFICES ASSUME OneAdministrator PROVE Spec => [](SettlementsApart /\ SavesApart)
    OBVIOUS
<1>1. TypeOK => SettlementsApart /\ SavesApart
    BY TypeParts DEF OneAdministrator, SettlementsApart, SavesApart, Managing, Settling,
           AdminSteps, MarketResult
<1> QED
    BY <1>1, FlowTypeCorrect, PTL

-----------------------------------------------------------------------------
(* The bets' use of the wallet: every posting of the flow is a posting of  *)
(* the abstract ledger, so that what the ledger promises holds of it.      *)

\* Every posting is allowed, and computed from the balance it finds.
Posting(u, type, amount, ref) ==
    /\ CanPost(balance[u], type, amount)
    /\ PostFrom(u, balance[u], type, amount, ref)

\* Who posts what: a deposit under a reference of its own, a stake by a
\* request for its bet, a payout by a settlement of its bet.
LEMMA PostingSteps ==
    ASSUME TypeOK, [Next]_vars
    PROVE  \/ UNCHANGED money
           \/ \E u \in User, cents \in Amount \cap DepositCents, ref \in Ref \ Bet :
                  /\ Posting(u, "DEPOSIT", cents, ref) /\ ~Posted(u, "DEPOSIT", ref)
           \/ \E b \in Bet, q \in Request :
                  /\ Posting(Slip[b].user, "DEBIT", Slip[b].stake, b)
                  /\ Slip[b].user \in User /\ Slip[b].stake \in Amount
                  /\ Placed(q, "post") /\ req[q].bet = b
           \/ \E b \in Bet, a \in Admin :
                  /\ Posting(Slip[b].user, "CREDIT", Payout(b), b)
                  /\ Slip[b].user \in User /\ Payout(b) \in Amount
                  /\ Managing(a, "post") /\ admin[a].bet = b
<1>0. LedgerTypeOK /\ ReqType /\ AdminSteps
    BY TypeParts
<1>1. ASSUME NEW q \in Request, DebitPost(q), ~UNCHANGED money
      PROVE  \E b \in Bet : /\ Posting(Slip[b].user, "DEBIT", Slip[b].stake, b)
                            /\ Slip[b].user \in User /\ Slip[b].stake \in Amount
                            /\ Placed(q, "post") /\ req[q].bet = b
    <2>1. PICK b \in Bet : b = req[q].bet
        BY <1>0, <1>1, PlacedType DEF DebitPost, Placed
    <2>2. CanDebit(b) /\ PostDebit(b) /\ Placed(q, "post")
        BY <1>1, <2>1 DEF DebitPost
    <2> QED
        BY <2>1, <2>2, SlipType DEF Posting, CanDebit, PostDebit
<1>2. ASSUME NEW a \in Admin, CreditPost(a), ~UNCHANGED money
      PROVE  \E b \in Bet : /\ Posting(Slip[b].user, "CREDIT", Payout(b), b)
                            /\ Slip[b].user \in User /\ Payout(b) \in Amount
                            /\ Managing(a, "post") /\ admin[a].bet = b
    <2>1. PICK b \in Bet : b = admin[a].bet
        BY <1>0, <1>2 DEF CreditPost, Managing, AdminSteps
    <2>2. CanCredit(b) /\ PostCredit(b) /\ Managing(a, "post")
        BY <1>2, <2>1 DEF CreditPost
    <2>3. Slip[b].user \in User /\ balance[Slip[b].user] \in Cents
        BY <1>0, SlipType DEF LedgerTypeOK
    <2>4. Payout(b) \in Amount
        BY <2>2, <2>3, PayoutPositive, MaxCentsAssumption
           DEF CanCredit, CanPost, NewBalance, Cents, Amount
    <2> QED
        BY <2>1, <2>2, <2>3, <2>4 DEF Posting, CanCredit, PostCredit
<1>3. ASSUME NEW u \in User, NEW cents \in DepositCents, NEW ref \in Ref \ Bet,
             Deposit(u, cents, ref)
      PROVE  /\ cents \in Amount \cap DepositCents
             /\ Posting(u, "DEPOSIT", cents, ref) /\ ~Posted(u, "DEPOSIT", ref)
    BY <1>3, DepositAssumption DEF Deposit, Posting, TransactionType
<1> QED
    BY <1>1, <1>2, <1>3, LedgerSteps

\* The balance is explained whatever fails, overlaps or is repeated.
THEOREM FlowExplainsBalance == Spec => []LedgerReplays
<1>1. Init => LedgerReplays
    BY LedgerStarts DEF Init, LedgerInv
<1>2. TypeOK /\ LedgerReplays /\ [Next]_vars => LedgerReplays'
    <2> SUFFICES ASSUME TypeOK, LedgerReplays, [Next]_vars PROVE LedgerReplays'
        OBVIOUS
    <2>1. LedgerTypeOK /\ Bet \subseteq Ref /\ TransactionType = {"DEPOSIT", "DEBIT", "CREDIT"}
        BY TypeParts, BetAssumption DEF TransactionType
    <2>2. CASE UNCHANGED money
        BY <2>2, UnchangedReplays DEF money
    <2>3. ASSUME NEW u \in User, NEW type \in TransactionType, NEW amount \in Amount,
                 NEW ref \in Ref, Posting(u, type, amount, ref)
          PROVE  LedgerReplays'
        BY <2>1, <2>3, PostReplays DEF Posting
    <2> QED
        BY <2>1, <2>2, <2>3, PostingSteps
<1> QED
    BY <1>1, <1>2, FlowTypeCorrect, PTL DEF Spec

\* No row of the audit trail is changed or removed, whatever fails or overlaps.
THEOREM FlowTrailStays == Spec => [][TrailIsImmutable]_vars
<1>1. TypeOK /\ [Next]_vars => [TrailIsImmutable]_vars
    <2> SUFFICES ASSUME TypeOK, [Next]_vars PROVE TrailIsImmutable
        OBVIOUS
    <2>1. LedgerTypeOK /\ Bet \subseteq Ref /\ TransactionType = {"DEPOSIT", "DEBIT", "CREDIT"}
        BY TypeParts, BetAssumption DEF TransactionType
    <2>2. CASE UNCHANGED money
        BY <2>2 DEF money, TrailIsImmutable
    <2>3. ASSUME NEW u \in User, NEW type \in TransactionType, NEW amount \in Amount,
                 NEW ref \in Ref, Posting(u, type, amount, ref)
          PROVE  TrailIsImmutable
        <3>1. balance[u] \in Cents
            BY <2>1 DEF LedgerTypeOK
        <3> QED
            BY <2>1, <2>3, <3>1, PostKeepsTrail DEF Posting
    <2> QED
        BY <2>1, <2>2, <2>3, PostingSteps
<1> QED
    BY <1>1, FlowTypeCorrect, PTL DEF Spec

\* While settlements of one market do not overlap, the flow is a user of the
\* wallet that posts everything once: it implements the same ledger as the
\* wallet does.
THEOREM FlowImplementsLedger == Spec /\ []SettlementsApart => LedgerSpec
<1>1. Init => LedgerInit
    BY DEF Init
<1>2. TypeOK /\ PostsFresh /\ PaysFresh /\ [Next]_vars => [LedgerNext]_<<balance, ledger>>
    <2> SUFFICES ASSUME TypeOK, PostsFresh, PaysFresh, [Next]_vars
                 PROVE  [LedgerNext]_<<balance, ledger>>
        OBVIOUS
    <2>1. Bet \subseteq Ref /\ TransactionType = {"DEPOSIT", "DEBIT", "CREDIT"}
        BY BetAssumption DEF TransactionType
    <2>2. CASE UNCHANGED money
        BY <2>2 DEF money
    <2>3. ASSUME NEW u \in User, NEW type \in TransactionType, NEW amount \in Amount,
                 NEW ref \in Ref, Posting(u, type, amount, ref),
                 ref \in Unique => ~Posted(u, type, ref)
          PROVE  LedgerNext
        BY <2>3 DEF LedgerNext, PostOnce, Posting
    <2>4. ASSUME NEW b \in Bet, NEW q \in Request, Placed(q, "post"), req[q].bet = b
          PROVE  b \in Unique => ~Posted(Slip[b].user, "DEBIT", b)
        BY <2>4 DEF Placed, PostsFresh, Charged
    <2>5. ASSUME NEW b \in Bet, NEW a \in Admin, Managing(a, "post"), admin[a].bet = b
          PROVE  ~Posted(Slip[b].user, "CREDIT", b)
        BY <2>5 DEF Managing, PaysFresh, Paid
    <2> QED
        BY <2>1, <2>2, <2>3, <2>4, <2>5, PostingSteps
<1> QED
    BY <1>1, <1>2, ChargeIsRight, PayIsRight, FlowTypeCorrect, PTL
       DEF Spec, LedgerSpec, ChargeInv, PayInv

\* A row of the audit trail has a reason: a deposit, the stake of a bet of
\* this user, or the payout of a bet whose stake is on an earlier row.
RowExplained(u, i) ==
    LET row == ledger[u][i] IN
    \/ row.type = "DEPOSIT" /\ row.ref \notin Bet /\ row.amount \in DepositCents
    \/ /\ row.type = "DEBIT" /\ row.ref \in Bet
       /\ Slip[row.ref].user = u /\ row.amount = Slip[row.ref].stake
    \/ /\ row.type = "CREDIT" /\ row.ref \in Bet
       /\ Slip[row.ref].user = u /\ row.amount = Payout(row.ref)
       /\ \E j \in 1 .. i - 1 :
              ledger[u][j].type = "DEBIT" /\ ledger[u][j].ref = row.ref
RowsAreExplained == \A u \in User : \A i \in DOMAIN ledger[u] : RowExplained(u, i)

LEMMA PostingExplained ==
    ASSUME LedgerTypeOK, RowsAreExplained,
           NEW u \in User, NEW type \in TransactionType, NEW amount \in Amount,
           NEW ref \in Ref, Posting(u, type, amount, ref),
           \/ type = "DEPOSIT" /\ ref \notin Bet /\ amount \in DepositCents
           \/ /\ type = "DEBIT" /\ ref \in Bet
              /\ Slip[ref].user = u /\ amount = Slip[ref].stake
           \/ /\ type = "CREDIT" /\ ref \in Bet
              /\ Slip[ref].user = u /\ amount = Payout(ref) /\ Posted(u, "DEBIT", ref)
    PROVE  RowsAreExplained'
<1> DEFINE n == Len(ledger[u])
<1>0. balance[u] \in Cents /\ CanPost(balance[u], type, amount)
      /\ PostFrom(u, balance[u], type, amount, ref)
    BY DEF Posting, LedgerTypeOK
<1>1. /\ ledger'[u] \in Seq(Row) /\ Len(ledger'[u]) = n + 1
      /\ \A i \in 1 .. n : ledger'[u][i] = ledger[u][i]
      /\ ledger'[u][n + 1].type = type /\ ledger'[u][n + 1].ref = ref
      /\ ledger'[u][n + 1].amount = amount
      /\ \A v \in User \ {u} : ledger'[v] = ledger[v]
    BY <1>0, PostedAfter
<1>2. n \in Nat /\ DOMAIN ledger[u] = 1 .. n /\ DOMAIN ledger'[u] = 1 .. n + 1
    BY <1>1 DEF LedgerTypeOK
<1> SUFFICES ASSUME NEW v \in User, NEW i \in DOMAIN ledger'[v] PROVE RowExplained(v, i)'
    BY DEF RowsAreExplained
<1>3. CASE v # u
    <2>1. ledger'[v] = ledger[v] /\ RowExplained(v, i)
        BY <1>1, <1>3 DEF RowsAreExplained
    <2> QED
        BY <2>1 DEF RowExplained
<1>4. CASE v = u /\ i \in 1 .. n
    <2>1. RowExplained(u, i) /\ \A j \in 1 .. i : ledger'[u][j] = ledger[u][j]
        BY <1>1, <1>2, <1>4 DEF RowsAreExplained
    <2> QED
        BY <1>2, <1>4, <2>1 DEF RowExplained
<1>5. CASE v = u /\ i = n + 1
    <2>1. type = "CREDIT" => \E j \in 1 .. n :
              ledger'[u][j].type = "DEBIT" /\ ledger'[u][j].ref = ref
        BY <1>1, <1>2 DEF Posted
    <2> QED
        BY <1>1, <1>2, <1>5, <2>1 DEF RowExplained
<1> QED
    BY <1>2, <1>3, <1>4, <1>5

\* No row of the audit trail is without a reason, and no payout without the
\* stake it answers, whatever fails, overlaps or is repeated.
THEOREM FlowExplainsRows == Spec => []RowsAreExplained
<1>1. Init => RowsAreExplained
    <2> SUFFICES ASSUME Init PROVE RowsAreExplained
        OBVIOUS
    <2>1. DOMAIN << >> = {} /\ \A u \in User : ledger[u] = << >>
        BY DEF Init, LedgerInit
    <2> QED
        BY <2>1 DEF RowsAreExplained
<1>2. TypeOK /\ MoneyInv /\ RowsAreExplained /\ [Next]_vars => RowsAreExplained'
    <2> SUFFICES ASSUME TypeOK, MoneyInv, RowsAreExplained, [Next]_vars
                 PROVE  RowsAreExplained'
        OBVIOUS
    <2>1. LedgerTypeOK /\ Bet \subseteq Ref /\ TransactionType = {"DEPOSIT", "DEBIT", "CREDIT"}
        BY TypeParts, BetAssumption DEF TransactionType
    <2>2. CASE UNCHANGED money
        BY <2>2 DEF money, RowsAreExplained, RowExplained
    <2>3. ASSUME NEW b \in Bet, NEW a \in Admin, Managing(a, "post"), admin[a].bet = b
          PROVE  Posted(Slip[b].user, "DEBIT", b)
        <3>1. Taken(b)
            BY <2>3 DEF Managing, MoneyInv, AdminKnows
        <3> QED
            BY <3>1 DEF MoneyInv, Booked, Taken, Charged
    <2> QED
        BY <2>1, <2>2, <2>3, PostingSteps, PostingExplained
<1> QED
    BY <1>1, <1>2, MoneyIsRight, FlowTypeCorrect, PTL DEF Spec

-----------------------------------------------------------------------------
(* The lifecycle: while the worker's channel is not lost, one message is   *)
(* in hand at a time, so the status the worker has checked is still there  *)
(* when it updates, and the bets an administrator is about to pay are      *)
(* still open.                                                             *)

OneMessage ==
    /\ \A w \in Worker : worker[w] # Idle => worker[w].live
    /\ \A v, w \in Worker : (worker[v] # Idle /\ worker[w] # Idle) => v = w
UpdatesPending ==
    \A w \in Worker :
        (worker[w] # Idle /\ worker[w].pc = "update") => bets[worker[w].bet] = "PENDING"
PaysAccepted ==
    \A a \in Admin : admin[a] # Idle =>
        /\ \A b \in admin[a].todo : bets[b] = "ACCEPTED"
        /\ admin[a].pc \in {"credit", "post", "close"} =>
               bets[admin[a].bet] = "ACCEPTED" /\ admin[a].bet \notin admin[a].todo
StageInv == OneMessage /\ UpdatesPending /\ PaysAccepted

LEMMA StageInit == Init => StageInv
    BY DEF Init, StageInv, OneMessage, UpdatesPending, PaysAccepted

LEMMA OneMessageStays ==
    ASSUME "reconnect" \notin Faults, TypeOK, OneMessage, [Next]_vars
    PROVE  OneMessage'
<1>0. WorkerType
    BY TypeParts
<1>1. CASE UNCHANGED worker
    BY <1>1 DEF OneMessage
<1>2. CASE Restart
    BY <1>2 DEF Restart, OneMessage
<1>3. ASSUME NEW w \in Worker, NEW b \in Bet, Deliver(w, b) PROVE OneMessage'
    BY <1>0, <1>3 DEF Deliver, Holds, OneMessage, WorkerType
<1>4. ASSUME NEW w \in Worker, worker[w] # Idle,
             \E pc \in {"read", "update", "terminal", "ack", "nack"} : Continue(w, pc)
      PROVE  OneMessage'
    <2>1. worker'[w].live = worker[w].live /\ \A v \in Worker \ {w} : worker'[v] = worker[v]
        BY <1>0, <1>4, WorkingType DEF Continue, WorkerType, Accepting
    <2> QED
        BY <1>4, <2>1 DEF OneMessage
<1>5. ASSUME NEW w \in Worker, Answer(w) PROVE OneMessage'
    BY <1>0, <1>5 DEF Answer, OneMessage, WorkerType
<1>6. ASSUME NEW w \in Worker, LoseChannel(w) PROVE FALSE
    BY <1>6 DEF LoseChannel
<1> QED
    BY <1>1, <1>2, <1>3, <1>4, <1>5, <1>6, WorkerSteps
       DEF HandleMessage, ReadStatus, UpdateStatus, CheckTerminal, WorkerError, Working

\* What a step makes of the status of a bet.
LEMMA StageSteps ==
    ASSUME TypeOK, MoneyInv, UpdatesPending, PaysAccepted, [Next]_vars
    PROVE  \/ UNCHANGED bets
           \/ \E q \in Request : InsertBet(q) /\ req[q].bet \in Bet
           \/ \E w \in Worker : /\ UpdateStatus(w) /\ worker[w].bet \in Bet
                                /\ bets[worker[w].bet] = "PENDING"
           \/ \E a \in Admin : /\ CloseBet(a) /\ admin[a].bet \in Bet
                               /\ bets[admin[a].bet] = "ACCEPTED"
                               /\ admin[a].bet \notin admin[a].todo
<1>0. ReqType /\ WorkerType /\ AdminSteps
    BY TypeParts
<1>1. ASSUME NEW q \in Request, InsertBet(q) PROVE req[q].bet \in Bet
    BY <1>0, <1>1, PlacedType DEF InsertBet, Placed
<1>2. ASSUME NEW w \in Worker, UpdateStatus(w)
      PROVE  worker[w].bet \in Bet /\ bets[worker[w].bet] = "PENDING"
    BY <1>0, <1>2, WorkingType DEF UpdateStatus, Working, UpdatesPending
<1>3. ASSUME NEW a \in Admin, CloseBet(a)
      PROVE  /\ admin[a].bet \in Bet /\ bets[admin[a].bet] = "ACCEPTED"
             /\ admin[a].bet \notin admin[a].todo
    BY <1>0, <1>3 DEF CloseBet, Managing, AdminSteps, PaysAccepted
<1> QED
    BY <1>1, <1>2, <1>3, BetSteps

LEMMA UpdatesPendingStays ==
    ASSUME "reconnect" \notin Faults, TypeOK, MoneyInv, StageInv, [Next]_vars
    PROVE  UpdatesPending'
<1>0. WorkerType /\ ReqType /\ DataType
    BY TypeParts
<1> SUFFICES ASSUME NEW v \in Worker, worker'[v] # Idle, worker'[v].pc = "update",
                    NEW b, b = worker'[v].bet
             PROVE  bets'[b] = "PENDING"
    BY DEF UpdatesPending
<1>1. CASE worker'[v] = worker[v]
    <2>1. b \in Bet /\ bets[b] = "PENDING"
        BY <1>0, <1>1, WorkingType DEF StageInv, UpdatesPending
    <2>2. ASSUME NEW w \in Worker, UpdateStatus(w) PROVE FALSE
        <3>1. w = v
            BY <1>1, <2>2 DEF UpdateStatus, Working, StageInv, OneMessage
        <3> QED
            BY <1>0, <1>1, <2>2, <3>1, WorkingType
               DEF UpdateStatus, Continue, WorkerType, Accepting
    <2> QED
        BY <1>0, <2>1, <2>2, StageSteps DEF InsertBet, CloseBet, DataType, StageInv
<1>2. CASE worker'[v] # worker[v]
    <2>1. PICK w \in Worker : HandleMessage(w) \/ WorkerError(w)
        <3>1. \A w \in Worker : ~LoseChannel(w)
            BY DEF LoseChannel
        <3> QED
            BY <1>2, <3>1, WorkerSteps DEF Restart
    <2>2. w = v
        BY <1>0, <1>2, <2>1
           DEF HandleMessage, Deliver, ReadStatus, UpdateStatus, CheckTerminal, Answer,
               WorkerError, Continue, WorkerType
    <2>3. /\ ~Answer(w) /\ ~WorkerError(w) /\ ~UpdateStatus(w)
          /\ ~CheckTerminal(w) /\ \A c \in Bet : ~Deliver(w, c)
        <3>1. ~Answer(w) /\ \A c \in Bet : ~Deliver(w, c)
            BY <1>0, <2>2 DEF Answer, Deliver, WorkerType
        <3>2. ~WorkerError(w) /\ ~UpdateStatus(w) /\ ~CheckTerminal(w)
            BY <1>0, <2>2, WorkingType
               DEF WorkerError, UpdateStatus, CheckTerminal, Continue, Working,
                   WorkerType, Accepting
        <3> QED
            BY <3>1, <3>2
    <2>4. ReadStatus(w)
        BY <2>1, <2>3 DEF HandleMessage
    <2>5. worker[w] # Idle /\ worker[w].bet = b /\ b \in Bet
        BY <1>0, <2>2, <2>4, WorkingType DEF ReadStatus, Working, Continue, WorkerType, Accepting
    <2>6. bets[b] # "ABSENT" /\ "ACCEPTED" \in ALLOWED_TRANSITIONS[bets[b]]
        BY <1>0, <2>2, <2>4, <2>5, WorkingType
           DEF ReadStatus, Working, Continue, WorkerType, Accepting
    <2>7. bets[b] = "PENDING"
        BY <1>0, <2>5, <2>6 DEF DataType, ALLOWED_TRANSITIONS, BetStatus
    <2> QED
        BY <2>4, <2>7 DEF ReadStatus
<1> QED
    BY <1>1, <1>2

LEMMA PaysAcceptedStays ==
    ASSUME SettlementsApart, OwnBets, TypeOK, MoneyInv, StageInv, [Next]_vars
    PROVE  PaysAccepted'
<1>0. AdminType /\ AdminSteps /\ DataType /\ PaysAccepted
    BY TypeParts DEF StageInv
<1> SUFFICES ASSUME NEW o \in Admin, admin'[o] # Idle
             PROVE  /\ \A b \in admin'[o].todo : bets'[b] = "ACCEPTED"
                    /\ admin'[o].pc \in {"credit", "post", "close"} =>
                           /\ bets'[admin'[o].bet] = "ACCEPTED"
                           /\ admin'[o].bet \notin admin'[o].todo
    BY DEF PaysAccepted
<1>1. ASSUME ~CloseBet(o), NEW b \in Bet, InHands(o, b), NEW a \in Admin, CloseBet(a)
      PROVE  admin[a].bet # b
    <2> SUFFICES ASSUME admin[a].bet = b PROVE FALSE
        OBVIOUS
    <2>1. InHands(a, b)
        BY <1>1 DEF CloseBet, Managing, InHands, Handling
    <2> QED
        BY <1>1, <2>1, OneHand
<1>2. ASSUME ~CloseBet(o), NEW b \in Bet, InHands(o, b), bets[b] = "ACCEPTED"
      PROVE  bets'[b] = "ACCEPTED"
    BY <1>0, <1>1, <1>2, StageSteps DEF InsertBet, UpdateStatus, CloseBet, DataType, StageInv
<1>3. CASE admin'[o] = admin[o]
    <2>1. ~CloseBet(o)
        BY <1>0, <1>3, ManagingType DEF CloseBet, Managing, MoveOn, AdminType, Administering
    <2>2. admin[o].todo \subseteq Bet
        BY <1>0, <1>3, ManagingType DEF Administering
    <2> QED
        BY <1>0, <1>2, <1>3, <2>1, <2>2 DEF PaysAccepted, AdminSteps, InHands, Handling
<1>4. CASE admin'[o] # admin[o]
    <2>1. CASE Administer(o) /\ admin[o] # Idle /\ admin[o] \in Administering
        <3>0. admin[o].todo \subseteq Bet /\ \A b \in admin[o].todo : bets[b] = "ACCEPTED"
            BY <1>0, <2>1 DEF PaysAccepted, Administering
        <3>1. CASE CreditFind(o) \/ (CreditPost(o) /\ PostCredit(admin[o].bet)
                                                   /\ CanCredit(admin[o].bet))
            <4>1. UNCHANGED bets
                BY <3>1 DEF CreditFind, CreditPost
            <4>2. admin'[o].todo = admin[o].todo /\ admin'[o].bet = admin[o].bet
                BY <1>0, <2>1, <3>1 DEF CreditFind, CreditPost, MoveOn, AdminType, Administering
            <4>3. bets[admin[o].bet] = "ACCEPTED" /\ admin[o].bet \notin admin[o].todo
                BY <1>0, <2>1, <3>1 DEF CreditFind, CreditPost, Managing, PaysAccepted
            <4> QED
                BY <3>0, <4>1, <4>2, <4>3
        <3>2. CASE CloseBet(o) /\ admin'[o].pc = "notify"
            <4>1. admin'[o].todo = admin[o].todo /\ admin[o].bet \notin admin[o].todo
                BY <1>0, <2>1, <3>2
                   DEF CloseBet, Managing, MoveOn, PaysAccepted, AdminType, Administering
            <4>2. \A b \in admin[o].todo : bets'[b] = bets[b]
                BY <1>0, <3>0, <3>2, <4>1 DEF CloseBet, DataType
            <4> QED
                BY <3>0, <3>2, <4>1, <4>2
        <3>3. CASE FindAccepted(o) /\ admin'[o].pc = "loop"
            <4>1. admin'[o].todo = LiveBets(admin[o].market) /\ UNCHANGED bets
                BY <1>0, <2>1, <3>3 DEF FindAccepted, AdminType, Administering
            <4> QED
                BY <3>3, <4>1 DEF LiveBets
        <3>4. ASSUME NEW b \in Bet, PickBet(o, b)
              PROVE  /\ \A c \in admin'[o].todo : bets'[c] = "ACCEPTED"
                     /\ bets'[admin'[o].bet] = "ACCEPTED"
                     /\ admin'[o].bet \notin admin'[o].todo
            <4>1. /\ admin'[o].todo = admin[o].todo \ {b} /\ admin'[o].bet = b
                  /\ b \in admin[o].todo /\ UNCHANGED bets
                BY <1>0, <2>1, <3>4 DEF PickBet, AdminType, Administering
            <4> QED
                BY <3>0, <4>1
        <3>5. CASE UNCHANGED bets /\ admin'[o].pc \in {"announce", "loop"}
                                  /\ admin'[o].todo = admin[o].todo
            BY <3>0, <3>5
        <3> QED
            BY <1>0, <2>1, <3>1, <3>2, <3>3, <3>4, <3>5, AdministerEffect
    <2>2. CASE /\ BackToLoop(o) /\ admin[o] # Idle
               /\ admin'[o].pc = "loop" /\ admin'[o].todo = admin[o].todo
        <3>1. ~CloseBet(o)
            BY <1>0, <2>2, ManagingType DEF CloseBet, MoveOn, AdminType, Administering
        <3>2. admin[o].todo \subseteq Bet
            BY <1>0, <2>2, ManagingType DEF Administering
        <3> QED
            BY <1>0, <1>2, <2>2, <3>1, <3>2 DEF PaysAccepted, InHands
    <2>3. CASE admin'[o].pc \in {"save", "find", "announce"} /\ admin'[o].todo = {}
        BY <2>3
    <2> QED
        BY <1>4, <2>1, <2>2, <2>3, AdminEffect
<1> QED
    BY <1>3, <1>4

\* Every step of the running system is a step of the lifecycle, or none.
LEMMA StepFollowsLifecycle ==
    ASSUME TypeOK, MoneyInv, StageInv, PaysFresh, [Next]_vars
    PROVE  [Lifecycle!Next]_(Lifecycle!vars)
<1>0. /\ ReqType /\ WorkerType /\ AdminType /\ AdminSteps /\ DataType /\ LedgerTypeOK
      /\ UpdatesPending /\ PaysAccepted /\ Booked /\ ReqKnows
    BY TypeParts DEF StageInv, MoneyInv
<1>1. /\ HasEntry("DEBIT") = [b \in Bet |-> Charged(b)]
      /\ HasEntry("CREDIT") = [b \in Bet |-> Paid(b)]
      /\ HasEntry("DEBIT")' = [b \in Bet |-> Charged(b)']
      /\ HasEntry("CREDIT")' = [b \in Bet |-> Paid(b)']
    BY DEF HasEntry, Charged, Paid
<1>bool. \A b \in Bet : /\ Charged(b) \in BOOLEAN /\ Charged(b)' \in BOOLEAN
                     /\ Paid(b) \in BOOLEAN /\ Paid(b)' \in BOOLEAN
    BY DEF Charged, Paid, Posted
<1>2. ASSUME UNCHANGED money PROVE UNCHANGED <<HasEntry("DEBIT"), HasEntry("CREDIT")>>
    BY <1>2 DEF HasEntry, Posted, money
<1>3. CASE UNCHANGED <<bets, money>>
    BY <1>2, <1>3 DEF Lifecycle!vars, money
<1>4. ASSUME NEW q \in Request, InsertBet(q), req[q].bet \in Bet, ~UNCHANGED bets
      PROVE  Lifecycle!Record(req[q].bet)
    <2>1. Charged(req[q].bet)
        BY <1>0, <1>4 DEF InsertBet, Placed, ReqKnows
    <2>2. HasEntry("DEBIT")[req[q].bet]
        BY <1>1, <1>4, <2>1
    <2> QED
        BY <1>2, <1>4, <2>2 DEF InsertBet, Lifecycle!Record, Lifecycle!Move
<1>5. ASSUME NEW w \in Worker, UpdateStatus(w), bets[worker[w].bet] = "PENDING"
      PROVE  Lifecycle!Accept(worker[w].bet)
    BY <1>2, <1>5 DEF UpdateStatus, Lifecycle!Accept, Lifecycle!Move
<1>6. ASSUME NEW a \in Admin, CloseBet(a), bets[admin[a].bet] = "ACCEPTED"
      PROVE  Lifecycle!Close(admin[a].bet)
    BY <1>2, <1>6 DEF CloseBet, Lifecycle!Close, Lifecycle!Move
<1>7. /\ \A p \in Request : DebitPost(p) => req'[p] # req[p]
      /\ \A a \in Admin : CreditPost(a) => admin'[a] # admin[a]
    <2>1. ASSUME NEW p \in Request, DebitPost(p) PROVE req'[p] # req[p]
        BY <1>0, <2>1, PlacedType
           DEF DebitPost, Placed, Proceed, Return, ReqType, Placing, Idle
    <2>2. ASSUME NEW a \in Admin, CreditPost(a) PROVE admin'[a] # admin[a]
        BY <1>0, <2>2, ManagingType
           DEF CreditPost, Managing, MoveOn, BackToLoop, AdminType, Administering
    <2> QED
        BY <2>1, <2>2
<1>8. ASSUME NEW q \in Request, DebitPost(q), ~UNCHANGED money
      PROVE  [Lifecycle!Next]_(Lifecycle!vars)
    <2>1. PICK c \in Bet : c = req[q].bet
        BY <1>0, <1>8, PlacedType DEF DebitPost, Placed
    <2>2. CanDebit(c) /\ PostDebit(c) /\ UNCHANGED <<bets, admin>>
        BY <1>8, <2>1 DEF DebitPost
    <2>3. \A p \in Request : DebitPost(p) => p = q
        <3>1. \A p \in Request \ {q} : req'[p] = req[p]
            BY <1>0, <1>8 DEF DebitPost, Proceed, Return, ReqType
        <3> QED
            BY <1>7, <3>1
    <2>4. \A b \in Bet : /\ Paid(b)' <=> Paid(b)
                         /\ b # c => (Charged(b)' <=> Charged(b))
        BY <1>7, <2>1, <2>2, <2>3, RowsStayExact
    <2>5. HasEntry("CREDIT")' = HasEntry("CREDIT")
        BY <1>1, <1>bool, <2>4
    <2>6. HasEntry("DEBIT")' = [HasEntry("DEBIT") EXCEPT ![c] = TRUE]
        BY <1>0, <1>1, <1>bool, <2>2, <2>4, DebitCharges
    <2>7. CASE Charged(c)
        BY <1>1, <2>2, <2>5, <2>6, <2>7 DEF Lifecycle!vars
    <2>8. CASE ~Charged(c)
        <3>1. bets[c] = "ABSENT" /\ ~HasEntry("DEBIT")[c]
            BY <1>0, <1>1, <2>8 DEF Booked
        <3>2. Lifecycle!Charge(c)
            BY <2>2, <2>5, <2>6, <3>1 DEF Lifecycle!Charge
        <3> QED
            BY <3>2 DEF Lifecycle!Next
    <2> QED
        BY <2>7, <2>8
<1>9. ASSUME NEW a \in Admin, CreditPost(a), ~UNCHANGED money
      PROVE  \E b \in Bet : Lifecycle!PayOut(b)
    <2>1. PICK c \in Bet : c = admin[a].bet
        BY <1>0, <1>9 DEF CreditPost, Managing, AdminSteps
    <2>2. CanCredit(c) /\ PostCredit(c) /\ UNCHANGED <<bets, req>>
        BY <1>9, <2>1 DEF CreditPost
    <2>3. bets[c] = "ACCEPTED" /\ ~Paid(c)
        BY <1>0, <1>9, <2>1 DEF CreditPost, Managing, PaysAccepted, PaysFresh
    <2>4. \A b \in Bet : /\ Charged(b)' <=> Charged(b)
                         /\ b # c => (Paid(b)' <=> Paid(b))
        <3>1. \A o \in Admin \ {a} : admin'[o] = admin[o]
            BY <1>0, <1>9 DEF CreditPost, MoveOn, BackToLoop, AdminType
        <3>2. \A o \in Admin : CreditPost(o) => o = a
            BY <1>7, <3>1
        <3> QED
            BY <1>7, <2>1, <2>2, <3>2, RowsStayExact
    <2>5. HasEntry("DEBIT")' = HasEntry("DEBIT")
        BY <1>1, <1>bool, <2>4
    <2>6. HasEntry("CREDIT")' = [HasEntry("CREDIT") EXCEPT ![c] = TRUE]
        BY <1>0, <1>1, <1>bool, <2>2, <2>4, CreditPays
    <2>7. ~HasEntry("CREDIT")[c]
        BY <1>1, <2>3
    <2> QED
        BY <2>2, <2>3, <2>5, <2>6, <2>7 DEF Lifecycle!PayOut
<1>10. ASSUME NEW u \in User, NEW cents \in DepositCents, NEW ref \in Ref \ Bet,
              Deposit(u, cents, ref)
       PROVE  UNCHANGED Lifecycle!vars
    <2>1. UNCHANGED <<bets, req, admin>>
        BY <1>10 DEF Deposit, handlers
    <2>2. \A b \in Bet : (Charged(b)' <=> Charged(b)) /\ (Paid(b)' <=> Paid(b))
        BY <1>7, <2>1, RowsStayExact
    <2> QED
        BY <1>1, <1>bool, <2>1, <2>2 DEF Lifecycle!vars
<1>11. CASE ~UNCHANGED bets
    BY <1>0, <1>4, <1>5, <1>6, <1>11, StageSteps DEF Lifecycle!Next
<1>12. CASE ~UNCHANGED money
    BY <1>8, <1>9, <1>10, <1>12, LedgerSteps DEF Lifecycle!Next
<1> QED
    BY <1>3, <1>11, <1>12

LEMMA StartsLifecycle == Init => Lifecycle!Init
<1> SUFFICES ASSUME Init PROVE Lifecycle!Init
    OBVIOUS
<1>1. \A u \in User : ledger[u] = << >>
    BY DEF Init, LedgerInit
<1>2. DOMAIN << >> = {}
    OBVIOUS
<1>3. \A b \in Bet, type \in TransactionType : Posted(Slip[b].user, type, b) = FALSE
    BY <1>1, <1>2, SlipType DEF Posted
<1> QED
    BY <1>3 DEF Init, Lifecycle!Init, HasEntry, TransactionType

LEMMA StageIsRight ==
    "reconnect" \notin Faults => (Spec /\ []SettlementsApart => []StageInv)
<1> SUFFICES ASSUME "reconnect" \notin Faults
             PROVE  Spec /\ []SettlementsApart => []StageInv
    OBVIOUS
<1>1. SettlementsApart /\ OwnBets /\ TypeOK /\ MoneyInv /\ StageInv /\ [Next]_vars => StageInv'
    BY OneMessageStays, UpdatesPendingStays, PaysAcceptedStays DEF StageInv
<1> QED
    BY <1>1, StageInit, FlowOwnBets, MoneyIsRight, FlowTypeCorrect, PTL DEF Spec

\* While settlements of one market do not overlap and the worker's channel is
\* not lost, every bet goes through the lifecycle one stage at a time,
\* whatever crashes, fails or is requested twice.
THEOREM FlowImplementsLifecycle ==
    "reconnect" \notin Faults => (Spec /\ []SettlementsApart => ImplementsLifecycle)
<1> SUFFICES ASSUME "reconnect" \notin Faults
             PROVE  Spec /\ []SettlementsApart => ImplementsLifecycle
    OBVIOUS
<1>1. Spec /\ []SettlementsApart => []StageInv
    BY StageIsRight
<1>2. TypeOK /\ MoneyInv /\ StageInv /\ PayInv /\ [Next]_vars
          => [Lifecycle!Next]_(Lifecycle!vars)
    BY StepFollowsLifecycle DEF PayInv
<1> QED
    BY <1>1, <1>2, PayIsRight, StartsLifecycle, MoneyIsRight, FlowTypeCorrect, PTL DEF Spec, ImplementsLifecycle, Lifecycle!Spec

\* A closed bet is neither opened again nor paid.
ClosedStaysClosed ==
    \A b \in Bet : bets[b] = "SETTLED" => bets'[b] = "SETTLED" /\ (Paid(b)' <=> Paid(b))

LEMMA LifecycleCloses == TypeOK /\ [Lifecycle!Next]_(Lifecycle!vars) => ClosedStaysClosed
<1> SUFFICES ASSUME TypeOK, [Lifecycle!Next]_(Lifecycle!vars),
                    NEW b \in Bet, bets[b] = "SETTLED"
             PROVE  bets'[b] = "SETTLED" /\ (Paid(b)' <=> Paid(b))
    BY DEF ClosedStaysClosed
<1>1. /\ HasEntry("CREDIT") = [d \in Bet |-> Paid(d)]
      /\ HasEntry("CREDIT")' = [d \in Bet |-> Paid(d)']
    BY DEF HasEntry, Paid
<1>2. HasEntry("CREDIT")[b] = Paid(b) /\ HasEntry("CREDIT")'[b] = Paid(b)'
    BY <1>1
<1>3. HasEntry("CREDIT")'[b] = HasEntry("CREDIT")[b] /\ bets'[b] = "SETTLED"
    <2>1. bets \in [Bet -> BetStatus \cup {"ABSENT"}]
        BY DEF TypeOK
    <2>2. CASE UNCHANGED Lifecycle!vars
        BY <2>2 DEF Lifecycle!vars
    <2>3. ASSUME NEW d \in Bet,
                 Lifecycle!Charge(d) \/ Lifecycle!Record(d) \/ Lifecycle!Accept(d) \/ Lifecycle!Close(d)
          PROVE  HasEntry("CREDIT")'[b] = HasEntry("CREDIT")[b] /\ bets'[b] = "SETTLED"
        BY <2>1, <2>3 DEF Lifecycle!Charge, Lifecycle!Record, Lifecycle!Accept, Lifecycle!Close,
                          Lifecycle!Move
    <2>4. ASSUME NEW d \in Bet, Lifecycle!PayOut(d)
          PROVE  HasEntry("CREDIT")'[b] = HasEntry("CREDIT")[b] /\ bets'[b] = "SETTLED"
        <3>1. b # d /\ bets' = bets
            BY <2>4 DEF Lifecycle!PayOut
        <3>2. HasEntry("CREDIT")' = [HasEntry("CREDIT") EXCEPT ![d] = TRUE]
            BY <2>4 DEF Lifecycle!PayOut
        <3> HIDE DEF HasEntry
        <3> QED
            BY <1>1, <3>1, <3>2
    <2> QED
        BY <2>2, <2>3, <2>4 DEF Lifecycle!Next
<1> QED
    BY <1>2, <1>3

\* While settlements of one market do not overlap and the worker's channel is
\* not lost, what a settled bet has come to is final: no redelivery, no crash
\* and no repeated settlement takes it back to ACCEPTED, pays it late or
\* undoes what it was paid.
THEOREM FlowClosedStaysClosed ==
    "reconnect" \notin Faults => (Spec /\ []SettlementsApart => [][ClosedStaysClosed]_vars)
<1> SUFFICES ASSUME "reconnect" \notin Faults
             PROVE  Spec /\ []SettlementsApart => [][ClosedStaysClosed]_vars
    OBVIOUS
<1>1. Spec /\ []SettlementsApart => ImplementsLifecycle
    BY FlowImplementsLifecycle
<1>2. TypeOK /\ [Lifecycle!Next]_(Lifecycle!vars) => [ClosedStaysClosed]_vars
    BY LifecycleCloses
<1> QED
    BY <1>1, <1>2, FlowTypeCorrect, PTL DEF ImplementsLifecycle, Lifecycle!Spec

-----------------------------------------------------------------------------
(* Markets: a call that is not overlapped by a settlement finds the market *)
(* as it was read.                                                         *)

SavesLive ==
    \A a \in Admin :
        (admin[a] # Idle /\ admin[a].pc = "save") => market[admin[a].market] # "SETTLED"

\* A market's row is written by three steps.
LEMMA MarketSteps ==
    ASSUME [Next]_vars
    PROVE  \/ UNCHANGED market
           \/ \E a \in Admin : SaveStatus(a) \/ MarkSettled(a)
           \/ \E a \in Admin, m \in Market : CreateMarket(a, m)
<1>1. ASSUME NEW q \in Request, PlaceBet(q) PROVE UNCHANGED market
    BY <1>1 DEF PlaceBet, CacheGet, LookupBet, AssertMarketOpen, DebitFind,
                DebitPost, InsertBet, CacheSet, Publish, Confirm
<1>2. ASSUME NEW w \in Worker, HandleMessage(w) PROVE UNCHANGED market
    BY <1>2 DEF HandleMessage, Deliver, ReadStatus, UpdateStatus, CheckTerminal, Answer
<1>3. ASSUME NEW a \in Admin, Administer(a)
      PROVE  UNCHANGED market \/ SaveStatus(a) \/ MarkSettled(a)
    BY <1>3 DEF Administer, FindAccepted, PickBet, CreditFind, CreditPost, CloseBet,
                NotifySettled, Announce
<1>4. ASSUME Environment
      PROVE  UNCHANGED market \/ \E a \in Admin, m \in Market : CreateMarket(a, m)
    BY <1>4 DEF Environment, Deposit, Receive, ExpireKey, StartUpdate, StartSettle
<1>5. ASSUME Failure PROVE UNCHANGED market
    BY <1>5 DEF Failure, RequestError, Republish, WorkerError, LoseChannel, BetError,
                AdminError, Crash, AnswerOnLostChannel, Restart
<1> QED
    BY <1>1, <1>2, <1>3, <1>4, <1>5 DEF Next, vars

\* A call is about to save only when it has just found the market live.
LEMMA SaveComesFromStart ==
    ASSUME TypeOK, [Next]_vars, NEW o \in Admin,
           admin'[o] # admin[o], admin'[o] # Idle, admin'[o].pc = "save"
    PROVE  UNCHANGED market /\ market[admin'[o].market] # "SETTLED"
<1>0. AdminType
    BY TypeParts
<1>1. ~Restart
    BY DEF Restart
<1>2. ASSUME NEW a \in Admin, Administer(a) PROVE FALSE
    <2>1. a = o
        BY <1>0, <1>2
           DEF Administer, SaveStatus, FindAccepted, PickBet, CreditFind, CreditPost,
               CloseBet, NotifySettled, MarkSettled, Announce, MoveOn, Finish,
               BackToLoop, AdminType
    <2>2. admin[o] # Idle
        BY <1>2, <2>1 DEF Administer, SaveStatus, FindAccepted, PickBet, CreditFind,
                    CreditPost, CloseBet, NotifySettled, MarkSettled, Announce, Managing
    <2> QED
        BY <1>0, <1>2, <2>1, <2>2, ManagingType, AdministerEffect
<1>3. ASSUME NEW a \in Admin, BetError(a) \/ AdminError(a) PROVE FALSE
    <2>1. a = o
        BY <1>0, <1>3 DEF BetError, AdminError, BackToLoop, Finish, AdminType
    <2> QED
        BY <1>0, <1>3, <2>1, ManagingType
           DEF BetError, AdminError, BackToLoop, Finish, AdminType, Administering
<1>4. Environment
    <2>1. ASSUME NEW q \in Request, PlaceBet(q) PROVE FALSE
        BY <2>1 DEF PlaceBet, CacheGet, LookupBet, AssertMarketOpen, DebitFind,
                    DebitPost, InsertBet, CacheSet, Publish, Confirm
    <2>2. ASSUME NEW w \in Worker, HandleMessage(w) PROVE FALSE
        BY <2>2 DEF HandleMessage, Deliver, ReadStatus, UpdateStatus, CheckTerminal, Answer
    <2>3. ~Failure
        BY <1>1, <1>3 DEF Failure, RequestError, Republish, WorkerError, LoseChannel,
                          Crash, AnswerOnLostChannel, handlers
    <2>4. ~UNCHANGED vars
        BY DEF vars, handlers
    <2> QED
        BY <1>2, <2>1, <2>2, <2>3, <2>4 DEF Next
<1>5. PICK a \in Admin, m \in Market :
          \/ CreateMarket(a, m)
          \/ \E status \in {"OPEN", "SUSPENDED"} : StartUpdate(a, m, status)
          \/ \E result \in MarketResult : StartSettle(a, m, result)
    BY <1>4 DEF Environment, Deposit, Receive, ExpireKey, handlers
<1>6. a = o /\ admin'[o].market = m
    BY <1>0, <1>5 DEF CreateMarket, StartUpdate, StartSettle, Begin, AdminType
<1>7. ~CreateMarket(a, m)
    BY <1>0, <1>6 DEF CreateMarket, Begin, AdminType
<1> QED
    BY <1>5, <1>6, <1>7 DEF StartUpdate, StartSettle

LEMMA SavesLiveStays ==
    ASSUME SavesApart, TypeOK, SavesLive, [Next]_vars
    PROVE  SavesLive'
<1>0. AdminType /\ AdminSteps /\ DataType
    BY TypeParts
<1> SUFFICES ASSUME NEW o \in Admin, admin'[o] # Idle, admin'[o].pc = "save"
             PROVE  market'[admin'[o].market] # "SETTLED"
    BY DEF SavesLive
<1>1. CASE admin'[o] = admin[o]
    <2> DEFINE m == admin[o].market
    <2>1. market[m] # "SETTLED" /\ Managing(o, "save")
        BY <1>1 DEF SavesLive, Managing
    <2>2. ASSUME NEW a \in Admin, SaveStatus(a) PROVE market'[m] # "SETTLED"
        <3>1. admin[a].arg \in {"OPEN", "SUSPENDED"}
            BY <1>0, <2>2 DEF SaveStatus, Managing, AdminSteps
        <3> QED
            BY <1>0, <2>1, <2>2, <3>1 DEF SaveStatus, DataType
    <2>3. ASSUME NEW a \in Admin, MarkSettled(a) PROVE market'[m] # "SETTLED"
        <3>1. Settling(a)
            BY <1>0, <2>3 DEF MarkSettled, Managing, AdminSteps, Settling
        <3>2. admin[a].market # m
            BY <2>1, <3>1 DEF SavesApart
        <3> QED
            BY <1>0, <2>1, <2>3, <3>2 DEF MarkSettled, DataType
    <2>4. ASSUME NEW a \in Admin, NEW n \in Market, CreateMarket(a, n)
          PROVE  market'[m] # "SETTLED"
        BY <1>0, <2>1, <2>4 DEF CreateMarket, DataType
    <2> QED
        BY <1>1, <2>1, <2>2, <2>3, <2>4, MarketSteps
<1>2. CASE admin'[o] # admin[o]
    BY <1>2, SaveComesFromStart
<1> QED
    BY <1>1, <1>2

\* Where no status is saved into a settlement that is under way, a settled
\* market stays settled, however many calls work on it.
THEOREM FlowSettledMarketIsFinal == Spec /\ []SavesApart => SettledMarketIsFinal
<1>1. Init => SavesLive
    BY DEF Init, SavesLive
<1>2. SavesApart /\ TypeOK /\ SavesLive /\ [Next]_vars => SavesLive'
    BY SavesLiveStays
<1>3. TypeOK /\ SavesLive /\ [Next]_vars
          => [\A m \in Market : market[m] = "SETTLED" => market'[m] = "SETTLED"]_vars
    <2> SUFFICES ASSUME TypeOK, SavesLive, [Next]_vars,
                        NEW m \in Market, market[m] = "SETTLED"
                 PROVE  market'[m] = "SETTLED"
        OBVIOUS
    <2>1. DataType /\ AdminType
        BY TypeParts
    <2>2. ASSUME NEW a \in Admin, SaveStatus(a) PROVE market'[m] = "SETTLED"
        BY <2>1, <2>2 DEF SaveStatus, Managing, SavesLive, DataType
    <2>3. ASSUME NEW a \in Admin, MarkSettled(a) PROVE market'[m] = "SETTLED"
        BY <2>1, <2>3 DEF MarkSettled, DataType
    <2>4. ASSUME NEW a \in Admin, NEW n \in Market, CreateMarket(a, n)
          PROVE  market'[m] = "SETTLED"
        BY <2>1, <2>4 DEF CreateMarket, DataType
    <2> QED
        BY <2>2, <2>3, <2>4, MarketSteps
<1> QED
    BY <1>1, <1>2, <1>3, FlowTypeCorrect, PTL DEF Spec, SettledMarketIsFinal

-----------------------------------------------------------------------------
(* While nothing fails.                                                    *)

Closing(b) == \E a \in Admin : admin[a] # Idle /\ admin[a].pc = "close" /\ admin[a].bet = b

\* A payout on a bet that is still open is being closed by the one who paid.
PaidIsClosing == \A b \in Bet : (Paid(b) /\ bets[b] = "ACCEPTED") => Closing(b)

\* Only a WIN pays, and a LOSS closes a bet that is not paid.
LossKnows ==
    \A a \in Admin : admin[a] # Idle =>
        /\ admin[a].pc \in {"credit", "post"} => admin[a].arg = "WIN"
        /\ admin[a].pc \in {"close", "notify"} /\ admin[a].arg = "LOSS" => ~Paid(admin[a].bet)
        /\ admin[a].pc = "notify" => bets[admin[a].bet] = "SETTLED"
LossNotes ==
    \A b \in Bet : [bet |-> b, result |-> "LOSS"] \in notes =>
        bets[b] = "SETTLED" /\ ~Paid(b)
LossInv == PaidIsClosing /\ LossKnows /\ LossNotes

LEMMA LossInit == Init => LossInv
<1> SUFFICES ASSUME Init PROVE LossInv
    OBVIOUS
<1>1. bets = [b \in Bet |-> "ABSENT"] /\ notes = {} /\ admin = [a \in Admin |-> Idle]
    BY DEF Init
<1> QED
    BY <1>1 DEF LossInv, PaidIsClosing, LossKnows, LossNotes

LEMMA NothingFails == ASSUME Faults = {}, OneMessage PROVE ~Failure
    BY DEF Failure, RequestError, Republish, WorkerError, LoseChannel, BetError,
           AdminError, Crash, AnswerOnLostChannel, OneMessage

LEMMA LossStays ==
    ASSUME Faults = {}, SettlementsApart, OwnBets, TypeOK, MoneyInv, StageInv, LossInv,
           [Next]_vars
    PROVE  LossInv'
<1>0. /\ AdminType /\ AdminSteps /\ DataType /\ LedgerTypeOK /\ Booked
      /\ PaysAccepted /\ PaidIsClosing /\ LossKnows /\ LossNotes
    BY TypeParts DEF StageInv, MoneyInv, LossInv
<1>1. \A a, o \in Admin, b \in Bet : (InHands(a, b) /\ InHands(o, b)) => a = o
    BY OneHand
<1>2. ASSUME NEW b \in Bet, bets[b] = "SETTLED" PROVE bets'[b] = "SETTLED"
    BY <1>0, <1>2, StageSteps DEF InsertBet, UpdateStatus, CloseBet, DataType, StageInv
\* Who pays has a WIN in hand, and closes next.
<1>3. ASSUME NEW b \in Bet, Paid(b)', ~Paid(b)
      PROVE  \E a \in Admin :
                 /\ CreditPost(a) /\ admin[a].bet = b /\ admin[a].pc = "post"
                 /\ admin[a] # Idle /\ admin[a] \in Administering
                 /\ bets[b] = "ACCEPTED" /\ admin[a].arg = "WIN"
                 /\ admin'[a] # Idle /\ admin'[a].pc = "close" /\ admin'[a].bet = b
                 /\ admin'[a].arg = "WIN"
    <2>1. PICK a \in Admin : CreditPost(a) /\ CanCredit(b) /\ admin[a].bet = b
        BY <1>3, RowsStayExact
    <2>2. admin[a] # Idle /\ admin[a].pc = "post" /\ admin[a] \in Administering
        BY <1>0, <2>1, ManagingType DEF CreditPost, Managing
    <2>3. bets[b] = "ACCEPTED" /\ admin[a].arg = "WIN"
        BY <1>0, <2>1, <2>2 DEF PaysAccepted, LossKnows
    <2>4. MoveOn(a, "close")
        BY <2>1 DEF CreditPost
    <2>5. admin'[a] = [admin[a] EXCEPT !.pc = "close"]
        BY <1>0, <2>4 DEF MoveOn, AdminType
    <2>6. admin'[a].pc = "close" /\ admin'[a].bet = b /\ admin'[a].arg = "WIN"
        BY <2>1, <2>2, <2>3, <2>5 DEF Administering
    <2> QED
        BY <2>1, <2>2, <2>3, <2>6 DEF Idle
<1>4. ASSUME NEW a \in Admin, admin[a] # Idle, admin[a].pc = "close", admin'[a] # admin[a]
      PROVE  CloseBet(a)
    <2>1. ~Failure
        BY NothingFails DEF StageInv
    <2>2. ~Environment
        <3>1. \A o \in Admin, m \in Market : \A pc, arg : ~Begin(o, pc, m, arg)
            BY <1>0, <1>4 DEF Begin, AdminType
        <3> QED
            BY <1>4, <3>1 DEF Environment, Deposit, Receive, ExpireKey, CreateMarket,
                              StartUpdate, StartSettle, handlers
    <2>3. ASSUME NEW q \in Request, PlaceBet(q) PROVE FALSE
        BY <1>4, <2>3 DEF PlaceBet, CacheGet, LookupBet, AssertMarketOpen, DebitFind,
                    DebitPost, InsertBet, CacheSet, Publish, Confirm
    <2>4. ASSUME NEW w \in Worker, HandleMessage(w) PROVE FALSE
        BY <1>4, <2>4 DEF HandleMessage, Deliver, ReadStatus, UpdateStatus, CheckTerminal,
                    Answer
    <2>5. ASSUME NEW o \in Admin, Administer(o) PROVE o = a
        BY <1>0, <1>4, <2>5
           DEF Administer, SaveStatus, FindAccepted, PickBet, CreditFind, CreditPost,
               CloseBet, NotifySettled, MarkSettled, Announce, MoveOn, Finish,
               BackToLoop, AdminType
    <2>6. Administer(a)
        BY <1>4, <2>1, <2>2, <2>3, <2>4, <2>5 DEF Next, vars, handlers
    <2> QED
        BY <1>4, <2>6 DEF Administer, SaveStatus, FindAccepted, PickBet, CreditFind,
               CreditPost, NotifySettled, MarkSettled, Announce, Managing
<1>5. PaidIsClosing'
    <2> SUFFICES ASSUME NEW b \in Bet, Paid(b)', bets'[b] = "ACCEPTED"
                 PROVE  \E a \in Admin : /\ admin'[a] # Idle /\ admin'[a].pc = "close"
                                         /\ admin'[a].bet = b
        BY DEF PaidIsClosing, Closing
    <2>1. CASE ~Paid(b)
        BY <1>3, <2>1
    <2>2. CASE Paid(b)
        <3>1. bets[b] = "ACCEPTED"
            BY <1>0, <1>2, <2>2 DEF Booked, Taken
        <3>2. PICK a \in Admin : admin[a] # Idle /\ admin[a].pc = "close" /\ admin[a].bet = b
            BY <1>0, <2>2, <3>1 DEF PaidIsClosing, Closing
        <3>3. admin'[a] = admin[a]
            <4> SUFFICES ASSUME admin'[a] # admin[a] PROVE FALSE
                OBVIOUS
            <4>1. CloseBet(a)
                BY <1>4, <3>2
            <4> QED
                BY <1>0, <3>2, <4>1 DEF CloseBet, DataType
        <3> QED
            BY <3>2, <3>3
    <2> QED
        BY <2>1, <2>2
<1>6. LossKnows'
    <2> SUFFICES ASSUME NEW o \in Admin, admin'[o] # Idle, NEW b, b = admin'[o].bet
                 PROVE  /\ admin'[o].pc \in {"credit", "post"} => admin'[o].arg = "WIN"
                        /\ admin'[o].pc \in {"close", "notify"} /\ admin'[o].arg = "LOSS" =>
                               ~Paid(b)'
                        /\ admin'[o].pc = "notify" => bets'[b] = "SETTLED"
        BY DEF LossKnows
    <2>1. CASE admin'[o] = admin[o]
        <3>1. admin[o].pc \in {"close", "notify"} => b \in Bet
            BY <1>0, <2>1 DEF AdminSteps
        <3>2. ASSUME b \in Bet, Paid(b)', admin[o].pc \in {"close", "notify"} PROVE Paid(b)
            <4> SUFFICES ASSUME ~Paid(b) PROVE FALSE
                OBVIOUS
            <4>1. PICK a \in Admin : /\ admin[a].bet = b /\ admin[a].pc = "post"
                                     /\ admin[a] # Idle
                BY <1>3, <3>2
            <4>2. InHands(a, b) /\ InHands(o, b)
                BY <2>1, <3>2, <4>1 DEF InHands, Handling
            <4> QED
                BY <1>1, <3>2, <4>1, <4>2
        <3> QED
            BY <1>0, <1>2, <2>1, <3>1, <3>2 DEF LossKnows
    <2>2. CASE admin'[o] # admin[o] /\ admin'[o].pc \in {"credit", "post", "close", "notify"}
        <3>1. Administer(o) /\ admin[o] # Idle /\ admin[o] \in Administering
            BY <2>2, AdminEffect
        <3>2. CASE CreditFind(o)
            <4>1. \E pc : admin'[o] = [admin[o] EXCEPT !.pc = pc]
                BY <1>0, <3>2 DEF CreditFind, MoveOn, AdminType
            <4>2. admin'[o].arg = "WIN"
                BY <1>0, <3>1, <3>2, <4>1 DEF CreditFind, Managing, LossKnows, Administering
            <4>3. admin'[o].pc \in {"post", "close"}
                BY <1>0, <3>1, <3>2, AdministerEffect DEF CreditFind, MoveOn, AdminType, Administering
            <4> QED
                BY <4>2, <4>3
        <3>3. CASE CreditPost(o) /\ CanCredit(admin[o].bet) /\ admin'[o].pc = "close"
            <4>1. \E pc : admin'[o] = [admin[o] EXCEPT !.pc = pc]
                BY <1>0, <3>3 DEF CreditPost, MoveOn, AdminType
            <4>2. admin'[o].arg = "WIN"
                BY <1>0, <3>1, <3>3, <4>1 DEF CreditPost, Managing, LossKnows, Administering
            <4> QED
                BY <3>3, <4>2
        <3>4. CASE CloseBet(o) /\ admin'[o].pc = "notify"
            <4>1. admin'[o] = [admin[o] EXCEPT !.pc = "notify"]
                BY <1>0, <3>4 DEF CloseBet, MoveOn, AdminType
            <4>2. /\ b = admin[o].bet /\ admin'[o].arg = admin[o].arg /\ b \in Bet
                  /\ admin[o].pc = "close"
                BY <1>0, <3>1, <3>4, <4>1 DEF CloseBet, Managing, AdminSteps, Administering
            <4>3. bets'[b] = "SETTLED" /\ UNCHANGED money
                BY <1>0, <3>4, <4>2 DEF CloseBet, DataType
            <4>4. Paid(b)' => Paid(b)
                BY <4>3 DEF Paid, Posted, money
            <4> QED
                BY <1>0, <3>1, <3>4, <4>2, <4>3, <4>4 DEF LossKnows
        <3>5. ASSUME NEW c \in Bet, PickBet(o, c)
              PROVE  /\ admin'[o].pc = "credit" => admin'[o].arg = "WIN"
                     /\ b = c /\ ~Paid(c)' /\ admin'[o].pc \in {"credit", "close"}
            <4>1. /\ admin'[o].pc = IF admin[o].arg = "WIN" THEN "credit" ELSE "close"
                  /\ admin'[o].bet = c /\ admin'[o].arg = admin[o].arg
                BY <1>0, <3>1, <3>5 DEF PickBet, AdminType, Administering
            <4>2. bets[c] = "ACCEPTED" /\ admin[o].pc = "loop" /\ UNCHANGED money
                BY <1>0, <3>1, <3>5 DEF PickBet, Managing, PaysAccepted
            <4>3. ~Paid(c)
                <5> SUFFICES ASSUME Paid(c) PROVE FALSE
                    OBVIOUS
                <5>1. PICK a \in Admin : /\ admin[a] # Idle /\ admin[a].pc = "close"
                                         /\ admin[a].bet = c
                    BY <1>0, <4>2 DEF PaidIsClosing, Closing
                <5>2. InHands(a, c) /\ InHands(o, c)
                    BY <3>1, <3>5, <5>1 DEF InHands, Handling, PickBet
                <5> QED
                    BY <1>1, <4>2, <5>1, <5>2
            <4> QED
                BY <4>1, <4>2, <4>3 DEF Paid, Posted, money
        <3> QED
            BY <1>0, <2>2, <3>1, <3>2, <3>3, <3>4, <3>5, AdministerEffect
    <2> QED
        BY <2>1, <2>2
<1>7. LossNotes'
    <2> SUFFICES ASSUME NEW b \in Bet, [bet |-> b, result |-> "LOSS"] \in notes'
                 PROVE  bets'[b] = "SETTLED" /\ ~Paid(b)'
        BY DEF LossNotes
    <2>1. bets[b] = "SETTLED" /\ ~Paid(b)
        <3>1. CASE [bet |-> b, result |-> "LOSS"] \in notes
            BY <1>0, <3>1 DEF LossNotes
        <3>2. CASE [bet |-> b, result |-> "LOSS"] \notin notes
            <4>1. PICK a \in Admin : NotifySettled(a)
                BY <3>2, NoteSteps
            <4>2. admin[a].bet = b /\ admin[a].arg = "LOSS"
                BY <3>2, <4>1 DEF NotifySettled
            <4> QED
                BY <1>0, <4>1, <4>2 DEF NotifySettled, Managing, LossKnows
        <3> QED
            BY <3>1, <3>2
    <2>2. ~Paid(b)'
        BY <1>3, <2>1
    <2> QED
        BY <1>2, <2>1, <2>2
<1> QED
    BY <1>5, <1>6, <1>7 DEF LossInv

\* Who is told that a bet was lost has not been paid for it: a credit comes
\* only from a WIN, and is followed by the closing of its bet.
THEOREM FlowLossPaysNothing ==
    Faults = {} => (Spec /\ []SettlementsApart => []LossPaysNothing)
<1> SUFFICES ASSUME Faults = {} PROVE Spec /\ []SettlementsApart => []LossPaysNothing
    OBVIOUS
<1>1. Spec /\ []SettlementsApart => []StageInv
    BY StageIsRight
<1>2. /\ SettlementsApart /\ OwnBets /\ TypeOK /\ MoneyInv /\ StageInv
      /\ LossInv /\ [Next]_vars
      => LossInv'
    BY LossStays
<1>3. LossInv => LossPaysNothing
    BY DEF LossInv, LossNotes, LossPaysNothing, Paid, Posted, Entries
<1> QED
    BY <1>1, <1>2, <1>3, FlowOwnBets, LossInit, MoneyIsRight, FlowTypeCorrect, PTL DEF Spec

\* The request that has recorded a bet and not yet published it, and the
\* worker that has not yet accepted the bet of its message.
Sending(q) == req[q] # Idle /\ req[q].pc \in {"cache", "publish"}
Taking(w) == worker[w] # Idle /\ worker[w].pc \in {"read", "update"}

\* A PENDING bet is in exactly one place: with its request, in the queue, or
\* in the worker's hands.
OnQueue == \A b \in queue : bets[b] = "PENDING"
InHand ==
    \A w \in Worker : worker[w] # Idle =>
        /\ worker[w].pc \in {"read", "update", "ack"}
        /\ Taking(w) => bets[worker[w].bet] = "PENDING" /\ worker[w].bet \notin queue
ToSend ==
    \A q \in Request : Sending(q) =>
        /\ bets[req[q].bet] = "PENDING" /\ req[q].bet \notin queue
        /\ \A w \in Worker : Taking(w) => worker[w].bet # req[q].bet
        /\ \A p \in Request : Sending(p) /\ req[p].bet = req[q].bet => p = q
OnItsWay ==
    \A b \in Bet : bets[b] = "PENDING" =>
        \/ b \in queue
        \/ \E q \in Request : Sending(q) /\ req[q].bet = b
        \/ \E w \in Worker : Taking(w) /\ worker[w].bet = b
JourneyInv == OnQueue /\ InHand /\ ToSend /\ OnItsWay /\ dead = {}

LEMMA JourneyInit == Init => JourneyInv
    BY DEF Init, JourneyInv, OnQueue, InHand, ToSend, OnItsWay, Sending, Taking

\* Steps that neither move a message nor change which bets are PENDING.
LEMMA QuietJourney ==
    ASSUME TypeOK, JourneyInv, UNCHANGED <<queue, dead, worker>>,
           \A b \in Bet : bets'[b] = "PENDING" <=> bets[b] = "PENDING",
           \A q \in Request : /\ Sending(q)' <=> Sending(q)
                              /\ Sending(q) => req'[q].bet = req[q].bet
    PROVE  JourneyInv'
<1>0. ReqType /\ WorkerType /\ queue \subseteq Bet
    BY TypeParts DEF DataType
<1>1. \A w \in Worker : /\ Taking(w)' <=> Taking(w)
                        /\ Taking(w) => worker[w].bet \in Bet
    BY <1>0, WorkingType DEF Taking
<1>2. \A q \in Request : Sending(q) => req[q].bet \in Bet
    BY <1>0, PlacedType DEF Sending
<1> HIDE DEF Sending, Taking
<1>3. OnQueue'
    BY <1>0 DEF JourneyInv, OnQueue
<1>4. InHand'
    BY <1>1 DEF JourneyInv, InHand
<1>5. ToSend'
    BY <1>1, <1>2 DEF JourneyInv, ToSend
<1>6. OnItsWay'
    BY <1>1 DEF JourneyInv, OnItsWay
<1> QED
    BY <1>3, <1>4, <1>5, <1>6 DEF JourneyInv

LEMMA PlaceBetJourney ==
    ASSUME TypeOK, JourneyInv, NEW q \in Request, PlaceBet(q)
    PROVE  JourneyInv'
<1>0. ReqType /\ WorkerType /\ DataType
    BY TypeParts
<1>1. ASSUME NEW pc \in PlaceStep, Proceed(q, pc), req[q] # Idle
      PROVE  /\ \A p \in Request \ {q} : req'[p] = req[p]
             /\ req'[q].bet = req[q].bet /\ req'[q].pc = pc /\ req'[q] # Idle
    <2>1. req'[q] = [req[q] EXCEPT !.pc = pc] /\ \A p \in Request \ {q} : req'[p] = req[p]
        BY <1>0, <1>1 DEF Proceed, ReqType
    <2> QED
        BY <1>0, <1>1, <2>1, PlacedType DEF Placing, PlaceStep, Idle
<1>2. ASSUME Return(q)
      PROVE  req'[q] = Idle /\ \A p \in Request \ {q} : req'[p] = req[p]
    BY <1>0, <1>2 DEF Return, ReqType
<1>3. ASSUME NEW pc \in PlaceStep \ {"cache", "publish"}, Placed(q, pc),
             UNCHANGED <<bets, queue, dead, worker>>,
             Return(q) \/ \E next \in PlaceStep \ {"cache", "publish"} : Proceed(q, next)
      PROVE  JourneyInv'
    <2>1. \A p \in Request : /\ Sending(p)' <=> Sending(p)
                             /\ Sending(p) => req'[p].bet = req[p].bet
        BY <1>1, <1>2, <1>3 DEF Placed, Sending
    <2> QED
        BY <1>3, <2>1, QuietJourney
<1>4. CASE \/ CacheGet(q) \/ LookupBet(q) \/ AssertMarketOpen(q) \/ DebitFind(q)
           \/ DebitPost(q) \/ Confirm(q)
    <2>1. \E pc \in PlaceStep \ {"cache", "publish"} : Placed(q, pc)
        BY <1>4 DEF CacheGet, LookupBet, AssertMarketOpen, DebitFind, DebitPost,
                    Confirm, PlaceStep
    <2>2. Return(q) \/ \E next \in PlaceStep \ {"cache", "publish"} : Proceed(q, next)
        BY <1>4 DEF CacheGet, LookupBet, AssertMarketOpen, DebitFind, DebitPost,
                    Confirm, PlaceStep
    <2>3. UNCHANGED <<bets, queue, dead, worker>>
        BY <1>4 DEF CacheGet, LookupBet, AssertMarketOpen, DebitFind, DebitPost,
                    Confirm, broker
    <2> QED
        BY <1>3, <2>1, <2>2, <2>3
<1>5. CASE InsertBet(q) /\ UNCHANGED bets
    <2>1. Return(q)
        BY <1>0, <1>5, PlacedType DEF InsertBet, Placed, DataType
    <2> QED
        BY <1>3, <1>5, <2>1 DEF InsertBet, PlaceStep, broker
<1>6. CASE CacheSet(q)
    <2>1. Proceed(q, "publish") /\ req[q] # Idle /\ Sending(q) /\ "publish" \in PlaceStep
        BY <1>6 DEF CacheSet, Placed, Sending, PlaceStep
    <2>2. \A p \in Request : /\ Sending(p)' <=> Sending(p)
                             /\ Sending(p) => req'[p].bet = req[p].bet
        BY <1>1, <2>1 DEF Sending
    <2> QED
        BY <1>6, <2>2, QuietJourney DEF CacheSet, broker
<1>7. CASE InsertBet(q) /\ ~UNCHANGED bets
    <2>1. PICK c \in Bet : c = req[q].bet
        BY <1>0, <1>7, PlacedType DEF InsertBet, Placed
    <2>2. /\ bets[c] = "ABSENT" /\ bets' = [bets EXCEPT ![c] = "PENDING"]
          /\ Proceed(q, "cache") /\ req[q] # Idle /\ "cache" \in PlaceStep
          /\ ~Sending(q) /\ UNCHANGED <<queue, dead, worker>>
        BY <1>7, <2>1 DEF InsertBet, Placed, Sending, PlaceStep, broker
    <2>3. /\ Sending(q)' /\ req'[q].bet = c
          /\ \A p \in Request \ {q} : /\ Sending(p)' <=> Sending(p)
                                      /\ req'[p] = req[p]
        BY <1>1, <2>1, <2>2 DEF Sending
    <2>4. \A w \in Worker : /\ Taking(w)' <=> Taking(w)
                            /\ Taking(w) => worker[w].bet \in Bet
        BY <1>0, <2>2, WorkingType DEF Taking
    <2>5. \A p \in Request : Sending(p) => req[p].bet \in Bet
        BY <1>0, PlacedType DEF Sending
    <2>6. /\ bets'[c] = "PENDING"
          /\ \A b \in Bet \ {c} : bets'[b] = bets[b]
        BY <1>0, <2>2 DEF DataType
    <2>7. /\ c \notin queue
          /\ \A w \in Worker : Taking(w) => worker[w].bet # c
          /\ \A p \in Request : Sending(p) => req[p].bet # c
        BY <1>0, <2>2, <2>4, <2>5 DEF JourneyInv, OnQueue, InHand, ToSend, Taking
    <2>8. OnQueue'
        BY <1>0, <2>2, <2>6, <2>7 DEF JourneyInv, OnQueue, DataType
    <2>9. InHand'
        BY <2>2, <2>4, <2>6, <2>7 DEF JourneyInv, InHand
    <2>10. ToSend'
        BY <2>2, <2>3, <2>4, <2>5, <2>6, <2>7 DEF JourneyInv, ToSend
    <2>11. OnItsWay'
        BY <2>2, <2>3, <2>4, <2>6 DEF JourneyInv, OnItsWay
    <2> QED
        BY <2>2, <2>8, <2>9, <2>10, <2>11 DEF JourneyInv
<1>8. CASE Publish(q)
    <2>1. PICK c \in Bet : c = req[q].bet
        BY <1>0, <1>8, PlacedType DEF Publish, Placed
    <2>2. /\ queue' = queue \cup {c} /\ Sending(q)
          /\ Proceed(q, "confirm") /\ req[q] # Idle /\ "confirm" \in PlaceStep
          /\ UNCHANGED <<bets, dead, worker>>
        BY <1>8, <2>1 DEF Publish, Placed, Sending, PlaceStep
    <2>3. /\ ~Sending(q)'
          /\ \A p \in Request \ {q} : /\ Sending(p)' <=> Sending(p)
                                      /\ req'[p] = req[p]
        BY <1>1, <2>1, <2>2 DEF Sending
    <2>4. \A w \in Worker : Taking(w)' <=> Taking(w)
        BY <2>2 DEF Taking
    <2>5. /\ bets[c] = "PENDING"
          /\ \A w \in Worker : Taking(w) => worker[w].bet # c
          /\ \A p \in Request \ {q} : Sending(p) => req[p].bet # c
        BY <2>1, <2>2 DEF JourneyInv, ToSend
    <2>6. OnQueue'
        BY <2>2, <2>5 DEF JourneyInv, OnQueue
    <2>7. InHand'
        BY <2>2, <2>4, <2>5 DEF JourneyInv, InHand
    <2>8. ToSend'
        BY <2>2, <2>3, <2>4, <2>5 DEF JourneyInv, ToSend
    <2>9. OnItsWay'
        BY <2>1, <2>2, <2>3, <2>4 DEF JourneyInv, OnItsWay
    <2> QED
        BY <2>2, <2>6, <2>7, <2>8, <2>9 DEF JourneyInv
<1> QED
    BY <1>4, <1>5, <1>6, <1>7, <1>8 DEF PlaceBet

LEMMA HandleMessageJourney ==
    ASSUME TypeOK, OneMessage, JourneyInv, NEW w \in Worker, HandleMessage(w)
    PROVE  JourneyInv'
<1>0. ReqType /\ WorkerType /\ DataType
    BY TypeParts
<1>1. ASSUME NEW pc \in {"read", "update", "terminal", "ack", "nack"}, Continue(w, pc),
             worker[w] # Idle
      PROVE  /\ \A v \in Worker \ {w} : worker'[v] = worker[v]
             /\ worker'[w].bet = worker[w].bet /\ worker'[w].pc = pc /\ worker'[w] # Idle
    <2>1. worker'[w] = [worker[w] EXCEPT !.pc = pc] /\ \A v \in Worker \ {w} : worker'[v] = worker[v]
        BY <1>0, <1>1 DEF Continue, WorkerType
    <2> QED
        BY <1>0, <1>1, <2>1, WorkingType DEF Accepting, Idle
<1>2. /\ \A v \in Worker : Taking(v) => worker[v].bet \in Bet
      /\ \A q \in Request : Sending(q) => req[q].bet \in Bet
    BY <1>0, WorkingType, PlacedType DEF Taking, Sending
<1>3. UNCHANGED req => \A q \in Request : Sending(q)' <=> Sending(q)
    BY DEF Sending
<1>4. ASSUME NEW b \in Bet, Deliver(w, b) PROVE JourneyInv'
    <2>1. /\ b \in queue /\ queue' = queue \ {b} /\ worker[w] = Idle
          /\ worker' = [worker EXCEPT ![w] = [pc |-> "read", bet |-> b, live |-> TRUE]]
          /\ UNCHANGED <<bets, dead, req>>
        BY <1>4 DEF Deliver
    <2>2. /\ ~Taking(w) /\ Taking(w)' /\ worker'[w].bet = b /\ worker'[w].pc = "read"
          /\ \A v \in Worker \ {w} : worker'[v] = worker[v] /\ (Taking(v)' <=> Taking(v))
        BY <1>0, <2>1 DEF Taking, WorkerType, Idle
    <2>3. /\ bets[b] = "PENDING"
          /\ \A v \in Worker : Taking(v) => worker[v].bet # b
          /\ \A q \in Request : Sending(q) => req[q].bet # b
        BY <2>1 DEF JourneyInv, OnQueue, InHand, ToSend, Taking
    <2> HIDE DEF Taking
    <2>4. OnQueue'
        BY <2>1 DEF JourneyInv, OnQueue
    <2>5. InHand'
        BY <2>1, <2>2, <2>3 DEF JourneyInv, InHand
    <2>6. ToSend'
        BY <1>3, <2>1, <2>2, <2>3 DEF JourneyInv, ToSend
    <2>7. OnItsWay'
        BY <1>3, <2>1, <2>2 DEF JourneyInv, OnItsWay
    <2> QED
        BY <2>1, <2>4, <2>5, <2>6, <2>7 DEF JourneyInv
<1>5. CASE ReadStatus(w)
    <2>1. worker[w] # Idle /\ Taking(w) /\ UNCHANGED <<bets, queue, dead, req>>
        BY <1>5 DEF ReadStatus, Working, Taking, broker
    <2>2. bets[worker[w].bet] = "PENDING"
        BY <2>1 DEF JourneyInv, InHand
    <2>3. "ACCEPTED" \in ALLOWED_TRANSITIONS["PENDING"]
        BY DEF ALLOWED_TRANSITIONS, BetStatus
    <2>4. Continue(w, "update")
        BY <1>5, <2>2, <2>3 DEF ReadStatus
    <2>5. /\ worker'[w].bet = worker[w].bet /\ worker'[w].pc = "update" /\ Taking(w)'
          /\ \A v \in Worker \ {w} : worker'[v] = worker[v] /\ (Taking(v)' <=> Taking(v))
        BY <1>1, <2>1, <2>4 DEF Taking
    <2> HIDE DEF Taking
    <2>6. OnQueue' /\ InHand'
        BY <2>1, <2>5 DEF JourneyInv, OnQueue, InHand
    <2>7. ToSend'
        BY <1>3, <2>1, <2>5 DEF JourneyInv, ToSend
    <2>8. OnItsWay'
        BY <1>3, <2>1, <2>5 DEF JourneyInv, OnItsWay
    <2> QED
        BY <2>1, <2>6, <2>7, <2>8 DEF JourneyInv
<1>6. CASE UpdateStatus(w)
    <2>1. /\ worker[w] # Idle /\ Taking(w) /\ Continue(w, "ack")
          /\ bets' = [bets EXCEPT ![worker[w].bet] = "ACCEPTED"]
          /\ UNCHANGED <<queue, dead, req>>
        BY <1>6 DEF UpdateStatus, Working, Taking, broker
    <2>2. PICK c \in Bet : c = worker[w].bet
        BY <1>2, <2>1
    <2>3. /\ bets'[c] = "ACCEPTED" /\ \A b \in Bet \ {c} : bets'[b] = bets[b]
        BY <1>0, <2>1, <2>2 DEF DataType
    <2>4. /\ worker'[w].bet = c /\ worker'[w].pc = "ack" /\ ~Taking(w)'
          /\ \A v \in Worker \ {w} : worker'[v] = worker[v] /\ (Taking(v)' <=> Taking(v))
        BY <1>1, <2>1, <2>2 DEF Taking
    <2>5. /\ c \notin queue
          /\ \A q \in Request : Sending(q) => req[q].bet # c
        BY <2>1, <2>2 DEF JourneyInv, InHand, ToSend
    <2>6. \A v \in Worker \ {w} : ~Taking(v)
        BY <2>1 DEF OneMessage, Taking
    <2> HIDE DEF Taking
    <2>7. OnQueue'
        BY <1>0, <2>1, <2>3, <2>5 DEF JourneyInv, OnQueue, DataType
    <2>8. InHand'
        BY <2>4, <2>6 DEF JourneyInv, InHand
    <2>9. ToSend'
        BY <1>2, <1>3, <2>1, <2>3, <2>4, <2>5, <2>6 DEF JourneyInv, ToSend
    <2>10. OnItsWay'
        BY <1>3, <2>1, <2>2, <2>3, <2>4 DEF JourneyInv, OnItsWay
    <2> QED
        BY <2>1, <2>7, <2>8, <2>9, <2>10 DEF JourneyInv
<1>7. ~CheckTerminal(w)
    BY DEF CheckTerminal, Working, JourneyInv, InHand
<1>8. CASE Answer(w)
    <2>1. /\ worker[w] # Idle /\ worker[w].pc = "ack" /\ ~Taking(w)
          /\ worker' = [worker EXCEPT ![w] = Idle]
          /\ UNCHANGED <<bets, queue, dead, req>>
        BY <1>8 DEF Answer, Holds, Working, Taking, JourneyInv, InHand
    <2>2. /\ worker'[w] = Idle /\ ~Taking(w)'
          /\ \A v \in Worker \ {w} : worker'[v] = worker[v] /\ (Taking(v)' <=> Taking(v))
        BY <1>0, <2>1 DEF Taking, WorkerType
    <2> HIDE DEF Taking
    <2>3. OnQueue' /\ InHand'
        BY <2>1, <2>2 DEF JourneyInv, OnQueue, InHand
    <2>4. ToSend'
        BY <1>3, <2>1, <2>2 DEF JourneyInv, ToSend
    <2>5. OnItsWay'
        BY <1>3, <2>1, <2>2 DEF JourneyInv, OnItsWay
    <2> QED
        BY <2>1, <2>3, <2>4, <2>5 DEF JourneyInv
<1> QED
    BY <1>4, <1>5, <1>6, <1>7, <1>8 DEF HandleMessage

LEMMA OthersJourney ==
    ASSUME TypeOK, MoneyInv, JourneyInv,
           Environment \/ UNCHANGED vars \/ \E a \in Admin : Administer(a)
    PROVE  JourneyInv'
<1>0. ReqType /\ AdminSteps /\ DataType /\ AdminKnows
    BY TypeParts DEF MoneyInv
<1>1. UNCHANGED req => \A q \in Request : /\ Sending(q)' <=> Sending(q)
                                          /\ Sending(q) => req'[q].bet = req[q].bet
    BY DEF Sending
<1>2. ASSUME NEW a \in Admin, CloseBet(a) PROVE JourneyInv'
    <2>1. PICK c \in Bet : c = admin[a].bet
        BY <1>0, <1>2 DEF CloseBet, Managing, AdminSteps
    <2>2. bets[c] # "PENDING" /\ bets' = [bets EXCEPT ![c] = "SETTLED"]
        BY <1>0, <1>2, <2>1 DEF CloseBet, Managing, AdminKnows, Taken
    <2>3. \A b \in Bet : bets'[b] = "PENDING" <=> bets[b] = "PENDING"
        BY <1>0, <2>2 DEF DataType
    <2> QED
        BY <1>1, <1>2, <2>3, QuietJourney DEF CloseBet, broker
<1>3. ASSUME NEW a \in Admin, Administer(a), ~CloseBet(a)
      PROVE  UNCHANGED <<bets, queue, dead, worker, req>>
    BY <1>3 DEF Administer, SaveStatus, FindAccepted, PickBet, CreditFind, CreditPost,
                NotifySettled, MarkSettled, Announce, broker
<1>4. ASSUME NEW q \in Request, NEW b \in Bet, Receive(q, b) PROVE JourneyInv'
    <2>1. /\ req[q] = Idle /\ req' = [req EXCEPT ![q] = [pc |-> "get", bet |-> b]]
          /\ UNCHANGED <<bets, queue, dead, worker>>
        BY <1>4 DEF Receive, broker
    <2>2. \A p \in Request : /\ Sending(p)' <=> Sending(p)
                             /\ Sending(p) => req'[p].bet = req[p].bet
        BY <1>0, <2>1 DEF Sending, ReqType
    <2> QED
        BY <2>1, <2>2, QuietJourney
<1>5. ASSUME Environment, ~(\E q \in Request, b \in Bet : Receive(q, b))
      PROVE  UNCHANGED <<bets, queue, dead, worker, req>>
    BY <1>5 DEF Environment, Deposit, ExpireKey, CreateMarket, StartUpdate, StartSettle,
                broker, handlers
<1>6. CASE UNCHANGED <<bets, queue, dead, worker, req>>
    BY <1>1, <1>6, QuietJourney
<1> QED
    BY <1>2, <1>3, <1>4, <1>5, <1>6 DEF vars, broker, handlers

\* While nothing fails, no bet is forgotten between its row and its
\* acceptance, and no message is given up.
LEMMA JourneyIsSafe == Faults = {} => (Spec => []JourneyInv)
<1> SUFFICES ASSUME Faults = {} PROVE Spec => []JourneyInv
    OBVIOUS
<1>0. "reconnect" \notin Faults
    OBVIOUS
<1>1. Init => OneMessage
    BY DEF Init, OneMessage
<1>2. TypeOK /\ OneMessage /\ [Next]_vars => OneMessage'
    BY <1>0, OneMessageStays
<1>3. TypeOK /\ OneMessage /\ MoneyInv /\ JourneyInv /\ [Next]_vars => JourneyInv'
    BY NothingFails, PlaceBetJourney, HandleMessageJourney, OthersJourney DEF Next
<1> QED
    BY <1>1, <1>2, <1>3, JourneyInit, MoneyIsRight, FlowTypeCorrect, PTL DEF Spec

\* A PENDING bet has its message under way: placeBet publishes after the
\* insert, and the worker keeps the message until the bet is accepted.
THEOREM FlowPendingIsOnItsWay == Faults = {} => (Spec => []PendingIsOnItsWay)
<1>1. JourneyInv => PendingIsOnItsWay
    BY DEF JourneyInv, OnItsWay, Sending, Taking, PendingIsOnItsWay
<1> QED
    BY <1>1, JourneyIsSafe, PTL

\* No message is dead-lettered: every message the worker reads is about a bet
\* that is still PENDING.
THEOREM FlowNothingDeadLettered == Faults = {} => (Spec => []NothingDeadLettered)
<1>1. JourneyInv => NothingDeadLettered
    BY DEF JourneyInv, NothingDeadLettered
<1> QED
    BY <1>1, JourneyIsSafe, PTL

-----------------------------------------------------------------------------
(* Messages: a row comes before its message, and only a bet that has been  *)
(* accepted is refused by the worker.                                      *)

\* The bets whose messages are queued, dead-lettered or in some handler.
Spoken(b) ==
    \/ b \in queue \/ b \in dead
    \/ \E w \in Worker : worker[w] # Idle /\ worker[w].bet = b
    \/ \E q \in Request : /\ req[q] # Idle /\ req[q].bet = b
                          /\ req[q].pc \in {"cache", "publish", "confirm"}

\* Every message is about a recorded bet: placeBet inserts before it publishes.
MessagesHaveRows == \A b \in Bet : Spoken(b) => bets[b] # "ABSENT"

\* Where messages come from.
LEMMA BrokerSteps ==
    ASSUME TypeOK, [Next]_vars, NEW b \in Bet
    PROVE  /\ b \in queue' => Spoken(b)
           /\ b \in dead' => b \in dead \/ \E w \in Worker : Working(w, "nack") /\ worker[w].bet = b
<1> DEFINE Said == /\ b \in queue' => Spoken(b)
                   /\ b \in dead' => b \in dead \/ \E w \in Worker :
                                         Working(w, "nack") /\ worker[w].bet = b
<1>1. CASE UNCHANGED <<queue, dead>>
    BY <1>1 DEF Spoken
<1>2. ASSUME NEW q \in Request, Publish(q) \/ Republish(q) PROVE Said
    BY <1>2 DEF Publish, Republish, Placed, Spoken
<1>3. ASSUME NEW w \in Worker, HandleMessage(w) \/ LoseChannel(w) PROVE Said
    BY <1>3 DEF HandleMessage, Deliver, ReadStatus, UpdateStatus, CheckTerminal, Answer,
                LoseChannel, Holds, Working, Spoken, broker
<1>4. CASE Restart
    BY <1>4 DEF Restart, Holds, Spoken
<1>5. ASSUME NEW q \in Request, PlaceBet(q), ~Publish(q) PROVE UNCHANGED <<queue, dead>>
    BY <1>5 DEF PlaceBet, CacheGet, LookupBet, AssertMarketOpen, DebitFind, DebitPost,
                InsertBet, CacheSet, Confirm, broker
<1>6. ASSUME NEW a \in Admin, Administer(a) PROVE UNCHANGED <<queue, dead>>
    BY <1>6 DEF Administer, SaveStatus, FindAccepted, PickBet, CreditFind, CreditPost,
                CloseBet, NotifySettled, MarkSettled, Announce, broker
<1>7. ASSUME Environment PROVE UNCHANGED <<queue, dead>>
    BY <1>7 DEF Environment, Deposit, Receive, ExpireKey, CreateMarket, StartUpdate,
                StartSettle, broker
<1>8. ASSUME Failure
      PROVE  \/ UNCHANGED <<queue, dead>> \/ Restart
             \/ \E q \in Request : Republish(q)
             \/ \E w \in Worker : LoseChannel(w)
    BY <1>8 DEF Failure, RequestError, WorkerError, BetError, AdminError, Crash,
                AnswerOnLostChannel, broker
<1> QED
    BY <1>1, <1>2, <1>3, <1>4, <1>5, <1>6, <1>7, <1>8 DEF Next, vars, broker

\* What a step makes of a message in the worker's hands.
LEMMA WorkerEffect ==
    ASSUME TypeOK, [Next]_vars, NEW w \in Worker, worker'[w] # Idle
    PROVE  \/ worker'[w] = worker[w]
           \/ worker'[w].pc = "read" /\ worker'[w].bet \in queue
           \/ /\ worker[w] # Idle /\ worker'[w].bet = worker[w].bet
              /\ \/ worker'[w].pc = worker[w].pc
                 \/ worker'[w].pc \in {"update", "ack"}
                 \/ /\ worker'[w].pc = "terminal" /\ ReadStatus(w)
                    /\ \/ bets[worker[w].bet] = "ABSENT"
                       \/ "ACCEPTED" \notin ALLOWED_TRANSITIONS[bets[worker[w].bet]]
                 \/ worker'[w].pc = "nack" /\ worker[w].pc = "terminal"
                 \/ WorkerError(w)
<1>0. WorkerType
    BY TypeParts
<1> SUFFICES ASSUME worker'[w] # worker[w]
             PROVE  \/ worker'[w].pc = "read" /\ worker'[w].bet \in queue
                    \/ /\ worker[w] # Idle /\ worker'[w].bet = worker[w].bet
                       /\ \/ worker'[w].pc = worker[w].pc
                          \/ worker'[w].pc \in {"update", "ack"}
                          \/ /\ worker'[w].pc = "terminal" /\ ReadStatus(w)
                             /\ \/ bets[worker[w].bet] = "ABSENT"
                                \/ "ACCEPTED" \notin ALLOWED_TRANSITIONS[bets[worker[w].bet]]
                          \/ worker'[w].pc = "nack" /\ worker[w].pc = "terminal"
                          \/ WorkerError(w)
    OBVIOUS
<1>1. PICK v \in Worker : HandleMessage(v) \/ WorkerError(v) \/ LoseChannel(v)
    BY WorkerSteps DEF Restart
<1>2. v = w
    BY <1>0, <1>1
       DEF HandleMessage, Deliver, ReadStatus, UpdateStatus, CheckTerminal, Answer,
           WorkerError, LoseChannel, Continue, WorkerType
<1>3. ~Answer(w)
    BY <1>0 DEF Answer, WorkerType
<1>4. ASSUME NEW b \in Bet, Deliver(w, b)
      PROVE  worker'[w].pc = "read" /\ worker'[w].bet \in queue
    BY <1>0, <1>4 DEF Deliver, WorkerType
<1>5. ASSUME NEW pc, Continue(w, pc), worker[w] # Idle
      PROVE  worker'[w].pc = pc /\ worker'[w].bet = worker[w].bet
    BY <1>0, <1>5, WorkingType DEF Continue, WorkerType, Accepting
<1>6. CASE ReadStatus(w)
    BY <1>5, <1>6 DEF ReadStatus, Working
<1>7. CASE UpdateStatus(w) \/ CheckTerminal(w) \/ WorkerError(w)
    BY <1>5, <1>7 DEF UpdateStatus, CheckTerminal, WorkerError, Working
<1>8. CASE LoseChannel(w)
    BY <1>0, <1>8, WorkingType DEF LoseChannel, Holds, WorkerType, Accepting
<1> QED
    BY <1>1, <1>2, <1>3, <1>4, <1>6, <1>7, <1>8 DEF HandleMessage

\* What is spoken of after a step was spoken of before it, or is a bet that
\* the step records.
LEMMA SpokenComes ==
    ASSUME TypeOK, [Next]_vars, NEW b \in Bet, Spoken(b)'
    PROVE  Spoken(b) \/ bets'[b] # "ABSENT"
<1>0. ReqType /\ WorkerType /\ DataType
    BY TypeParts
<1>1. CASE b \in queue' \/ b \in dead'
    BY <1>1, BrokerSteps DEF Spoken, Working
<1>2. ASSUME NEW w \in Worker, worker'[w] # Idle, worker'[w].bet = b PROVE Spoken(b)
    BY <1>2, WorkerEffect DEF Spoken
<1>3. ASSUME NEW q \in Request, req'[q] # Idle, req'[q].bet = b,
             req'[q].pc \in {"cache", "publish", "confirm"}
      PROVE  Spoken(b) \/ bets'[b] # "ABSENT"
    <2>1. CASE req'[q] = req[q]
        BY <1>3, <2>1 DEF Spoken
    <2>2. CASE req'[q] # req[q]
        <3>1. PlaceBet(q) /\ req[q] # Idle /\ req[q].bet = b
            BY <1>3, <2>2, ReqEffect
        <3>2. ~Return(q)
            BY <1>0, <1>3 DEF Return, ReqType
        <3>3. ASSUME NEW pc, Proceed(q, pc) PROVE req'[q].pc = pc
            BY <1>0, <3>1, <3>3, PlacedType DEF Proceed, ReqType, Placing
        <3>4. InsertBet(q) \/ CacheSet(q) \/ Publish(q)
            BY <1>3, <3>1, <3>2, <3>3
               DEF PlaceBet, CacheGet, LookupBet, AssertMarketOpen, DebitFind, DebitPost, Confirm
        <3>5. CASE InsertBet(q)
            BY <1>0, <3>1, <3>2, <3>5 DEF InsertBet, DataType
        <3>6. CASE CacheSet(q) \/ Publish(q)
            BY <3>1, <3>6 DEF CacheSet, Publish, Placed, Spoken
        <3> QED
            BY <3>4, <3>5, <3>6
    <2> QED
        BY <2>1, <2>2
<1> QED
    BY <1>1, <1>2, <1>3 DEF Spoken

\* No message is about a bet without a row, whatever fails.
THEOREM FlowMessagesHaveRows == Spec => []MessagesHaveRows
<1>1. Init => MessagesHaveRows
    BY DEF Init, MessagesHaveRows, Spoken
<1>2. TypeOK /\ MoneyInv /\ MessagesHaveRows /\ [Next]_vars => MessagesHaveRows'
    BY SpokenComes, StepGrows DEF MessagesHaveRows, Grows
<1> QED
    BY <1>1, <1>2, MoneyIsRight, FlowTypeCorrect, PTL DEF Spec

\* The code sets neither VOID nor CANCELLED.
InUse == \A b \in Bet : bets[b] \in {"ABSENT", "PENDING", "ACCEPTED", "SETTLED"}

\* The worker refuses, and the dead letter queue holds, accepted bets only.
RefusesTaken ==
    /\ \A w \in Worker :
           (worker[w] # Idle /\ worker[w].pc \in {"terminal", "nack"}) => Taken(worker[w].bet)
    /\ \A b \in dead : Taken(b)
RefusalInv == InUse /\ RefusesTaken

LEMMA InUseStays == ASSUME TypeOK, InUse, [Next]_vars PROVE InUse'
<1>0. DataType
    BY TypeParts
<1> QED
    BY <1>0, BetSteps DEF InUse, InsertBet, UpdateStatus, CloseBet, DataType

LEMMA RefusesTakenStays ==
    ASSUME "error" \notin Faults, TypeOK, MoneyInv, MessagesHaveRows, RefusalInv, [Next]_vars
    PROVE  RefusesTaken'
<1>0. WorkerType /\ Grows /\ dead' \subseteq Bet
    <2>1. TypeOK'
        BY FlowNextType
    <2> QED
        BY <2>1, TypeParts, StepGrows DEF TypeOK
<1>1. ASSUME NEW w \in Worker, worker'[w] # Idle, worker'[w].pc \in {"terminal", "nack"}
      PROVE  worker'[w].bet \in Bet /\ Taken(worker'[w].bet)
    <2>1. ~WorkerError(w)
        BY DEF WorkerError
    <2>2. CASE worker'[w] = worker[w]
        BY <1>0, <1>1, <2>2, WorkingType DEF RefusalInv, RefusesTaken
    <2>3. CASE worker'[w] # worker[w]
        <3>1. worker[w] # Idle /\ worker'[w].bet = worker[w].bet /\ worker[w].bet \in Bet
            BY <1>0, <1>1, <2>1, <2>3, WorkerEffect, WorkingType
        <3>2. CASE worker[w].pc \in {"terminal", "nack"}
            BY <3>1, <3>2 DEF RefusalInv, RefusesTaken
        <3>3. CASE "ACCEPTED" \notin ALLOWED_TRANSITIONS[bets[worker[w].bet]]
                   \/ bets[worker[w].bet] = "ABSENT"
            <4> DEFINE b == worker[w].bet
            <4>1. bets[b] # "ABSENT"
                BY <3>1 DEF MessagesHaveRows, Spoken
            <4>2. bets[b] \in {"PENDING", "ACCEPTED", "SETTLED"}
                BY <3>1, <4>1 DEF RefusalInv, InUse
            <4>3. bets[b] # "PENDING"
                BY <3>3, <4>1 DEF ALLOWED_TRANSITIONS, BetStatus
            <4> QED
                BY <3>1, <4>2, <4>3 DEF Taken
        <3> QED
            BY <1>1, <2>1, <2>3, <3>2, <3>3, WorkerEffect
    <2> QED
        BY <2>2, <2>3
<1>2. ASSUME NEW b \in dead' PROVE b \in Bet /\ Taken(b)
    <2>1. b \in Bet
        BY <1>0
    <2> QED
        BY <2>1, BrokerSteps DEF RefusalInv, RefusesTaken, Working
<1> QED
    BY <1>0, <1>1, <1>2 DEF RefusesTaken, Grows

\* While the database answers, every dead letter is a repeated message about
\* a bet that was accepted, whatever crashes and however often channels are
\* lost: nothing in the dead letter queue waits to be repaired.
THEOREM FlowDeadLettersAreAccepted ==
    "error" \notin Faults => (Spec => []DeadLettersAreAccepted)
<1> SUFFICES ASSUME "error" \notin Faults PROVE Spec => []DeadLettersAreAccepted
    OBVIOUS
<1>1. Init => RefusalInv
    BY DEF Init, RefusalInv, InUse, RefusesTaken
<1>2. /\ TypeOK /\ MoneyInv /\ MessagesHaveRows /\ RefusalInv /\ [Next]_vars
      => RefusalInv'
    BY InUseStays, RefusesTakenStays DEF RefusalInv
<1>3. RefusalInv => DeadLettersAreAccepted
    BY DEF RefusalInv, RefusesTaken, DeadLettersAreAccepted, Taken
<1> QED
    BY <1>1, <1>2, <1>3, FlowMessagesHaveRows, MoneyIsRight, FlowTypeCorrect, PTL DEF Spec

-----------------------------------------------------------------------------
(* How long a handler can take: each of its steps, one that fails as much  *)
(* as one that succeeds, brings it nearer to its end.                      *)

\* The steps that a request, a worker or a call can still take at most.
RequestLeft(q) ==
    IF req[q] = Idle THEN 0
    ELSE CASE req[q].pc = "get" -> 9     [] req[q].pc = "lookup" -> 8
           [] req[q].pc = "market" -> 7  [] req[q].pc = "debit" -> 6
           [] req[q].pc = "post" -> 5    [] req[q].pc = "insert" -> 4
           [] req[q].pc = "cache" -> 3   [] req[q].pc = "publish" -> 2
           [] OTHER -> 1

\* The loss of its channel is a step too.
WorkerLeft(w) ==
    IF worker[w] = Idle THEN 0
    ELSE (IF worker[w].live THEN 1 ELSE 0) +
         (CASE worker[w].pc = "read" -> 4     [] worker[w].pc = "update" -> 3
            [] worker[w].pc = "terminal" -> 2 [] OTHER -> 1)

\* Five steps for each bet that is still to be settled.
AdminLeft(a) ==
    IF admin[a] = Idle THEN 0
    ELSE CASE admin[a].pc = "find" -> 5 * Cardinality(Bet) + 3
           [] admin[a].pc = "credit" -> 5 * Cardinality(admin[a].todo) + 6
           [] admin[a].pc = "post" -> 5 * Cardinality(admin[a].todo) + 5
           [] admin[a].pc = "close" -> 5 * Cardinality(admin[a].todo) + 4
           [] admin[a].pc = "notify" -> 5 * Cardinality(admin[a].todo) + 3
           [] admin[a].pc = "loop" -> 5 * Cardinality(admin[a].todo) + 2
           [] admin[a].pc = "save" -> 2
           [] OTHER -> 1

HandlersAdvance ==
    /\ \A q \in Request :
           (req[q] # Idle /\ req'[q] # req[q]) => RequestLeft(q)' < RequestLeft(q)
    /\ \A w \in Worker :
           (worker[w] # Idle /\ worker'[w] # worker[w]) => WorkerLeft(w)' < WorkerLeft(w)
    /\ \A a \in Admin :
           (admin[a] # Idle /\ admin'[a] # admin[a]) => AdminLeft(a)' < AdminLeft(a)

LEMMA RequestAdvances ==
    ASSUME TypeOK, [Next]_vars, NEW q \in Request, req[q] # Idle, req'[q] # req[q]
    PROVE  RequestLeft(q)' < RequestLeft(q)
<1>0. ReqType /\ req[q] \in Placing
    BY TypeParts, PlacedType DEF TypeOK
<1>1. CASE req'[q] = Idle
    BY <1>0, <1>1 DEF RequestLeft, Placing
<1>2. CASE req'[q] # Idle
    <2>1. PICK p \in Request : PlaceBet(p) \/ Return(p) \/ \E b \in Bet : Receive(p, b)
        BY <1>2, ReqSteps DEF Restart
    <2>2. p = q
        BY <1>0, <2>1
           DEF PlaceBet, CacheGet, LookupBet, AssertMarketOpen, DebitFind, DebitPost, InsertBet,
               CacheSet, Publish, Confirm, Receive, Proceed, Return, ReqType
    <2>3. PlaceBet(q) /\ ~Return(q)
        BY <1>0, <1>2, <2>1, <2>2 DEF Receive, Return, ReqType
    <2>4. PICK pc \in PlaceStep :
              /\ Proceed(q, pc)
              /\ \/ req[q].pc = "get" /\ pc = "lookup"
                 \/ req[q].pc = "lookup" /\ pc = "market"
                 \/ req[q].pc = "market" /\ pc = "debit"
                 \/ req[q].pc = "debit" /\ pc \in {"post", "insert"}
                 \/ req[q].pc = "post" /\ pc = "insert"
                 \/ req[q].pc = "insert" /\ pc = "cache"
                 \/ req[q].pc = "cache" /\ pc = "publish"
                 \/ req[q].pc = "publish" /\ pc = "confirm"
        BY <2>3
           DEF PlaceBet, CacheGet, LookupBet, AssertMarketOpen, DebitFind, DebitPost, InsertBet,
               CacheSet, Publish, Confirm, Placed, PlaceStep
    <2>5. req'[q].pc = pc
        BY <1>0, <2>4 DEF Proceed, ReqType, Placing
    <2> QED
        BY <1>2, <2>4, <2>5 DEF RequestLeft
<1> QED
    BY <1>1, <1>2

LEMMA WorkerAdvances ==
    ASSUME TypeOK, [Next]_vars, NEW w \in Worker, worker[w] # Idle, worker'[w] # worker[w]
    PROVE  WorkerLeft(w)' < WorkerLeft(w)
<1>0. WorkerType /\ worker[w] \in Accepting
    BY TypeParts, WorkingType DEF TypeOK
<1>1. CASE worker'[w] = Idle
    BY <1>0, <1>1 DEF WorkerLeft, Accepting
<1>2. CASE worker'[w] # Idle
    <2>1. PICK v \in Worker : HandleMessage(v) \/ WorkerError(v) \/ LoseChannel(v)
        BY <1>2, WorkerSteps DEF Restart
    <2>2. v = w
        BY <1>0, <2>1
           DEF HandleMessage, Deliver, ReadStatus, UpdateStatus, CheckTerminal, Answer,
               WorkerError, LoseChannel, Continue, WorkerType
    <2>3. ~Answer(w) /\ \A b \in Bet : ~Deliver(w, b)
        BY <1>0, <1>2 DEF Answer, Deliver, WorkerType
    <2>4. CASE LoseChannel(w)
        <3>1. worker[w].live /\ ~worker'[w].live /\ worker'[w].pc = worker[w].pc
            BY <1>0, <2>4 DEF LoseChannel, Holds, WorkerType, Accepting
        <3> QED
            BY <1>0, <1>2, <3>1 DEF WorkerLeft, Accepting
    <2>5. CASE ~LoseChannel(w)
        <3>1. PICK pc \in {"read", "update", "terminal", "ack", "nack"} :
                  /\ Continue(w, pc)
                  /\ \/ worker[w].pc = "read" /\ pc \in {"update", "terminal"}
                     \/ worker[w].pc = "update" /\ pc \in {"ack", "terminal"}
                     \/ worker[w].pc = "terminal" /\ pc \in {"ack", "nack"}
            BY <2>1, <2>2, <2>3, <2>5
               DEF HandleMessage, ReadStatus, UpdateStatus, CheckTerminal, WorkerError, Working
        <3>2. worker'[w].pc = pc /\ worker'[w].live = worker[w].live
            BY <1>0, <3>1 DEF Continue, WorkerType, Accepting
        <3> QED
            BY <1>0, <1>2, <3>1, <3>2 DEF WorkerLeft, Accepting
    <2> QED
        BY <2>4, <2>5
<1> QED
    BY <1>1, <1>2

\* What becomes of a call that is under way.
LEMMA CallSteps ==
    ASSUME TypeOK, [Next]_vars, NEW a \in Admin, admin[a] # Idle, admin'[a] # admin[a]
    PROVE  admin'[a] = Idle \/ Administer(a) \/ BetError(a)
<1>0. AdminType
    BY TypeParts
<1>1. CASE Restart
    BY <1>1 DEF Restart
<1>2. ASSUME NEW q \in Request, PlaceBet(q) PROVE UNCHANGED admin
    BY <1>2 DEF PlaceBet, CacheGet, LookupBet, AssertMarketOpen, DebitFind,
                DebitPost, InsertBet, CacheSet, Publish, Confirm
<1>3. ASSUME NEW w \in Worker, HandleMessage(w) PROVE UNCHANGED admin
    BY <1>3 DEF HandleMessage, Deliver, ReadStatus, UpdateStatus, CheckTerminal, Answer
<1>4. ASSUME NEW o \in Admin, Administer(o) PROVE o = a
    BY <1>0, <1>4
       DEF Administer, SaveStatus, FindAccepted, PickBet, CreditFind, CreditPost,
           CloseBet, NotifySettled, MarkSettled, Announce, MoveOn, Finish, BackToLoop, AdminType
<1>5. ASSUME Environment PROVE FALSE
    <2>1. \A o \in Admin : \A pc, m, arg : ~Begin(o, pc, m, arg)
        BY <1>0 DEF Begin, AdminType
    <2> QED
        BY <1>5, <2>1 DEF Environment, Deposit, Receive, ExpireKey, CreateMarket, StartUpdate,
                          StartSettle, handlers
<1>6. ASSUME NEW o \in Admin, BetError(o) \/ AdminError(o) PROVE o = a
    BY <1>0, <1>6 DEF BetError, AdminError, BackToLoop, Finish, AdminType
<1>7. AdminError(a) => admin'[a] = Idle
    BY <1>0 DEF AdminError, Finish, AdminType
<1>8. ASSUME Failure, ~Restart PROVE \E o \in Admin : BetError(o) \/ AdminError(o)
    BY <1>8 DEF Failure, RequestError, Republish, WorkerError, LoseChannel, Crash,
                AnswerOnLostChannel, handlers
<1> QED
    BY <1>1, <1>2, <1>3, <1>4, <1>5, <1>6, <1>7, <1>8 DEF Next, vars, handlers

LEMMA AdminAdvances ==
    ASSUME IsFiniteSet(Bet), TypeOK, [Next]_vars,
           NEW a \in Admin, admin[a] # Idle, admin'[a] # admin[a]
    PROVE  AdminLeft(a)' < AdminLeft(a)
<1>0. AdminType /\ admin[a] \in Administering
    BY TypeParts, ManagingType DEF TypeOK
<1>1. \A S \in SUBSET Bet : /\ IsFiniteSet(S) /\ Cardinality(S) \in Nat
                            /\ Cardinality(S) <= Cardinality(Bet)
    BY FS_Subset, FS_CardinalityType
<1>2. Cardinality(Bet) \in Nat
    BY FS_CardinalityType
<1>3. PICK n \in Nat : n = Cardinality(admin[a].todo)
    BY <1>0, <1>1 DEF Administering
<1>4. AdminLeft(a) \in Nat \ {0}
    BY <1>0, <1>2, <1>3 DEF AdminLeft
<1>5. CASE admin'[a] = Idle
    BY <1>4, <1>5 DEF AdminLeft
<1>6. CASE admin'[a] # Idle
    <2>1. ASSUME NEW pc, MoveOn(a, pc)
          PROVE  admin'[a].pc = pc /\ admin'[a].todo = admin[a].todo
        BY <1>0, <2>1 DEF MoveOn, AdminType, Administering
    <2>2. ASSUME BackToLoop(a), admin[a].pc \in {"credit", "post", "close", "notify"}
          PROVE  AdminLeft(a)' < AdminLeft(a)
        <3>1. admin'[a].pc = "loop" /\ admin'[a].todo = admin[a].todo
            BY <1>0, <2>2 DEF BackToLoop, AdminType, Administering
        <3> QED
            BY <1>3, <1>6, <2>2, <3>1 DEF AdminLeft
    <2>3. CASE SaveStatus(a) \/ MarkSettled(a)
        BY <1>3, <1>6, <2>1, <2>3 DEF SaveStatus, MarkSettled, Managing, AdminLeft
    <2>4. CASE FindAccepted(a)
        <3>1. admin'[a].pc = "loop" /\ admin'[a].todo \in SUBSET Bet
            BY <1>0, <2>4 DEF FindAccepted, LiveBets, AdminType, Administering
        <3>2. PICK k \in Nat : k = Cardinality(admin'[a].todo) /\ k <= Cardinality(Bet)
            BY <1>1, <3>1
        <3>3. AdminLeft(a)' = 5 * k + 2
            BY <1>6, <3>1, <3>2 DEF AdminLeft
        <3>4. PICK n0 \in Nat : n0 = Cardinality(Bet)
            BY <1>2
        <3>5. AdminLeft(a) = 5 * n0 + 3
            BY <2>4, <3>4 DEF FindAccepted, Managing, AdminLeft
        <3> QED
            BY <3>2, <3>3, <3>4, <3>5
    <2>5. ASSUME NEW b \in Bet, PickBet(a, b) PROVE AdminLeft(a)' < AdminLeft(a)
        <3>1. /\ admin'[a].pc = IF admin[a].arg = "WIN" THEN "credit" ELSE "close"
              /\ admin'[a].todo = admin[a].todo \ {b} /\ b \in admin[a].todo
              /\ admin[a].pc = "loop"
            BY <1>0, <2>5 DEF PickBet, Managing, AdminType, Administering
        <3>2. IsFiniteSet(admin[a].todo)
            BY <1>0, <1>1 DEF Administering
        <3>3. Cardinality(admin'[a].todo) = n - 1
            BY <1>3, <3>1, <3>2, FS_RemoveElement
        <3>4. admin'[a].pc \in {"credit", "close"}
            BY <3>1
        <3> QED
            BY <1>3, <1>6, <3>1, <3>3, <3>4 DEF AdminLeft
    <2>6. CASE CreditFind(a)
        <3>1. /\ admin[a].pc = "credit" /\ admin'[a].pc \in {"post", "close"}
              /\ admin'[a].todo = admin[a].todo
            BY <2>1, <2>6 DEF CreditFind, Managing
        <3> QED
            BY <1>3, <1>6, <3>1 DEF AdminLeft
    <2>7. CASE CreditPost(a)
        <3>1. CASE MoveOn(a, "close")
            BY <1>3, <1>6, <2>1, <2>7, <3>1 DEF CreditPost, Managing, AdminLeft
        <3> QED
            BY <2>2, <2>7, <3>1 DEF CreditPost, Managing
    <2>8. CASE CloseBet(a)
        BY <1>3, <1>6, <2>1, <2>8 DEF CloseBet, Managing, AdminLeft
    <2>9. CASE NotifySettled(a) \/ BetError(a)
        BY <2>2, <2>9 DEF NotifySettled, BetError, Managing
    <2>10. ~Announce(a)
        BY <1>0, <1>6 DEF Announce, Finish, AdminType
    <2> QED
        BY <1>6, <2>3, <2>4, <2>5, <2>6, <2>7, <2>8, <2>9, <2>10, CallSteps DEF Administer
<1> QED
    BY <1>5, <1>6

\* No handler takes a step twice: a request, a delivery and a settlement of any
\* finite number of bets have a bound on the steps they take, which every step
\* lowers and no step of another handler raises, whatever fails.  A settlement
\* that skips a bet is as much nearer to its end as one that pays it.  With the
\* fairness of the handlers this is why PlacementEnds and SettlementEnds hold.
THEOREM FlowHandlersAdvance == IsFiniteSet(Bet) => (Spec => [][HandlersAdvance]_vars)
<1> SUFFICES ASSUME IsFiniteSet(Bet) PROVE Spec => [][HandlersAdvance]_vars
    OBVIOUS
<1>1. TypeOK /\ [Next]_vars => [HandlersAdvance]_vars
    BY RequestAdvances, WorkerAdvances, AdminAdvances DEF HandlersAdvance
<1> QED
    BY <1>1, FlowTypeCorrect, PTL DEF Spec
=============================================================================
